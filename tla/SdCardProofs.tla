---------------------------- MODULE SdCardProofs ----------------------------
(***************************************************************************)
(* What is proved of SdCard for every card, every bound of its polling     *)
(* loops and every set of ranges: that the types are right, that a late    *)
(* answer is never on the line of another command, that every call leaves  *)
(* the card deselected with nothing pending, and, for ranges whose byte    *)
(* addresses fit a word, that the card is given the address of the sector  *)
(* meant.                                                                  *)
(***************************************************************************)
EXTENDS SdCard, TLAPS

(* What TypeOK says of the card and of the driver.                         *)
CardTypeOK ==
  /\ kind \in AllKinds
  /\ cstate \in {"absent", "native", "idle", "ready"}
  /\ rx \in Commands \cup {NoCommand}
  /\ rxArg \in 0..(WordSize - 1)
  /\ line \in Seq(Item)
  /\ job \in [op : {"none", "read", "write"}, block : Blocks]
  /\ prog \in {Idling} \cup [block : Blocks, val : Data]
  /\ mem \in [Blocks -> Data]
  /\ swaps \in 0..MaxSwaps

CallTypeOK ==
  /\ call \in Calls
  /\ i \in Nat
  /\ got \in Seq(Data \cup {Garbage})
  /\ ret \in {"NONE", "OK", "FAILURE", "NOCARD", "TIMEOUT"}
  /\ mounted \in BOOLEAN

PacketTypeOK ==
  /\ packet \in Commands
  /\ polls \in 0..(PollMax + 1)
  /\ timeout \in BOOLEAN
  /\ stat \in Stats

ControlTypeOK ==
  /\ pc \in {"idle", "detect", "send", "header", "data", "put", "busy", "verify", "return"}
  /\ step \in {"cmd0", "cmd8", "cmd55", "opcond", "ocr", "cid", "app", "csd", "len", "block"}
  /\ tries \in 0..OpCondTries
  /\ ccs \in {0, 1} /\ ver2 \in {0, 1} /\ mmc \in {0, 1}
  /\ cs \in BOOLEAN /\ green \in BOOLEAN /\ red \in BOOLEAN

LEMMA TypeParts == TypeOK <=> CardTypeOK /\ CallTypeOK /\ PacketTypeOK /\ ControlTypeOK
  BY Zenon DEF TypeOK, CardTypeOK, CallTypeOK, PacketTypeOK, ControlTypeOK

LEMMA TypePartsPrimed ==
  TypeOK' <=> CardTypeOK' /\ CallTypeOK' /\ PacketTypeOK' /\ ControlTypeOK'
  BY Zenon DEF TypeOK, CardTypeOK, CallTypeOK, PacketTypeOK, ControlTypeOK
-----------------------------------------------------------------------------
(* What is under way between the driver and the card.                      *)

Silent == rx = NoCommand /\ line = <<>> /\ job = NoJob

(* Outside of the loops that wait for the card it has nothing to say, and  *)
(* it has not while it programs or when it is not there.                   *)
Quiet ==
  pc \in {"idle", "detect", "send", "busy", "verify", "return"} \/ Busy \/ cstate = "absent"
    => Silent

OnLine(k, what) == line[k].of = packet /\ line[k].what = what

(* One answer: the command, then its header, then the data of a read.      *)
InHeader ==
  pc = "header" =>
    /\ rx # NoCommand => rx = packet /\ Len(line) = 0
    /\ Len(line) \in {0, 1, 2}
    /\ Len(line) = 0 => job = NoJob
    /\ Len(line) > 0 => OnLine(1, "header")
    /\ Len(line) > 1 => OnLine(2, "data") /\ job = NoJob /\ packet = 17
    /\ job # NoJob => packet = (IF job.op = "read" THEN 17 ELSE 24)

InData ==
  pc = "data" =>
    /\ rx = NoCommand /\ packet = 17
    /\ job # NoJob => job.op = "read" /\ Len(line) = 0
    /\ Len(line) \in {0, 1}
    /\ Len(line) = 1 => OnLine(1, "data")

InPut ==
  pc = "put" =>
    rx = NoCommand /\ packet = 24 /\ line = <<>> /\ (job # NoJob => job.op = "write")

JobKnown == job = NoJob \/ job.op # "none"

Link == Quiet /\ InHeader /\ InData /\ InPut /\ JobKnown

(* What the driver knows at each place.                                    *)
Registers ==
  /\ pc \in {"header", "data", "put"} => packet = CommandOf
  /\ pc # "idle" /\ step = "block" => call.op \in {"read", "write"} /\ i < call.n
  /\ pc \in {"idle", "detect"} => ~cs
  /\ pc = "return" /\ step = "block" => ~cs
  /\ step \in {"cmd55", "opcond"} => tries < OpCondTries

IInv == TypeOK /\ Link /\ Registers
-----------------------------------------------------------------------------
(* Which packet is sent where (the calls of sdc_sendpacket).               *)
LEMMA CommandOfCases ==
  ASSUME ControlTypeOK
  PROVE  /\ step = "cmd0" => CommandOf = 0
         /\ step = "cmd8" => CommandOf = 8
         /\ step \in {"cmd55", "app"} => CommandOf = 55
         /\ step = "opcond" => CommandOf \in {1, 41}
         /\ step = "ocr" => CommandOf = 58
         /\ step = "cid" => CommandOf = 10
         /\ step = "csd" => CommandOf = 9
         /\ step = "len" => CommandOf = 16
         /\ step = "block" => CommandOf = (IF call.op = "read" THEN 17 ELSE 24)
<1>1. step = "cmd0" => CommandOf = 0
  BY Zenon DEF CommandOf
<1>2. step = "cmd8" => CommandOf = 8
  BY Zenon DEF CommandOf
<1>3. step \in {"cmd55", "app"} => CommandOf = 55
  BY Zenon DEF CommandOf
<1>4. step = "opcond" => CommandOf \in {1, 41}
  BY Zenon DEF CommandOf
<1>5. step = "ocr" => CommandOf = 58
  BY Zenon DEF CommandOf
<1>6. step = "cid" => CommandOf = 10
  BY Zenon DEF CommandOf
<1>7. step = "csd" => CommandOf = 9
  BY Zenon DEF CommandOf
<1>8. step = "len" => CommandOf = 16
  BY Zenon DEF CommandOf
<1>9. step = "block" => CommandOf = (IF call.op = "read" THEN 17 ELSE 24)
  BY Zenon DEF CommandOf
<1> QED
  BY <1>1, <1>2, <1>3, <1>4, <1>5, <1>6, <1>7, <1>8, <1>9, Zenon

(* Transfers are what the calls on sectors send, and nothing else.         *)
LEMMA CommandOfFacts ==
  ASSUME ControlTypeOK
  PROVE  /\ CommandOf \in Commands
         /\ CommandOf = 17 <=> step = "block" /\ call.op = "read"
         /\ CommandOf = 24 <=> step = "block" /\ call.op # "read"
  BY CommandOfCases, SMT DEF ControlTypeOK, Commands

LEMMA ArgumentTyped ==
  ASSUME ControlTypeOK, CallTypeOK PROVE Argument \in 0..(WordSize - 1)
<1>1. CASE step = "block"
  <2>1. Argument = ((call.lba + i) * (IF ccs = 0 THEN BlockSize ELSE 1)) % WordSize
    BY <1>1, Zenon DEF Argument
  <2>2. call.lba \in Nat
    BY GeometryAssumption DEF CallTypeOK, Calls
  <2>3. (call.lba + i) * (IF ccs = 0 THEN BlockSize ELSE 1) \in Nat
    BY <2>2, GeometryAssumption DEF CallTypeOK
  <2> QED
    BY <2>1, <2>3, GeometryAssumption
<1>2. CASE step # "block"
  <2>1. Argument = ver2 \/ Argument = 0
    BY <1>2, Zenon DEF Argument
  <2> QED
    BY <2>1, GeometryAssumption DEF ControlTypeOK
<1> QED
  BY <1>1, <1>2

(* The card agrees only to transfers of a sector it has.                   *)
LEMMA AgreedAddress ==
  ASSUME NEW s \in Answers, IsTransfer(rx), s.r1 = 0
  PROVE  Addressed # {}
<1>1. \A x \in Refused : x.r1 = 5
  BY DEF Refused
<1> QED
  BY <1>1 DEF Answers, IsTransfer
-----------------------------------------------------------------------------
(* The steps of the card.                                                  *)

LEMMA CardKeepsDriver ==
  ASSUME UNCHANGED <<callVars, packetVars, sdVars, ledVars, pc, step, cs>>,
         CallTypeOK, PacketTypeOK, ControlTypeOK, Registers
  PROVE  CallTypeOK' /\ PacketTypeOK' /\ ControlTypeOK' /\ Registers'
<1>1. CallTypeOK' /\ PacketTypeOK' /\ ControlTypeOK'
  BY DEF callVars, packetVars, sdVars, ledVars, CallTypeOK, PacketTypeOK, ControlTypeOK
<1>2. CommandOf' = CommandOf
  BY DEF CommandOf, callVars, sdVars
<1>3. Registers'
  BY <1>2 DEF Registers, callVars, packetVars, sdVars, ledVars
<1> QED
  BY <1>1, <1>3

LEMMA NoJobTyped == NoJob \in [op : {"none", "read", "write"}, block : Blocks]
  BY GeometryAssumption DEF NoJob, Blocks

(* The card has received a command only while the driver polls for its     *)
(* header.                                                                 *)
LEMMA CommandHeard ==
  ASSUME IInv, rx # NoCommand
  PROVE  /\ pc = "header" /\ rx = packet /\ line = <<>> /\ job = NoJob
         /\ ~Busy /\ cstate # "absent" /\ rx \in Commands
<1>1. CardTypeOK /\ ControlTypeOK /\ Link
  BY TypeParts DEF IInv
<1>2. ~Busy /\ cstate # "absent" /\ pc \in {"header", "data", "put"}
  BY <1>1 DEF Link, Quiet, Silent, ControlTypeOK
<1>3. pc = "header"
  BY <1>1, <1>2 DEF Link, InData, InPut
<1>4. rx = packet /\ Len(line) = 0 /\ job = NoJob
  BY <1>1, <1>3 DEF Link, InHeader
<1>5. line = <<>>
  BY <1>4, <1>1 DEF CardTypeOK
<1> QED
  BY <1>1, <1>2, <1>3, <1>4, <1>5 DEF CardTypeOK

LEMMA CardAnswersStep == IInv /\ CardAnswers => IInv'
<1> SUFFICES ASSUME IInv, CardAnswers PROVE IInv'
  OBVIOUS
<1>1. CardTypeOK /\ CallTypeOK /\ PacketTypeOK /\ ControlTypeOK /\ Link /\ Registers
  BY TypeParts DEF IInv
<1>2. CallTypeOK' /\ PacketTypeOK' /\ ControlTypeOK' /\ Registers'
  BY <1>1, CardKeepsDriver DEF CardAnswers
<1>3. pc = "header" /\ rx = packet /\ line = <<>> /\ job = NoJob /\ ~Busy /\ cstate # "absent"
      /\ rx \in Commands
  BY CommandHeard DEF CardAnswers
<1>4. PICK s \in Answers :
        /\ line' = Append(line, [what |-> "header", of |-> rx, stat |-> s, val |-> Garbage])
        /\ cstate' = (IF rx = 0 THEN "idle"
                      ELSE IF rx \in {1, 41} /\ s.r1 = 0 THEN "ready" ELSE cstate)
        /\ job' = (IF IsTransfer(rx) /\ s.r1 = 0
                   THEN [op |-> IF rx = 17 THEN "read" ELSE "write",
                         block |-> CHOOSE b \in Addressed : TRUE]
                   ELSE NoJob)
  BY Zenon DEF CardAnswers
<1>5. UNCHANGED <<kind, rxArg, prog, mem, swaps, packet, pc>> /\ rx' = NoCommand
  BY DEF CardAnswers, packetVars
<1> DEFINE h == [what |-> "header", of |-> rx, stat |-> s, val |-> Garbage]
<1>6. h \in Item /\ h.what = "header" /\ h.of = packet
  BY <1>3 DEF Answers, Item
<1>7. line' = <<h>> /\ line' \in Seq(Item) /\ Len(line') = 1 /\ line'[1] = h
  BY <1>3, <1>4, <1>6
<1>8. /\ job' = NoJob \/ /\ IsTransfer(packet)
                         /\ job'.op = (IF packet = 17 THEN "read" ELSE "write")
      /\ job' \in [op : {"none", "read", "write"}, block : Blocks]
  <2>1. CASE IsTransfer(rx) /\ s.r1 = 0
    <3>1. (CHOOSE b \in Addressed : TRUE) \in Blocks
      BY <2>1, AgreedAddress, <1>4 DEF Addressed
    <3> QED
      BY <2>1, <3>1, <1>3, <1>4
  <2>2. CASE ~(IsTransfer(rx) /\ s.r1 = 0)
    BY <2>2, <1>3, <1>4, <1>1 DEF CardTypeOK
  <2> QED
    BY <2>1, <2>2
<1>9. CardTypeOK'
  <2>1. cstate' \in {"absent", "native", "idle", "ready"} /\ cstate' # "absent"
    BY <1>1, <1>3, <1>4 DEF CardTypeOK
  <2> QED
    BY <1>1, <1>5, <1>7, <1>8, <2>1 DEF CardTypeOK
<1>10. Link'
  <2>1. pc' = "header" /\ ~Busy' /\ cstate' # "absent" /\ packet' = packet
    BY <1>3, <1>4, <1>5 DEF Busy
  <2>2. InHeader'
    BY <2>1, <1>5, <1>6, <1>7, <1>8 DEF InHeader, OnLine, IsTransfer
  <2>3. JobKnown'
    BY <1>8 DEF JobKnown
  <2> QED
    BY <2>1, <2>2, <2>3 DEF Link, Quiet, InData, InPut
<1> QED
  BY <1>2, <1>9, <1>10, TypePartsPrimed DEF IInv

LEMMA CardSendsBlockStep == IInv /\ CardSendsBlock => IInv'
<1> SUFFICES ASSUME IInv, CardSendsBlock PROVE IInv'
  OBVIOUS
<1>1. CardTypeOK /\ CallTypeOK /\ PacketTypeOK /\ ControlTypeOK /\ Link /\ Registers
  BY TypeParts DEF IInv
<1>2. CallTypeOK' /\ PacketTypeOK' /\ ControlTypeOK' /\ Registers'
  BY <1>1, CardKeepsDriver DEF CardSendsBlock
<1>3. /\ job.op = "read" /\ job # NoJob /\ job' = NoJob
      /\ UNCHANGED <<kind, cstate, rx, rxArg, prog, mem, swaps, packet, pc>>
  BY DEF CardSendsBlock, NoJob, packetVars
<1>4. PICK v \in {mem[job.block]} \cup (IF TokenErrors THEN {Garbage} ELSE {}) :
        line' = Append(line, [what |-> "data", of |-> 17, stat |-> ZeroStat, val |-> v])
  BY Zenon DEF CardSendsBlock
<1>5. ~Busy /\ cstate # "absent" /\ pc \in {"header", "data"} /\ packet = 17
  <2>1. ~Silent
    BY <1>3 DEF Silent
  <2>2. ~Busy /\ cstate # "absent" /\ pc \in {"header", "data", "put"}
    BY <1>1, <2>1 DEF Link, Quiet, ControlTypeOK
  <2> QED
    BY <1>1, <1>3, <2>2 DEF Link, InHeader, InData, InPut
<1>6. /\ pc = "header" => rx = NoCommand /\ Len(line) = 1 /\ OnLine(1, "header")
      /\ pc = "data" => Len(line) = 0
  BY <1>1, <1>3, <1>5 DEF Link, InHeader, InData
<1> DEFINE d == [what |-> "data", of |-> 17, stat |-> ZeroStat, val |-> v]
<1>7. d \in Item /\ d.what = "data" /\ d.of = 17
  <2>1. mem[job.block] \in Data
    BY <1>1 DEF CardTypeOK
  <2>2. v \in Data \cup {Garbage}
    BY <1>4, <2>1
  <2> QED
    BY <2>2 DEF Item, Stats, ZeroStat, Commands
<1>8. /\ line' \in Seq(Item) /\ Len(line') = Len(line) + 1 /\ line'[Len(line) + 1] = d
      /\ \A k \in 1..Len(line) : line'[k] = line[k]
  BY <1>1, <1>4, <1>7 DEF CardTypeOK
<1>9. CardTypeOK'
  BY <1>1, <1>3, <1>8, NoJobTyped DEF CardTypeOK
<1>10. Link'
  <2>1. ~Busy' /\ cstate' # "absent" /\ pc' = pc /\ packet' = packet /\ rx' = rx
    BY <1>3, <1>5 DEF Busy
  <2>2. InHeader'
    <3>1. SUFFICES ASSUME pc = "header" PROVE InHeader'
      BY <2>1 DEF InHeader
    <3>2. Len(line) = 1
      BY <3>1, <1>6
    <3>3. Len(line) + 1 = 2 /\ 1 \in 1..Len(line)
      BY <3>2
    <3>4. Len(line) = 1 /\ Len(line') = 2 /\ line'[1] = line[1] /\ line'[2] = d
      BY <3>2, <3>3, <1>8, Zenon
    <3>5. rx = NoCommand /\ line[1].of = packet /\ line[1].what = "header"
      BY <3>1, <1>6 DEF OnLine
    <3> QED
      BY <3>4, <3>5, <2>1, <1>3, <1>5, <1>7 DEF InHeader, OnLine
  <2>3. InData'
    <3>1. SUFFICES ASSUME pc = "data" PROVE InData'
      BY <2>1 DEF InData
    <3> QED
      BY <3>1, <2>1, <1>1, <1>3, <1>5, <1>6, <1>7, <1>8 DEF InData, OnLine, Link
  <2> QED
    BY <1>3, <1>5, <2>1, <2>2, <2>3 DEF Link, Quiet, InPut, JobKnown
<1> QED
  BY <1>2, <1>9, <1>10, TypePartsPrimed DEF IInv

LEMMA WrittenTyped == ASSUME CardTypeOK PROVE Written \in [Blocks -> Data]
<1>1. CASE Busy
  <2>1. prog \in [block : Blocks, val : Data]
    BY <1>1 DEF CardTypeOK, Busy
  <2> QED
    BY <1>1, <2>1 DEF Written, CardTypeOK
<1>2. CASE ~Busy
  BY <1>2 DEF Written, CardTypeOK
<1> QED
  BY <1>1, <1>2

(* The other steps of the card leave nothing under way, or what there is.  *)
LEMMA CardRestStep ==
  IInv /\ (CardProgrammed \/ CardRemoved \/ CardInserted) => IInv'
<1> SUFFICES ASSUME IInv, CardProgrammed \/ CardRemoved \/ CardInserted PROVE IInv'
  OBVIOUS
<1>1. CardTypeOK /\ CallTypeOK /\ PacketTypeOK /\ ControlTypeOK /\ Link /\ Registers
  BY TypeParts DEF IInv
<1>2. UNCHANGED <<callVars, packetVars, sdVars, ledVars, pc, step, cs>>
  BY DEF CardProgrammed, CardRemoved, CardInserted
<1>3. CallTypeOK' /\ PacketTypeOK' /\ ControlTypeOK' /\ Registers'
  BY <1>1, <1>2, CardKeepsDriver
<1>4. Silent'
  <2>1. CASE CardProgrammed
    BY <1>1, <2>1 DEF CardProgrammed, Link, Quiet, Silent
  <2>2. CASE CardRemoved
    BY <1>1, <2>2 DEF CardRemoved, Link, Quiet, Silent
  <2>3. CASE CardInserted
    BY <1>1, <2>3 DEF CardInserted, Link, Quiet, Silent
  <2> QED
    BY <2>1, <2>2, <2>3
<1>5. Link'
  <2>1. pc' = pc /\ packet' = packet
    BY <1>2 DEF packetVars
  <2>2. pc = "data" => packet = 17
    BY <1>1 DEF Link, InData
  <2>3. pc = "put" => packet = 24
    BY <1>1 DEF Link, InPut
  <2> QED
    BY <1>4, <2>1, <2>2, <2>3 DEF Silent, Link, Quiet, InHeader, InData, InPut, JobKnown
<1>6. CardTypeOK'
  <2>1. CASE CardProgrammed
    BY <1>1, <2>1, WrittenTyped DEF CardProgrammed, CardTypeOK
  <2>2. CASE CardRemoved
    <3>1. mem' \in [Blocks -> Data]
      BY <1>1, <2>2, WrittenTyped DEF CardRemoved, CardTypeOK
    <3>2. swaps' \in 0..MaxSwaps
      BY <1>1, <2>2, GeometryAssumption DEF CardRemoved, CardTypeOK
    <3>3. job' \in [op : {"none", "read", "write"}, block : Blocks]
      BY <2>2, NoJobTyped DEF CardRemoved
    <3> QED
      BY <1>1, <2>2, <3>1, <3>2, <3>3 DEF CardRemoved, CardTypeOK
  <2>3. CASE CardInserted
    BY <1>1, <2>3, CardAssumption DEF CardInserted, CardTypeOK
  <2> QED
    BY <2>1, <2>2, <2>3
<1> QED
  BY <1>3, <1>5, <1>6, TypePartsPrimed DEF IInv
-----------------------------------------------------------------------------
(* The steps of sdc_sendpacket.                                            *)

LEMMA SilentLink ==
  ASSUME Silent', pc' = "data" => packet' = 17, pc' = "put" => packet' = 24
  PROVE  Link'
  BY DEF Silent, Link, Quiet, InHeader, InData, InPut, JobKnown

LEMMA DeselectFacts ==
  ASSUME Deselect, CardTypeOK PROVE CardTypeOK' /\ Silent' /\ cs' = FALSE
  BY NoJobTyped DEF Deselect, cardRest, CardTypeOK, Silent

LEMMA SendCommandStep == IInv /\ SendCommand => IInv'
<1> SUFFICES ASSUME IInv, SendCommand PROVE IInv'
  OBVIOUS
<1>1. CardTypeOK /\ CallTypeOK /\ PacketTypeOK /\ ControlTypeOK /\ Link /\ Registers
  BY TypeParts DEF IInv
<1>2. /\ pc = "send" /\ pc' = "header" /\ packet' = CommandOf /\ cs' = TRUE /\ green' = TRUE
      /\ timeout' = FALSE /\ stat' = [stat EXCEPT !.r1 = 0] /\ polls' = 0
      /\ UNCHANGED <<kind, cstate, line, prog, mem, swaps, call, i, got, ret, mounted,
                     tries, ccs, ver2, mmc, red, step>>
      /\ \/ /\ Hears(CommandOf)
            /\ rx' = CommandOf /\ rxArg' = Argument /\ job' = NoJob
         \/ UNCHANGED <<rx, rxArg, job>>
  BY DEF SendCommand, callVars, sdVars
<1>3. CommandOf' = CommandOf
  BY <1>2 DEF CommandOf
<1>4. CommandOf \in Commands /\ Argument \in 0..(WordSize - 1)
  BY <1>1, CommandOfFacts, ArgumentTyped
<1>5. Silent
  BY <1>1, <1>2 DEF Link, Quiet
<1>6. stat' \in Stats
  BY <1>1, <1>2 DEF PacketTypeOK, Stats
<1>7. PacketTypeOK'
  <2>1. polls' \in 0..(PollMax + 1)
    <3>1. 0 \in 0..(PollMax + 1)
      BY GeometryAssumption
    <3> QED
      BY <1>2, <3>1, Zenon
  <2>2. timeout' \in BOOLEAN /\ packet' \in Commands
    BY <1>2, <1>4, Zenon
  <2> QED
    BY <2>1, <2>2, <1>6 DEF PacketTypeOK
<1>8. CallTypeOK' /\ ControlTypeOK'
  BY <1>1, <1>2 DEF CallTypeOK, ControlTypeOK
<1>9. CardTypeOK'
  BY <1>1, <1>2, <1>4, NoJobTyped DEF CardTypeOK
<1>10. Registers'
  BY <1>1, <1>2, <1>3 DEF Registers
<1>11. Link'
  <2>1. CASE Hears(CommandOf) /\ rx' = CommandOf /\ job' = NoJob
    <3>1. ~Busy' /\ cstate' # "absent"
      BY <2>1, <1>2 DEF Hears, Busy
    <3>2. line' = <<>>
      BY <1>2, <1>5 DEF Silent
    <3> QED
      BY <3>1, <3>2, <2>1, <1>2 DEF Link, Quiet, InHeader, InData, InPut, JobKnown
  <2>2. CASE UNCHANGED <<rx, rxArg, job>>
    <3>1. Silent'
      BY <2>2, <1>2, <1>5 DEF Silent
    <3> QED
      BY <3>1, <1>2, SilentLink
  <2> QED
    BY <2>1, <2>2, <1>2
<1> QED
  BY <1>7, <1>8, <1>9, <1>10, <1>11, TypePartsPrimed DEF IInv

LEMMA PollAgainStep ==
  ASSUME IInv, NEW limit \in {PollMax, PollMax + 1}, PollAgain(limit) PROVE IInv'
<1>1. CardTypeOK /\ CallTypeOK /\ PacketTypeOK /\ ControlTypeOK /\ Link /\ Registers
  BY TypeParts DEF IInv
<1>2. UNCHANGED <<cardVars, callVars, packet, timeout, stat, sdVars, ledVars, pc, step, cs>>
  BY DEF PollAgain
<1>3. polls' \in 0..(PollMax + 1)
  BY <1>1, GeometryAssumption DEF PollAgain, PacketTypeOK
<1>4. CardTypeOK' /\ CallTypeOK' /\ PacketTypeOK' /\ ControlTypeOK'
  BY <1>1, <1>2, <1>3 DEF CardTypeOK, CallTypeOK, PacketTypeOK, ControlTypeOK,
     cardVars, callVars, sdVars, ledVars
<1>5. CommandOf' = CommandOf
  BY <1>2 DEF CommandOf, callVars, sdVars
<1>6. Registers'
  BY <1>1, <1>2, <1>5 DEF Registers, callVars, sdVars
<1>7. Link'
  BY <1>1, <1>2 DEF Link, Quiet, Silent, Busy, InHeader, InData, InPut, OnLine, JobKnown, cardVars
<1> QED
  BY <1>4, <1>6, <1>7, TypePartsPrimed DEF IInv

LEMMA PacketFailsStep == ASSUME IInv, PacketFails, pc # "idle" PROVE IInv'
<1>1. CardTypeOK /\ CallTypeOK /\ PacketTypeOK /\ ControlTypeOK /\ Link /\ Registers
  BY TypeParts DEF IInv
<1>2. /\ timeout' = TRUE /\ red' = TRUE /\ pc' = "return"
      /\ UNCHANGED <<callVars, packet, polls, stat, sdVars, green, step>>
  BY DEF PacketFails
<1>3. CardTypeOK' /\ Silent' /\ cs' = FALSE
  BY <1>1, DeselectFacts DEF PacketFails
<1>4. CallTypeOK' /\ PacketTypeOK' /\ ControlTypeOK'
  BY <1>1, <1>2, <1>3 DEF CallTypeOK, PacketTypeOK, ControlTypeOK, callVars, sdVars
<1>5. Registers'
  BY <1>1, <1>2, <1>3 DEF Registers, callVars, sdVars
<1>6. Link'
  BY <1>2, <1>3, SilentLink
<1> QED
  BY <1>3, <1>4, <1>5, <1>6, TypePartsPrimed DEF IInv

LEMMA AwaitStep == IInv /\ (AwaitHeader \/ AwaitData \/ AwaitProgrammed) => IInv'
  BY PollAgainStep, PacketFailsStep, Zenon DEF AwaitHeader, AwaitData, AwaitProgrammed

(* What is left on the line once the header is read, and where the driver  *)
(* goes with it.                                                           *)
LEMMA HeaderReceivedStep ==
  ASSUME IInv, pc = "header", NEW s \in Stats, HeaderReceived(s), CardTypeOK', rx' = NoCommand,
         Busy' \/ cstate' = "absent" => Silent',
         packet \notin {17, 24} => Silent',
         packet = 17 => /\ Len(line') \in {0, 1}
                        /\ Len(line') = 1 => line'[1].of = 17 /\ line'[1].what = "data"
                        /\ job' # NoJob => Len(line') = 0 /\ job'.op = "read",
         packet = 24 => line' = <<>> /\ (job' # NoJob => job'.op = "write")
  PROVE  IInv'
<1>1. CardTypeOK /\ CallTypeOK /\ PacketTypeOK /\ ControlTypeOK /\ Link /\ Registers
  BY TypeParts DEF IInv
<1>2. /\ UNCHANGED <<callVars, packet, timeout, sdVars, red, step, cs>> /\ polls' = 0
      /\ stat' = s \/ stat' = [stat EXCEPT !.r1 = s.r1]
  BY Zenon DEF HeaderReceived
<1>3. /\ packet = 17 => pc' = "data"
      /\ packet = 24 => pc' = "put"
      /\ packet \notin {17, 24} => pc' = "return"
      /\ green' \in {green, FALSE}
  <2>1. IF IsTransfer(packet)
        THEN pc' = (IF packet = 17 THEN "data" ELSE "put") /\ UNCHANGED green
        ELSE pc' = "return" /\ green' = FALSE
    BY Zenon DEF HeaderReceived
  <2>2. /\ packet = 17 => IsTransfer(packet)
        /\ packet = 24 => IsTransfer(packet) /\ packet # 17
        /\ packet \notin {17, 24} => ~IsTransfer(packet)
    BY DEF IsTransfer
  <2> QED
    BY <2>1, <2>2, Zenon
<1>4. stat' \in Stats
  BY <1>1, <1>2 DEF PacketTypeOK, Stats
<1>5. PacketTypeOK' /\ CallTypeOK'
  BY <1>1, <1>2, <1>4, GeometryAssumption DEF PacketTypeOK, CallTypeOK, callVars
<1>6. ControlTypeOK'
  BY <1>1, <1>2, <1>3 DEF ControlTypeOK, sdVars
<1>7. CommandOf' = CommandOf /\ packet = CommandOf
  BY <1>1, <1>2 DEF CommandOf, callVars, sdVars, Registers
<1>8. packet \notin {17, 24} => step # "block"
  BY <1>1, <1>7, CommandOfFacts
<1>9. Registers'
  BY <1>1, <1>2, <1>3, <1>7, <1>8 DEF Registers, callVars, sdVars
<1>10. Link'
  <2>1. CASE packet \notin {17, 24}
    BY <2>1, <1>3, SilentLink
  <2>2. CASE packet = 17
    <3>1. pc' = "data" /\ packet' = 17
      BY <2>2, <1>2, <1>3
    <3>2. JobKnown'
      BY <2>2 DEF JobKnown
    <3>3. InData'
      BY <3>1, <2>2 DEF InData, OnLine
    <3> QED
      BY <3>1, <3>2, <3>3 DEF Link, Quiet, InHeader, InPut
  <2>3. CASE packet = 24
    <3>1. pc' = "put" /\ packet' = 24
      BY <2>3, <1>2, <1>3
    <3> QED
      BY <3>1, <2>3 DEF Link, Quiet, InHeader, InData, InPut, JobKnown
  <2> QED
    BY <2>1, <2>2, <2>3
<1> QED
  BY <1>5, <1>6, <1>9, <1>10, TypePartsPrimed DEF IInv

LEMMA ReceiveHeaderStep == IInv /\ ReceiveHeader => IInv'
<1> SUFFICES ASSUME IInv, ReceiveHeader PROVE IInv'
  OBVIOUS
<1>1. CardTypeOK /\ CallTypeOK /\ PacketTypeOK /\ ControlTypeOK /\ Link /\ Registers
  BY TypeParts DEF IInv
<1>2. /\ pc = "header" /\ line # <<>> /\ line' = Tail(line)
      /\ HeaderReceived(Head(line).stat)
      /\ UNCHANGED <<kind, cstate, rx, rxArg, job, prog, mem, swaps>>
  BY DEF ReceiveHeader
<1>3. /\ Len(line) \in {1, 2} /\ Head(line) \in Item
      /\ Tail(line) \in Seq(Item) /\ Len(Tail(line)) = Len(line) - 1
      /\ Len(line) = 2 => Tail(line)[1] = line[2]
  <2>1. Len(line) \in {0, 1, 2} /\ Len(line) # 0
    BY <1>1, <1>2 DEF Link, InHeader, CardTypeOK
  <2> QED
    BY <2>1, <1>1, <1>2 DEF CardTypeOK
<1>4. Head(line).stat \in Stats
  BY <1>3 DEF Item
<1>5. CardTypeOK'
  BY <1>1, <1>2, <1>3 DEF CardTypeOK
<1>6. rx' = NoCommand /\ ~Busy' /\ cstate' # "absent"
  <2>1. rx = NoCommand
    BY <1>1, <1>2, <1>3 DEF Link, InHeader
  <2>2. ~Busy /\ cstate # "absent"
    BY <1>1, <1>2 DEF Link, Quiet, Silent
  <2> QED
    BY <2>1, <2>2, <1>2 DEF Busy
<1>7. Len(line) = 1 => line' = <<>>
  BY <1>2, <1>3
<1>8. packet \notin {17, 24} => Silent'
  <2>1. packet \notin {17, 24} => Len(line) # 2 /\ job = NoJob
    BY <1>1, <1>2, <1>3 DEF Link, InHeader
  <2> QED
    BY <2>1, <1>2, <1>3, <1>6, <1>7 DEF Silent
<1>9. packet = 17 => /\ Len(line') \in {0, 1}
                     /\ Len(line') = 1 => line'[1].of = 17 /\ line'[1].what = "data"
                     /\ job' # NoJob => Len(line') = 0 /\ job'.op = "read"
  <2>1. SUFFICES ASSUME packet = 17
                 PROVE  /\ Len(line') \in {0, 1}
                        /\ Len(line') = 1 => line'[1].of = 17 /\ line'[1].what = "data"
                        /\ job' # NoJob => Len(line') = 0 /\ job'.op = "read"
    OBVIOUS
  <2>2. CASE Len(line) = 1
    BY <2>1, <2>2, <1>1, <1>2, <1>3 DEF Link, InHeader
  <2>3. CASE Len(line) = 2
    <3>1. OnLine(2, "data") /\ job = NoJob
      BY <2>3, <1>1, <1>2 DEF Link, InHeader
    <3>2. Len(line') = 1 /\ line'[1] = line[2]
      BY <2>3, <1>2, <1>3
    <3> QED
      BY <3>1, <3>2, <2>1, <1>2 DEF OnLine
  <2> QED
    BY <2>2, <2>3, <1>3
<1>10. packet = 24 => line' = <<>> /\ (job' # NoJob => job'.op = "write")
  <2>1. packet = 24 => Len(line) # 2 /\ (job # NoJob => job.op # "read")
    BY <1>1, <1>2 DEF Link, InHeader
  <2>2. job # NoJob => job.op # "none"
    BY <1>1 DEF Link, JobKnown
  <2>3. job.op \in {"none", "read", "write"}
    BY <1>1 DEF CardTypeOK
  <2> QED
    BY <2>1, <2>2, <2>3, <1>2, <1>3, <1>7
<1> QED
  BY <1>2, <1>4, <1>5, <1>6, <1>8, <1>9, <1>10, HeaderReceivedStep

LEMMA BusyTakenForHeaderStep == IInv /\ BusyTakenForHeader => IInv'
<1> SUFFICES ASSUME IInv, BusyTakenForHeader PROVE IInv'
  OBVIOUS
<1>1. CardTypeOK /\ CallTypeOK /\ PacketTypeOK /\ ControlTypeOK /\ Link /\ Registers
  BY TypeParts DEF IInv
<1>2. /\ pc = "header" /\ Busy
      /\ UNCHANGED <<kind, cstate, rx, rxArg, line, job, swaps>>
      /\ \/ UNCHANGED <<prog, mem>>
         \/ prog' = Idling /\ mem' = Written
  BY DEF BusyTakenForHeader
<1>3. PICK s \in Stats : HeaderReceived(s)
  <2>1. ZeroStat \in Stats
    BY DEF ZeroStat, Stats
  <2> QED
    BY <2>1, Zenon DEF BusyTakenForHeader
<1>4. Silent'
  BY <1>1, <1>2 DEF Link, Quiet, Silent
<1>5. CardTypeOK'
  BY <1>1, <1>2, WrittenTyped DEF CardTypeOK
<1>6. rx' = NoCommand /\ line' = <<>> /\ Len(line') = 0 /\ job' = NoJob
  BY <1>4 DEF Silent
<1> QED
  BY <1>2, <1>3, <1>4, <1>5, <1>6, HeaderReceivedStep

LEMMA ReceiveBlockStep == IInv /\ ReceiveBlock => IInv'
<1> SUFFICES ASSUME IInv, ReceiveBlock PROVE IInv'
  OBVIOUS
<1>1. CardTypeOK /\ CallTypeOK /\ PacketTypeOK /\ ControlTypeOK /\ Link /\ Registers
  BY TypeParts DEF IInv
<1>2. /\ pc = "data" /\ ~LineHigh /\ pc' = "return" /\ green' = FALSE
      /\ got' = Append(got, IF Busy THEN Garbage ELSE Head(line).val)
      /\ UNCHANGED <<call, i, ret, mounted, packetVars, sdVars, red, step>>
  BY DEF ReceiveBlock
<1>3. CardTypeOK' /\ Silent' /\ cs' = FALSE
  BY <1>1, DeselectFacts DEF ReceiveBlock
<1>4. got' \in Seq(Data \cup {Garbage})
  <2>1. CASE Busy
    BY <2>1, <1>1, <1>2 DEF CallTypeOK
  <2>2. CASE ~Busy
    <3>1. line # <<>> /\ line \in Seq(Item)
      BY <2>2, <1>1, <1>2 DEF LineHigh, CardTypeOK
    <3>2. Head(line) \in Item
      BY <3>1
    <3>3. Head(line).val \in Data \cup {Garbage}
      BY <3>2 DEF Item
    <3> QED
      BY <3>3, <2>2, <1>1, <1>2 DEF CallTypeOK
  <2> QED
    BY <2>1, <2>2
<1>5. CallTypeOK'
  BY <1>1, <1>2, <1>4 DEF CallTypeOK
<1>6. PacketTypeOK' /\ ControlTypeOK'
  BY <1>1, <1>2, <1>3 DEF PacketTypeOK, ControlTypeOK, packetVars, sdVars
<1>7. Registers'
  BY <1>1, <1>2, <1>3 DEF Registers, sdVars
<1>8. Link'
  BY <1>2, <1>3, SilentLink
<1> QED
  BY <1>3, <1>5, <1>6, <1>7, <1>8, TypePartsPrimed DEF IInv

(* What a write sends is the data of its call.                             *)
LEMMA CallFacts ==
  ASSUME call \in Calls
  PROVE  /\ call.op \in {"init", "read", "write"} /\ call.n \in Nat /\ call.lba \in Nat
         /\ call.op = "write" => call.data \in [1..call.n -> Data]
         /\ call.op # "init" => call.n > 0 /\ <<call.lba, call.n>> \in Ranges
<1>1. CASE call = [op |-> "init", lba |-> 0, n |-> 0, data |-> <<>>]
  BY <1>1
<1>2. CASE \E r \in Ranges : call = [op |-> "read", lba |-> r[1], n |-> r[2], data |-> <<>>]
  BY <1>2, GeometryAssumption
<1>3. CASE \E r \in Ranges : \E d \in [1..r[2] -> Data] :
             call = [op |-> "write", lba |-> r[1], n |-> r[2], data |-> d]
  BY <1>3, GeometryAssumption
<1> QED
  BY <1>1, <1>2, <1>3 DEF Calls

LEMMA PutBlockStep == IInv /\ PutBlock => IInv'
<1> SUFFICES ASSUME IInv, PutBlock PROVE IInv'
  OBVIOUS
<1>1. CardTypeOK /\ CallTypeOK /\ PacketTypeOK /\ ControlTypeOK /\ Link /\ Registers
  BY TypeParts DEF IInv
<1>2. CASE PacketFails
  BY <1>2, PacketFailsStep DEF PutBlock
<1>3. CASE ~PacketFails
  <2>1. /\ pc = "put" /\ pc' = "busy" /\ polls' = 0
        /\ prog' = [block |-> job.block, val |-> call.data[i + 1]] /\ job' = NoJob
        /\ UNCHANGED <<kind, cstate, rx, rxArg, line, mem, swaps, callVars, packet, timeout,
                       stat, sdVars, ledVars, step, cs>>
    BY <1>3 DEF PutBlock
  <2>2. step = "block" /\ call.op = "write" /\ i < call.n
    BY <1>1, <2>1, CommandOfFacts, CallFacts DEF Registers, Link, InPut, CallTypeOK
  <2>3. call.data[i + 1] \in Data
    BY <2>2, <1>1, CallFacts DEF CallTypeOK
  <2>4. CardTypeOK'
    BY <1>1, <2>1, <2>3, NoJobTyped DEF CardTypeOK
  <2>5. CallTypeOK' /\ PacketTypeOK' /\ ControlTypeOK'
    BY <1>1, <2>1, GeometryAssumption DEF CallTypeOK, PacketTypeOK, ControlTypeOK,
       callVars, sdVars, ledVars
  <2>6. Registers'
    BY <1>1, <2>1 DEF Registers, callVars, sdVars, ledVars
  <2>7. Silent'
    BY <1>1, <2>1 DEF Silent, Link, InPut
  <2>8. Link'
    BY <2>1, <2>7, SilentLink
  <2> QED
    BY <2>4, <2>5, <2>6, <2>8, TypePartsPrimed DEF IInv
<1> QED
  BY <1>2, <1>3

LEMMA ProgrammedStep == IInv /\ Programmed => IInv'
<1> SUFFICES ASSUME IInv, Programmed PROVE IInv'
  OBVIOUS
<1>1. CardTypeOK /\ CallTypeOK /\ PacketTypeOK /\ ControlTypeOK /\ Link /\ Registers
  BY TypeParts DEF IInv
<1>2. /\ pc \in {"busy", "verify"} /\ polls' = 0
      /\ UNCHANGED <<callVars, packet, timeout, stat, sdVars, red, step>>
  BY DEF Programmed
<1>3. CASE pc = "busy"
  <2>1. pc' = "verify" /\ UNCHANGED <<cardVars, cs, green>>
    BY <1>3, Zenon DEF Programmed
  <2>2. Silent'
    BY <1>1, <1>3, <2>1 DEF Silent, Link, Quiet, cardVars
  <2>3. Link'
    BY <2>1, <2>2, SilentLink
  <2>4. CardTypeOK' /\ CallTypeOK' /\ PacketTypeOK' /\ ControlTypeOK'
    BY <1>1, <1>2, <2>1, GeometryAssumption
    DEF CardTypeOK, CallTypeOK, PacketTypeOK, ControlTypeOK, cardVars, callVars, sdVars
  <2>5. Registers'
    BY <1>1, <1>2, <1>3, <2>1 DEF Registers, callVars, sdVars
  <2> QED
    BY <2>3, <2>4, <2>5, TypePartsPrimed DEF IInv
<1>4. CASE pc = "verify"
  <2>1. pc' = "return" /\ green' = FALSE /\ Deselect
    BY <1>4 DEF Programmed
  <2>2. CardTypeOK' /\ Silent' /\ cs' = FALSE
    BY <1>1, <2>1, DeselectFacts
  <2>3. Link'
    BY <2>1, <2>2, SilentLink
  <2>4. CallTypeOK' /\ PacketTypeOK'
    BY <1>1, <1>2, GeometryAssumption DEF CallTypeOK, PacketTypeOK, callVars
  <2>6. ControlTypeOK'
    BY <1>1, <1>2, <2>1, <2>2 DEF ControlTypeOK, sdVars
  <2>5. Registers'
    BY <1>1, <1>2, <1>4, <2>1, <2>2 DEF Registers, callVars, sdVars
  <2> QED
    BY <2>2, <2>3, <2>4, <2>5, <2>6, TypePartsPrimed DEF IInv
<1> QED
  BY <1>2, <1>3, <1>4
-----------------------------------------------------------------------------
(* The calls.                                                              *)

LEMMA InvokeStep == IInv /\ Invoke => IInv'
<1> SUFFICES ASSUME IInv, Invoke PROVE IInv'
  OBVIOUS
<1>1. CardTypeOK /\ CallTypeOK /\ PacketTypeOK /\ ControlTypeOK /\ Link /\ Registers
  BY TypeParts DEF IInv
<1>2. /\ pc = "idle" /\ call' \in Calls /\ i' = 0 /\ got' = <<>> /\ ret' = "NONE"
      /\ UNCHANGED <<cardVars, packetVars, sdVars, ledVars, cs>>
      /\ mounted' = (mounted /\ call'.op # "init")
      /\ call'.op = "init" => pc' = "detect" /\ step' = "cmd0"
      /\ call'.op # "init" => pc' = "send" /\ step' = "block"
  BY DEF Invoke
<1>3. CallTypeOK'
  <2>1. mounted' \in BOOLEAN
    BY <1>2, Zenon
  <2>2. got' \in Seq(Data \cup {Garbage})
    BY <1>2
  <2> QED
    BY <1>2, <2>1, <2>2 DEF CallTypeOK
<1>4. CardTypeOK' /\ PacketTypeOK' /\ ControlTypeOK'
  BY <1>1, <1>2 DEF CardTypeOK, PacketTypeOK, ControlTypeOK, cardVars, packetVars, sdVars, ledVars
<1>5. Silent'
  BY <1>1, <1>2 DEF Silent, Link, Quiet, cardVars
<1>6. Link'
  BY <1>2, <1>5, SilentLink
<1>7. call'.op \in {"init", "read", "write"} /\ (call'.op # "init" => call'.n > 0)
  <2>1. \A c \in Calls : c.op \in {"init", "read", "write"} /\ (c.op # "init" => c.n > 0)
    BY GeometryAssumption DEF Calls
  <2> QED
    BY <1>2, <2>1
<1>8. Registers'
  BY <1>1, <1>2, <1>7 DEF Registers, sdVars
<1> QED
  BY <1>3, <1>4, <1>6, <1>8, TypePartsPrimed DEF IInv

LEMMA DetectStep == IInv /\ Detect => IInv'
<1> SUFFICES ASSUME IInv, Detect PROVE IInv'
  OBVIOUS
<1>1. CardTypeOK /\ CallTypeOK /\ PacketTypeOK /\ ControlTypeOK /\ Link /\ Registers
  BY TypeParts DEF IInv
<1>2. /\ pc = "detect" /\ ccs' = 0 /\ ver2' = 0 /\ mmc' = 0 /\ tries' = 0
      /\ stat' = ZeroStat /\ timeout' = FALSE
      /\ UNCHANGED <<cardVars, i, mounted, packet, polls, call, got, step>>
  BY DEF Detect, Return
<1>3. \/ ret' = "NOCARD" /\ pc' = "idle" /\ UNCHANGED <<cs, green, red>>
      \/ ret' = ret /\ pc' = "send" /\ cs' = TRUE /\ green' = TRUE /\ red' = TRUE
  BY Zenon DEF Detect, Return
<1>4. CardTypeOK' /\ CallTypeOK'
  BY <1>1, <1>2, <1>3 DEF CardTypeOK, CallTypeOK, cardVars
<1>5. PacketTypeOK'
  <2>1. ZeroStat \in Stats
    BY DEF ZeroStat, Stats
  <2> QED
    BY <1>1, <1>2, <2>1, Zenon DEF PacketTypeOK
<1>6. ControlTypeOK'
  <2>1. 0 \in 0..OpCondTries /\ 0 \in {0, 1}
    BY GeometryAssumption
  <2> QED
    BY <1>1, <1>2, <1>3, <2>1, Zenon DEF ControlTypeOK
<1>7. Silent'
  BY <1>1, <1>2 DEF Silent, Link, Quiet, cardVars
<1>8. Link'
  BY <1>3, <1>7, SilentLink
<1>9. Registers'
  BY <1>1, <1>2, <1>3, GeometryAssumption DEF Registers
<1> QED
  BY <1>4, <1>5, <1>6, <1>8, <1>9, TypePartsPrimed DEF IInv

(* A packet of sdc_init came back: the next one, or the end.               *)
LEMMA InitPacketStep ==
  ASSUME IInv, pc = "return", step # "block", UNCHANGED packetVars,
         tries' \in 0..OpCondTries, ccs' \in {0, 1}, ver2' \in {0, 1}, mmc' \in {0, 1},
         step' \in {"cmd0", "cmd8", "cmd55", "opcond", "ocr", "cid", "app", "csd", "len"},
         step' \in {"cmd55", "opcond"} => tries' < OpCondTries,
         NextPacket(step') \/ InitFails \/ InitSucceeds
  PROVE  IInv'
<1>1. CardTypeOK /\ CallTypeOK /\ PacketTypeOK /\ ControlTypeOK /\ Link /\ Registers
  BY TypeParts DEF IInv
<1>2. PacketTypeOK'
  BY <1>1 DEF PacketTypeOK, packetVars
<1>3. /\ CardTypeOK' /\ Silent' /\ CallTypeOK'
      /\ cs' \in BOOLEAN /\ green' \in BOOLEAN /\ red' \in BOOLEAN
      /\ pc' = "send" \/ (pc' = "idle" /\ ~cs')
  <2>1. CASE NextPacket(step')
    <3>1. pc' = "send" /\ UNCHANGED <<cardVars, callVars, cs, green, red>>
      BY <2>1 DEF NextPacket, ledVars
    <3>2. Silent'
      BY <1>1, <3>1 DEF Silent, Link, Quiet, cardVars
    <3>3. CardTypeOK' /\ CallTypeOK'
      BY <1>1, <3>1 DEF CardTypeOK, CallTypeOK, cardVars, callVars
    <3> QED
      BY <1>1, <3>1, <3>2, <3>3, Zenon DEF ControlTypeOK
  <2>2. CASE InitFails
    <3>1. Deselect /\ pc' = "idle" /\ green' = FALSE /\ red' = TRUE
      BY <2>2 DEF InitFails, Return
    <3>2. CallTypeOK'
      BY <1>1, <2>2 DEF CallTypeOK, InitFails, Return
    <3> QED
      BY <1>1, <3>1, <3>2, DeselectFacts, Zenon
  <2>3. CASE InitSucceeds
    <3>1. Deselect /\ pc' = "idle" /\ green' = FALSE /\ red' = FALSE
      BY <2>3 DEF InitSucceeds, Return
    <3>2. CallTypeOK'
      BY <1>1, <2>3 DEF CallTypeOK, InitSucceeds, Return
    <3> QED
      BY <1>1, <3>1, <3>2, DeselectFacts, Zenon
  <2> QED
    BY <2>1, <2>2, <2>3
<1>4. ControlTypeOK'
  BY <1>3, Zenon DEF ControlTypeOK
<1>5. Link'
  BY <1>3, SilentLink
<1>6. Registers'
  BY <1>3 DEF Registers
<1> QED
  BY <1>2, <1>3, <1>4, <1>5, <1>6, TypePartsPrimed DEF IInv

LEMMA InitStep ==
  IInv /\ (ResetDone \/ InterfaceDone \/ AppDone \/ OpCondDone \/ OcrDone \/ CidDone
            \/ CsdDone \/ LenDone) => IInv'
<1> SUFFICES ASSUME IInv PROVE
     (ResetDone \/ InterfaceDone \/ AppDone \/ OpCondDone \/ OcrDone \/ CidDone
            \/ CsdDone \/ LenDone) => IInv'
  OBVIOUS
<1>1. /\ tries \in 0..OpCondTries /\ ccs \in {0, 1} /\ ver2 \in {0, 1} /\ mmc \in {0, 1}
      /\ stat \in Stats
      /\ step \in {"cmd55", "opcond"} => tries < OpCondTries
  BY DEF IInv, TypeOK, Registers
<1> DEFINE Going(s) == NextPacket(s) /\ step' = s
           Ending == (InitFails \/ InitSucceeds) /\ step' = step
<1>2. \A s : NextPacket(s) => Going(s)
  BY Zenon DEF NextPacket
<1>3. InitFails \/ InitSucceeds => Ending
  BY Zenon DEF InitFails, InitSucceeds, Return
<1> HIDE DEF Going, Ending
<1>4. CASE ResetDone
  <2>1. /\ pc = "return" /\ step = "cmd0" /\ UNCHANGED packetVars
        /\ UNCHANGED <<tries, ccs, ver2, mmc>>
        /\ Ending \/ Going("cmd8")
    BY <1>2, <1>3, <1>4, Zenon DEF ResetDone, Returned, sdVars
  <2> QED
    BY <1>1, <2>1, InitPacketStep DEF Going, Ending
<1>5. CASE InterfaceDone
  <2>1. /\ pc = "return" /\ step = "cmd8" /\ UNCHANGED packetVars
        /\ mmc' = 0 /\ tries' = 0 /\ ccs' = ccs
    BY <1>5 DEF InterfaceDone, Returned
  <2>2. \/ Ending /\ ver2' = ver2
        \/ Going("cmd55") /\ ver2' \in {0, 1}
    BY <1>2, <1>3, <1>5, Zenon DEF InterfaceDone
  <2> QED
    BY <1>1, <2>1, <2>2, InitPacketStep, GeometryAssumption DEF Going, Ending
<1>6. CASE AppDone
  <2>1. /\ pc = "return" /\ UNCHANGED packetVars /\ UNCHANGED <<tries, ccs, ver2, mmc>>
        /\ \/ step = "cmd55" /\ Going("opcond")
           \/ step = "app" /\ Going("csd")
    BY <1>2, <1>6, Zenon DEF AppDone, Returned, sdVars
  <2> QED
    BY <1>1, <2>1, InitPacketStep DEF Going
<1>7. CASE OpCondDone
  <2>1. /\ pc = "return" /\ step = "opcond" /\ UNCHANGED packetVars
        /\ ccs' = ccs /\ ver2' = ver2 /\ tries < OpCondTries
    BY <1>1, <1>7 DEF OpCondDone, Returned
  <2>2. \/ Going("ocr") /\ tries' = tries /\ mmc' = mmc
        \/ Ending /\ tries' = tries /\ mmc' = mmc
        \/ /\ tries' = tries + 1 /\ mmc' \in {1, mmc}
           /\ \/ tries + 1 = OpCondTries /\ Going("ocr")
              \/ tries + 1 # OpCondTries /\ (Going("opcond") \/ Going("cmd55"))
    BY <1>2, <1>3, <1>7, Zenon DEF OpCondDone
  <2>3. tries + 1 \in 0..OpCondTries /\ (tries + 1 # OpCondTries => tries + 1 < OpCondTries)
    BY <1>1, <2>1, GeometryAssumption
  <2> QED
    BY <1>1, <2>1, <2>2, <2>3, InitPacketStep DEF Going, Ending
<1>8. CASE OcrDone
  <2>1. /\ pc = "return" /\ step = "ocr" /\ UNCHANGED packetVars
        /\ ccs' = stat.b6 /\ UNCHANGED <<tries, ver2, mmc>>
        /\ Going("cid")
    BY <1>2, <1>8, Zenon DEF OcrDone, Returned
  <2>2. stat.b6 \in {0, 1}
    BY <1>1 DEF Stats
  <2> QED
    BY <1>1, <2>1, <2>2, InitPacketStep DEF Going
<1>9. CASE CidDone
  <2>1. /\ pc = "return" /\ step = "cid" /\ UNCHANGED packetVars
        /\ UNCHANGED <<tries, ccs, ver2, mmc>> /\ Going("app")
    BY <1>2, <1>9, Zenon DEF CidDone, Returned, sdVars
  <2> QED
    BY <1>1, <2>1, InitPacketStep DEF Going
<1>10. CASE CsdDone
  <2>1. /\ pc = "return" /\ step = "csd" /\ UNCHANGED packetVars
        /\ UNCHANGED <<tries, ccs, ver2, mmc>> /\ (Ending \/ Going("len"))
    BY <1>2, <1>3, <1>10, Zenon DEF CsdDone, Returned, sdVars
  <2> QED
    BY <1>1, <2>1, InitPacketStep DEF Going, Ending
<1>11. CASE LenDone
  <2>1. /\ pc = "return" /\ step = "len" /\ UNCHANGED packetVars
        /\ UNCHANGED <<tries, ccs, ver2, mmc>> /\ Ending
    BY <1>3, <1>11, Zenon DEF LenDone, Returned, sdVars
  <2> QED
    BY <1>1, <2>1, InitPacketStep DEF Ending
<1> QED
  BY <1>4, <1>5, <1>6, <1>7, <1>8, <1>9, <1>10, <1>11

LEMMA BlockDoneStep == IInv /\ BlockDone => IInv'
<1> SUFFICES ASSUME IInv, BlockDone PROVE IInv'
  OBVIOUS
<1>1. CardTypeOK /\ CallTypeOK /\ PacketTypeOK /\ ControlTypeOK /\ Link /\ Registers
  BY TypeParts DEF IInv
<1>2. /\ pc = "return" /\ step = "block"
      /\ UNCHANGED <<packetVars, sdVars, mounted, cardVars, cs, ledVars, call, got, step>>
  BY DEF BlockDone, Returned, Return
<1>3. \/ ret' = "TIMEOUT" /\ pc' = "idle" /\ i' = i
      \/ i' = i + 1 /\ i + 1 = call.n /\ ret' = "OK" /\ pc' = "idle"
      \/ i' = i + 1 /\ i + 1 # call.n /\ ret' = ret /\ pc' = "send"
  BY Zenon DEF BlockDone, Return
<1>4. CardTypeOK' /\ PacketTypeOK'
  BY <1>1, <1>2 DEF CardTypeOK, PacketTypeOK, cardVars, packetVars
<1>5. CallTypeOK' /\ ControlTypeOK'
  BY <1>1, <1>2, <1>3 DEF CallTypeOK, ControlTypeOK, sdVars, ledVars
<1>6. Silent'
  BY <1>1, <1>2 DEF Silent, Link, Quiet, cardVars
<1>7. Link'
  BY <1>3, <1>6, SilentLink
<1>8. Registers'
  BY <1>1, <1>2, <1>3, CallFacts DEF Registers, CallTypeOK, sdVars
<1> QED
  BY <1>4, <1>5, <1>7, <1>8, TypePartsPrimed DEF IInv
-----------------------------------------------------------------------------
LEMMA InitIInv == Init => IInv
<1> SUFFICES ASSUME Init PROVE IInv
  OBVIOUS
<1>1. CardTypeOK
  BY NoJobTyped, GeometryAssumption, CardAssumption DEF Init, CardTypeOK, NoCommand
<1>2. call \in Calls
  BY Zenon DEF Init, Calls
<1>3. CallTypeOK
  <2>1. i \in Nat /\ got \in Seq(Data \cup {Garbage})
    BY DEF Init
  <2> QED
    BY <1>2, <2>1, Zenon DEF Init, CallTypeOK
<1>4. PacketTypeOK
  <2>1. 0 \in 0..(PollMax + 1) /\ 0 \in Commands /\ ZeroStat \in Stats
    BY GeometryAssumption DEF Commands, ZeroStat, Stats
  <2> QED
    BY <2>1, Zenon DEF Init, PacketTypeOK
<1>5. ControlTypeOK
  <2>1. 0 \in 0..OpCondTries /\ 0 \in {0, 1}
    BY GeometryAssumption
  <2> QED
    BY <2>1, Zenon DEF Init, ControlTypeOK
<1>6. Link
  BY DEF Init, Link, Quiet, Silent, InHeader, InData, InPut, JobKnown
<1>7. Registers
  BY DEF Init, Registers
<1> QED
  BY <1>1, <1>3, <1>4, <1>5, <1>6, <1>7, TypeParts DEF IInv

LEMMA NextIInv == IInv /\ [Next]_vars => IInv'
<1> SUFFICES ASSUME IInv, [Next]_vars PROVE IInv'
  OBVIOUS
<1>1. CASE Invoke
  BY <1>1, InvokeStep
<1>2. CASE Packet
  BY <1>2, SendCommandStep, AwaitStep, ReceiveHeaderStep, BusyTakenForHeaderStep,
     ReceiveBlockStep, PutBlockStep, ProgrammedStep DEF Packet
<1>3. CASE Card
  BY <1>3, CardAnswersStep, CardSendsBlockStep, CardRestStep DEF Card
<1>4. CASE Driver /\ ~Packet
  BY <1>4, DetectStep, InitStep, BlockDoneStep DEF Driver
<1>5. CASE UNCHANGED vars
  <2>1. CardTypeOK /\ CallTypeOK /\ PacketTypeOK /\ ControlTypeOK /\ Link /\ Registers
    BY TypeParts DEF IInv
  <2>2. UNCHANGED <<cardVars, callVars, packetVars, sdVars, ledVars, pc, step, cs>>
    BY <1>5 DEF vars
  <2>3. CallTypeOK' /\ PacketTypeOK' /\ ControlTypeOK' /\ Registers'
    BY <2>1, <2>2, CardKeepsDriver
  <2>4. CardTypeOK' /\ Link'
    BY <2>1, <2>2 DEF CardTypeOK, Link, Quiet, Silent, Busy, InHeader, InData, InPut, OnLine,
       JobKnown, cardVars, packetVars
  <2> QED
    BY <2>3, <2>4, TypePartsPrimed DEF IInv
<1> QED
  BY <1>1, <1>2, <1>3, <1>4, <1>5 DEF Next

LEMMA Inductive == Spec => []IInv
  BY InitIInv, NextIInv, PTL DEF Spec

(* The registers of the driver and what the card holds keep their types,   *)
(* and no loop counter of sdc_init or sdc_sendpacket passes its limit.     *)
THEOREM TypeCorrect == Spec => []TypeOK
<1>1. IInv => TypeOK
  BY DEF IInv
<1> QED
  BY Inductive, <1>1, PTL

(* A late answer is never on the line of another command, since every exit *)
(* of sdc_sendpacket deselects the card (sdc_cs_deassert).                 *)
THEOREM AnswersAreForTheirPacket == Spec => []AnswersMatch
<1>1. IInv => AnswersMatch
  <2> SUFFICES ASSUME IInv, line # <<>> PROVE AnswersMatch
    BY DEF AnswersMatch
  <2>1. line \in Seq(Item) /\ Link /\ ControlTypeOK
    BY TypeParts DEF IInv, CardTypeOK
  <2>2. pc \in {"header", "data"}
    BY <2>1 DEF Link, Quiet, Silent, InPut, ControlTypeOK
  <2>3. CASE pc = "header"
    BY <2>1, <2>3 DEF AnswersMatch, Link, InHeader, OnLine
  <2>4. CASE pc = "data"
    BY <2>1, <2>4 DEF AnswersMatch, Link, InData, OnLine
  <2> QED
    BY <2>2, <2>3, <2>4
<1> QED
  BY Inductive, <1>1, PTL

(* However a call ends, the card is deselected and nothing is pending on   *)
(* it (the exits of sdc_init and sdc_sendpacket).                          *)
THEOREM EveryCallReleasesTheCard == Spec => []Released
<1>1. IInv => Released
  BY DEF IInv, Link, Quiet, Silent, Registers, Released
<1> QED
  BY Inductive, <1>1, PTL

-----------------------------------------------------------------------------
(* That a card which agreed to a transfer transfers the sector the caller  *)
(* means, if the byte addresses of its ranges fit a word.                  *)

(* Callers stay below the first byte address that wraps.                   *)
NoWrap == \A r \in Ranges : (r[1] + r[2]) * BlockSize <= WordSize

(* The argument the card holds is the one of the packet under way.         *)
Addressing ==
  /\ rx # NoCommand => rxArg = Argument
  /\ job # NoJob => rxArg = Argument /\ job.block \in Addressed

LEMMA SilentAddressing == Silent' => Addressing'
  BY DEF Silent, Addressing

LEMMA KeepsAddressing ==
  ASSUME Addressing, UNCHANGED <<kind, rxArg, call, i, ccs, ver2, mmc, step>>,
         rx' \in {rx, NoCommand}, job' \in {job, NoJob}
  PROVE  Addressing'
<1>1. Argument' = Argument
  BY Zenon DEF Argument
<1>2. Addressed' = Addressed
  BY DEF Addressed
<1> QED
  BY <1>1, <1>2 DEF Addressing

LEMMA CardAddressing == IInv /\ Addressing /\ Card => Addressing'
<1> SUFFICES ASSUME IInv, Addressing, Card PROVE Addressing'
  OBVIOUS
<1>1. UNCHANGED <<call, i, ccs, ver2, mmc, step, rxArg>>
  BY DEF Card, CardAnswers, CardSendsBlock, CardProgrammed, CardRemoved, CardInserted,
     callVars, sdVars
<1>2. CASE CardAnswers
  <2>1. UNCHANGED kind /\ rx' = NoCommand /\ rx # NoCommand
    BY <1>2 DEF CardAnswers
  <2>2. Argument' = Argument
    BY <1>1, Zenon DEF Argument
  <2>3. Addressed' = Addressed
    BY <1>1, <2>1 DEF Addressed
  <2>4. PICK s \in Answers :
          job' = (IF IsTransfer(rx) /\ s.r1 = 0
                 THEN [op |-> IF rx = 17 THEN "read" ELSE "write",
                       block |-> CHOOSE b \in Addressed : TRUE]
                 ELSE NoJob)
    BY <1>2, Zenon DEF CardAnswers
  <2>5. job' # NoJob => job'.block \in Addressed
    BY <2>4, AgreedAddress
  <2> QED
    BY <1>1, <2>1, <2>2, <2>3, <2>5 DEF Addressing
<1>3. CASE CardSendsBlock
  BY <1>1, <1>3, KeepsAddressing DEF CardSendsBlock
<1>4. CASE CardProgrammed
  BY <1>1, <1>4, KeepsAddressing DEF CardProgrammed
<1>5. CASE CardRemoved
  BY <1>5, SilentAddressing DEF CardRemoved, Silent
<1>6. CASE CardInserted
  BY <1>6, SilentAddressing DEF CardInserted, Silent, IInv, Link, Quiet
<1> QED
  BY <1>2, <1>3, <1>4, <1>5, <1>6 DEF Card

(* Between two places where nothing is under way, the driver changes       *)
(* neither the call nor the capacity bit.                                  *)
LEMMA PacketAddressing == IInv /\ Addressing /\ Packet /\ ~Silent' => Addressing'
<1> SUFFICES ASSUME IInv, Addressing, Packet, ~Silent' PROVE Addressing'
  OBVIOUS
<1>1. CASE SendCommand
  <2>1. UNCHANGED <<kind, call, i, ccs, ver2, mmc, step>> /\ pc = "send"
    BY <1>1 DEF SendCommand, callVars, sdVars
  <2>2. Argument' = Argument
    BY <2>1, Zenon DEF Argument
  <2>3. \/ rxArg' = Argument /\ job' = NoJob
        \/ UNCHANGED <<rx, rxArg, job>>
    BY <1>1 DEF SendCommand
  <2>4. CASE rxArg' = Argument /\ job' = NoJob
    BY <2>2, <2>4 DEF Addressing
  <2>5. CASE UNCHANGED <<rx, rxArg, job>>
    BY <2>1, <2>5, KeepsAddressing
  <2> QED
    BY <2>3, <2>4, <2>5
<1>2. CASE PacketFails \/ ReceiveBlock
  BY <1>2 DEF PacketFails, ReceiveBlock, Deselect, Silent
<1>3. CASE \E limit \in {PollMax, PollMax + 1} : PollAgain(limit)
  BY <1>3, KeepsAddressing DEF PollAgain, cardVars, callVars, sdVars
<1>4. CASE ReceiveHeader \/ BusyTakenForHeader
  <2>1. UNCHANGED <<kind, rx, rxArg, job>>
    BY <1>4 DEF ReceiveHeader, BusyTakenForHeader
  <2>2. \E s : HeaderReceived(s)
    BY <1>4, Zenon DEF ReceiveHeader, BusyTakenForHeader
  <2>3. UNCHANGED <<call, i, ccs, ver2, mmc, step>>
    BY <2>2 DEF HeaderReceived, callVars, sdVars
  <2> QED
    BY <2>1, <2>3, KeepsAddressing
<1>5. CASE PutBlock /\ ~PacketFails
  BY <1>5, KeepsAddressing DEF PutBlock, callVars, sdVars
<1>6. CASE Programmed
  <2>1. UNCHANGED <<call, i, ccs, ver2, mmc, step>>
    BY <1>6 DEF Programmed, callVars, sdVars
  <2>2. UNCHANGED cardVars
    BY <1>6 DEF Programmed, Deselect, Silent
  <2> QED
    BY <2>1, <2>2, KeepsAddressing DEF cardVars
<1> QED
  BY <1>1, <1>2, <1>3, <1>4, <1>5, <1>6, Zenon
  DEF Packet, AwaitHeader, AwaitData, AwaitProgrammed

LEMMA NextAddressing == IInv /\ Addressing /\ [Next]_vars => Addressing'
<1> SUFFICES ASSUME IInv, Addressing, [Next]_vars PROVE Addressing'
  OBVIOUS
<1>1. CASE Silent'
  BY <1>1, SilentAddressing
<1>2. CASE Card
  BY <1>2, CardAddressing
<1>3. CASE Packet /\ ~Silent'
  BY <1>3, PacketAddressing
<1>4. CASE UNCHANGED vars
  BY <1>4, KeepsAddressing DEF vars, cardVars, callVars, sdVars
<1>5. CASE Invoke \/ (Driver /\ ~Packet)
  <2>1. pc' \in {"idle", "detect", "send"}
    BY <1>5 DEF Invoke, Driver, Detect, ResetDone, InterfaceDone, AppDone, OpCondDone, OcrDone,
       CidDone, CsdDone, LenDone, BlockDone, NextPacket, InitFails, InitSucceeds, Return
  <2>2. Silent'
    BY <2>1, NextIInv DEF IInv, Link, Quiet
  <2> QED
    BY <2>2, SilentAddressing
<1> QED
  BY <1>1, <1>2, <1>3, <1>4, <1>5 DEF Next, Driver
-----------------------------------------------------------------------------
LEMMA ModSmall ==
  ASSUME NEW n \in Nat \ {0}, NEW x \in 0..(n - 1) PROVE x % n = x
  OBVIOUS

LEMMA TimesStrict ==
  ASSUME NEW a \in Nat, NEW b \in Nat, NEW c \in Nat \ {0}, a < b PROVE a * c < b * c
  OBVIOUS

LEMMA TimesCancels ==
  ASSUME NEW a \in Nat, NEW b \in Nat, NEW c \in Nat \ {0}, a * c = b * c PROVE a = b
  BY TimesStrict

LEMMA AddressIsRight == NoWrap /\ IInv /\ Addressing => RightBlock
<1> SUFFICES ASSUME NoWrap, IInv, Addressing, job # NoJob, CapacityKnown
             PROVE  job = [op |-> call.op, block |-> call.lba + i]
  BY DEF RightBlock
<1>1. CardTypeOK /\ CallTypeOK /\ PacketTypeOK /\ ControlTypeOK /\ Link /\ Registers
  BY TypeParts DEF IInv
<1>2. pc \in {"header", "data", "put"} /\ packet = CommandOf
  BY <1>1 DEF Link, Quiet, Silent, Registers, ControlTypeOK
<1>3. job.op \in {"read", "write"} /\ packet = (IF job.op = "read" THEN 17 ELSE 24)
  BY <1>1, <1>2 DEF Link, InHeader, InData, InPut, JobKnown, CardTypeOK
<1>4. step = "block" /\ job.op = call.op /\ i < call.n
  BY <1>1, <1>2, <1>3, CommandOfFacts, CallFacts DEF CallTypeOK, Registers
<1>5. call.lba \in Nat /\ call.n \in Nat /\ i \in Nat /\ <<call.lba, call.n>> \in Ranges
  BY <1>1, <1>3, <1>4, CallFacts DEF CallTypeOK
<1> DEFINE sector == call.lba + i
           unit == IF ccs = 0 THEN BlockSize ELSE 1
<1>6. sector \in Nat /\ unit \in Nat \ {0} /\ call.lba + call.n \in Nat
  BY <1>5, GeometryAssumption
<1>7. sector * unit \in 0..(WordSize - 1)
  <2>1. (call.lba + call.n) * BlockSize <= WordSize
    <3>1. (<<call.lba, call.n>>[1] + <<call.lba, call.n>>[2]) * BlockSize <= WordSize
      BY <1>5, NoWrap, Zenon DEF NoWrap
    <3> QED
      BY <3>1
  <2>2. sector < call.lba + call.n
    BY <1>4, <1>5
  <2>3. sector * BlockSize < (call.lba + call.n) * BlockSize
    BY <2>2, <1>6, GeometryAssumption, TimesStrict
  <2>4. sector <= sector * BlockSize /\ sector * BlockSize \in Nat
    BY <1>6, GeometryAssumption
  <2>5. (call.lba + call.n) * BlockSize \in Nat
    BY <1>6, GeometryAssumption
  <2>6. sector * unit \in Nat /\ sector * unit <= sector * BlockSize
    BY <1>6, <2>4
  <2> HIDE DEF sector, unit
  <2> QED
    BY <2>1, <2>3, <2>4, <2>5, <2>6, GeometryAssumption
<1>8. Argument = sector * unit
  <2>1. Argument = (sector * unit) % WordSize
    BY <1>4, Zenon DEF Argument
  <2> QED
    BY <2>1, <1>7, ModSmall, GeometryAssumption
<1>9. job.block \in Addressed /\ rxArg = sector * unit /\ job.block \in Nat
  BY <1>1, <1>8, GeometryAssumption DEF Addressing, CardTypeOK, Blocks
<1>10. job.block = sector
  <2>1. CASE kind = "sdhc"
    BY <2>1, <1>6, <1>9 DEF CapacityKnown, Addressed
  <2>2. CASE kind # "sdhc"
    <3>1. job.block * BlockSize = sector * BlockSize
      BY <2>2, <1>9 DEF CapacityKnown, Addressed
    <3> QED
      BY <3>1, <1>6, <1>9, GeometryAssumption, TimesCancels
  <2> QED
    BY <2>1, <2>2
<1> QED
  BY <1>1, <1>4, <1>10 DEF CardTypeOK

(* A card that agreed to a transfer was given the address of the sector    *)
(* the caller means (sdcard_packet.c:857-871), as long as the capacity bit *)
(* is that of the card in the slot and no byte address wraps.              *)
THEOREM TheRightBlock == ASSUME NoWrap PROVE Spec => []RightBlock
<1>1. Init => Addressing
  BY DEF Init, Addressing
<1> QED
  BY <1>1, AddressIsRight, NextAddressing, Inductive, PTL DEF Spec

-----------------------------------------------------------------------------
(***************************************************************************)
(* That the driver implements BlockStore, what disk_read and disk_write    *)
(* promise FatFs, for every kind of card, set of ranges and bound of the   *)
(* polling loops: whatever commands go unanswered or are refused, as long  *)
(* as the few things in Reliable hold.                                     *)
(***************************************************************************)

(* What has to be true of the card and the callers: no byte address wraps, *)
(* CMD58 is answered, no read is answered with an error token, a sector is *)
(* programmed within the driver's wait, sectors are transferred only on an *)
(* initialised card, and the card stays in the slot.                       *)
Reliable ==
  /\ NoWrap
  /\ 58 \in Prompt
  /\ ~TokenErrors /\ ~SlowWrites /\ ~RawAccess
  /\ MaxSwaps = 0

(* The capacity bit the card reports: not before it is ready.              *)
CapacityBit == IF kind = "sdhc" /\ cstate = "ready" THEN 1 ELSE 0

Awake == cstate \in {"idle", "ready"}
InCall == pc # "idle" /\ step = "block"

Calling ==
  /\ pc # "idle" => ret = "NONE" /\ (step # "block" => call.op = "init")
  /\ pc = "detect" => step = "cmd0"

(* A card that answered CMD0 stays awake, so that CMD58 reaches it.        *)
PoweredUp ==
  /\ pc # "idle" /\ step \notin {"cmd0", "block"} => Awake
  /\ line # <<>> => Awake
  /\ pc = "return" /\ step = "cmd0" /\ ~timeout => Awake

(* sdc_init sends CMD58 to a card that may not be ready; it ends with      *)
(* success only if it was, since the structure bits of its CSD, or those   *)
(* left in the buffer by the packets before, refuse any other card.        *)
CapacityLearned ==
  /\ pc = "header" /\ step = "ocr" =>
       /\ line = <<>> => rx = packet
       /\ \A k \in 1..Len(line) : line[k].stat.b6 = CapacityBit /\ line[k].stat.top = 2
  /\ pc = "return" /\ step = "ocr" => stat.b6 = CapacityBit /\ stat.top = 2
  /\ pc # "idle" /\ step \in {"cid", "app", "csd", "len"} => ccs = CapacityBit
  /\ pc # "idle" /\ step \in {"cid", "app", "csd"} /\ cstate = "idle" =>
       /\ stat.top > 1
       /\ pc = "header" /\ step # "app" => \A k \in 1..Len(line) : line[k].stat.top > 1
  /\ pc # "idle" /\ step = "len" => cstate = "ready"

Mounted ==
  /\ InCall => mounted
  /\ mounted => cstate = "ready" /\ CapacityKnown /\ (pc # "idle" => step = "block")

(* The card programs the sector the driver waits for, and no other.        *)
Programming ==
  /\ Busy => pc \in {"busy", "verify"}
  /\ Busy => prog = [block |-> call.lba + i, val |-> call.data[i + 1]]
  /\ pc \in {"header", "data", "put", "busy", "verify"} => ~timeout
  /\ pc \in {"busy", "verify"} => step = "block" /\ call.op = "write"
  /\ InCall => \A k \in 1..Len(line) :
       line[k].what = "data" => call.lba + i \in Blocks /\ line[k].val = mem[call.lba + i]

(* The sectors of the call that are done.                                  *)
Passed ==
  IF (pc = "return" /\ ~timeout) \/ (pc \in {"busy", "verify"} /\ ~Busy) THEN i + 1 ELSE i

Progress ==
  InCall =>
    /\ call.op = "read" => Len(got) = Passed
    /\ \A j \in 1..Passed :
         /\ call.lba + j - 1 \in Blocks
         /\ mem[call.lba + j - 1] = (IF call.op = "read" THEN got[j] ELSE call.data[j])

StoreInv == Calling /\ PoweredUp /\ CapacityLearned /\ Mounted /\ Programming /\ Progress

Whole == IInv /\ Addressing /\ StoreInv

LEMMA WholeParts ==
  ASSUME Whole
  PROVE  /\ IInv /\ Addressing
         /\ CardTypeOK /\ CallTypeOK /\ PacketTypeOK /\ ControlTypeOK /\ Link /\ Registers
         /\ Calling /\ PoweredUp /\ CapacityLearned /\ Mounted /\ Programming /\ Progress
  BY TypeParts DEF Whole, IInv, StoreInv

LEMMA ProgressKept ==
  ASSUME Progress, UNCHANGED <<pc, step, call, i, got, mem, prog, timeout>>
  PROVE  Progress'
<1>1. Passed' = Passed /\ InCall' = InCall
  BY DEF Passed, InCall, Busy
<1> QED
  BY <1>1 DEF Progress

(* Outside of a call on sectors nothing is programmed.                     *)
LEMMA OutsideCall ==
  ASSUME ~InCall', ~Busy', pc' \notin {"busy", "verify"},
         pc' \in {"header", "data", "put"} => ~timeout'
  PROVE  Programming' /\ Progress'
  BY DEF Programming, Progress
-----------------------------------------------------------------------------
(* The steps of the card.                                                  *)

LEMMA CardAnswersStore == Whole /\ CardAnswers => StoreInv'
<1> SUFFICES ASSUME Whole, CardAnswers PROVE StoreInv'
  OBVIOUS
<1>1. /\ IInv /\ CardTypeOK /\ CallTypeOK /\ ControlTypeOK /\ Registers
      /\ Calling /\ PoweredUp /\ CapacityLearned /\ Mounted /\ Programming /\ Progress
  BY WholeParts
<1>2. /\ rx # NoCommand /\ rx' = NoCommand
      /\ UNCHANGED <<kind, prog, mem, call, i, got, ret, mounted, packet, timeout, stat, ccs, pc, step>>
  BY DEF CardAnswers, callVars, packetVars, sdVars
<1>3. pc = "header" /\ rx = packet /\ line = <<>> /\ ~Busy /\ rx \in Commands
  BY <1>1, <1>2, CommandHeard
<1>4. PICK s \in Answers :
        /\ line' = Append(line, [what |-> "header", of |-> rx, stat |-> s, val |-> Garbage])
        /\ cstate' = (IF rx = 0 THEN "idle"
                      ELSE IF rx \in {1, 41} /\ s.r1 = 0 THEN "ready" ELSE cstate)
  BY Zenon DEF CardAnswers
<1>5. Len(line') = 1 /\ line'[1].stat = s /\ line'[1].what = "header" /\ line' # <<>>
  BY <1>3, <1>4
<1>6. rx = CommandOf
  BY <1>1, <1>3 DEF Registers
<1>7. Awake'
  <2>1. CASE rx = 0
    BY <2>1, <1>4 DEF Awake
  <2>2. CASE rx # 0
    <3>1. step # "cmd0"
      BY <2>2, <1>1, <1>6, CommandOfCases
    <3>2. Awake
      BY <3>1, <1>1, <1>3 DEF PoweredUp, Mounted, InCall, Awake
    <3> QED
      BY <3>2, <2>2, <1>4 DEF Awake
  <2> QED
    BY <2>1, <2>2
<1>8. step \notin {"cmd0", "opcond"} => cstate' = cstate /\ CapacityBit' = CapacityBit
  <2>1. step \notin {"cmd0", "opcond"} => rx \notin {0, 1, 41}
    BY <1>1, <1>6, CommandOfCases DEF ControlTypeOK
  <2> QED
    BY <2>1, <1>2, <1>4 DEF CapacityBit
<1>9. CapacityLearned'
  <2>1. step = "ocr" => s.b6 = CapacityBit /\ s.top = 2
    <3>1. step = "ocr" => rx = 58
      BY <1>1, <1>6, CommandOfCases
    <3> QED
      BY <3>1 DEF Answers, CapacityBit, IsTransfer
  <2>2. step \in {"cid", "csd"} /\ cstate = "idle" => s.top > 1
    <3>1. step \in {"cid", "csd"} => rx \in {9, 10}
      BY <1>1, <1>6, CommandOfCases
    <3>2. step \in {"cid", "csd"} /\ cstate = "idle" => s \in Refused
      BY <3>1 DEF Answers, IsTransfer
    <3> QED
      BY <3>2 DEF Refused
  <2> QED
    BY <2>1, <2>2, <1>1, <1>2, <1>3, <1>5, <1>8 DEF CapacityLearned
<1>10. Mounted'
  BY <1>1, <1>2, <1>3, <1>8 DEF Mounted, InCall, CapacityKnown
<1>11. Programming'
  BY <1>1, <1>2, <1>3, <1>5 DEF Programming, InCall, Busy
<1>12. Progress'
  BY <1>1, <1>2, ProgressKept
<1> QED
  BY <1>1, <1>2, <1>3, <1>7, <1>9, <1>10, <1>11, <1>12 DEF StoreInv, Calling, PoweredUp

(* The block the card sends is the sector of the call.                     *)
LEMMA AgreedSector ==
  ASSUME NoWrap, Whole, job # NoJob
  PROVE  job = [op |-> call.op, block |-> call.lba + i] /\ step = "block" /\ pc # "idle"
<1>1. /\ IInv /\ Addressing /\ CardTypeOK /\ ControlTypeOK /\ Link /\ Registers /\ Mounted
  BY WholeParts
<1>2. pc \in {"header", "data", "put"} /\ packet = CommandOf
  BY <1>1 DEF Link, Quiet, Silent, Registers, ControlTypeOK
<1>3. packet \in {17, 24}
  BY <1>1, <1>2 DEF Link, InHeader, InData, InPut
<1>4. step = "block"
  BY <1>1, <1>2, <1>3, CommandOfFacts
<1>5. CapacityKnown
  BY <1>1, <1>2, <1>4 DEF Mounted, InCall
<1> QED
  BY <1>1, <1>2, <1>4, <1>5, AddressIsRight DEF RightBlock

LEMMA CardSendsBlockStore == Reliable /\ Whole /\ CardSendsBlock => StoreInv'
<1> SUFFICES ASSUME Reliable, Whole, CardSendsBlock PROVE StoreInv'
  OBVIOUS
<1>1. /\ IInv /\ CardTypeOK /\ CallTypeOK /\ ControlTypeOK /\ Registers /\ Link
      /\ Calling /\ PoweredUp /\ CapacityLearned /\ Mounted /\ Programming /\ Progress
  BY WholeParts
<1>2. /\ job.op = "read" /\ job # NoJob
      /\ UNCHANGED <<kind, cstate, rx, prog, mem, call, i, got, ret, mounted, packet, timeout, stat,
                     ccs, pc, step>>
  BY DEF CardSendsBlock, callVars, packetVars, sdVars, NoJob
<1>3. job.block = call.lba + i /\ job.block \in Blocks /\ step = "block" /\ pc # "idle"
  BY <1>1, <1>2, AgreedSector DEF Reliable, CardTypeOK
<1>4. line' = Append(line, [what |-> "data", of |-> 17, stat |-> ZeroStat, val |-> mem[job.block]])
  BY DEF CardSendsBlock, Reliable
<1>5. Awake
  BY <1>1, <1>3 DEF Mounted, InCall, Awake
<1>6. line \in Seq(Item)
  BY <1>1 DEF CardTypeOK
<1>7. \A k \in 1..Len(line') : line'[k].what = "data" =>
        call.lba + i \in Blocks /\ line'[k].val = mem[call.lba + i]
  <2>1. SUFFICES ASSUME NEW k \in 1..Len(line'), line'[k].what = "data"
                 PROVE  call.lba + i \in Blocks /\ line'[k].val = mem[call.lba + i]
    OBVIOUS
  <2>2. CASE k = Len(line) + 1
    BY <2>2, <1>3, <1>4, <1>6
  <2>3. CASE k # Len(line) + 1
    <3>1. k \in 1..Len(line) /\ line'[k] = line[k]
      BY <2>1, <2>3, <1>4, <1>6
    <3> QED
      BY <3>1, <2>1, <1>1, <1>3 DEF Programming, InCall
  <2> QED
    BY <2>2, <2>3
<1>8. Programming'
  BY <1>1, <1>2, <1>7 DEF Programming, InCall, Busy
<1>9. Progress'
  BY <1>1, <1>2, ProgressKept
<1>10. CapacityLearned'
  BY <1>1, <1>2, <1>3 DEF CapacityLearned, CapacityBit
<1> QED
  BY <1>1, <1>2, <1>3, <1>5, <1>8, <1>9, <1>10
  DEF StoreInv, Calling, PoweredUp, Mounted, InCall, CapacityKnown, Awake

(* The programming ends: the sector of the call holds its data.            *)
LEMMA CardProgrammedStore == Whole /\ CardProgrammed => StoreInv'
<1> SUFFICES ASSUME Whole, CardProgrammed PROVE StoreInv'
  OBVIOUS
<1>1. /\ IInv /\ CardTypeOK /\ CallTypeOK /\ ControlTypeOK /\ Registers /\ Link
      /\ Calling /\ PoweredUp /\ CapacityLearned /\ Mounted /\ Programming /\ Progress
  BY WholeParts
<1>2. /\ Busy /\ mem' = Written /\ prog' = Idling
      /\ UNCHANGED <<kind, cstate, rx, line, call, i, got, ret, mounted, packet, timeout, stat,
                     ccs, pc, step>>
  BY DEF CardProgrammed, callVars, packetVars, sdVars
<1>3. /\ pc \in {"busy", "verify"} /\ step = "block" /\ call.op = "write" /\ ~timeout
      /\ prog = [block |-> call.lba + i, val |-> call.data[i + 1]]
  BY <1>1, <1>2 DEF Programming
<1>4. line = <<>> /\ Len(line) = 0
  BY <1>1, <1>2 DEF Link, Quiet, Silent
<1>5. call.lba + i \in Blocks /\ i \in Nat /\ call.lba \in Nat
  <2>1. prog \in [block : Blocks, val : Data]
    BY <1>1, <1>2 DEF CardTypeOK, Busy
  <2> QED
    BY <2>1, <1>1, <1>3, CallFacts DEF CallTypeOK
<1>6. mem' = [mem EXCEPT ![call.lba + i] = call.data[i + 1]]
  BY <1>2, <1>3 DEF Written
<1>7. ~Busy'
  BY <1>2 DEF Busy
<1>8. Passed = i /\ Passed' = i + 1
  BY <1>2, <1>3, <1>7 DEF Passed
<1>9. Progress'
  <2>1. SUFFICES ASSUME NEW j \in 1..(i + 1)
                 PROVE  call.lba + j - 1 \in Blocks /\ mem'[call.lba + j - 1] = call.data[j]
    BY <1>2, <1>3, <1>8 DEF Progress
  <2>2. CASE j = i + 1
    BY <2>2, <1>1, <1>5, <1>6 DEF CardTypeOK
  <2>3. CASE j # i + 1
    <3>1. j \in 1..i /\ call.lba + j - 1 # call.lba + i
      BY <2>1, <2>3, <1>5
    <3>2. call.lba + j - 1 \in Blocks /\ mem[call.lba + j - 1] = call.data[j]
      BY <3>1, <1>1, <1>3, <1>8 DEF Progress, InCall
    <3> QED
      BY <3>1, <3>2, <1>1, <1>6 DEF CardTypeOK
  <2> QED
    BY <2>2, <2>3
<1>10. Programming'
  BY <1>2, <1>3, <1>4, <1>7 DEF Programming
<1>11. CapacityLearned'
  BY <1>2, <1>3 DEF CapacityLearned
<1> QED
  BY <1>1, <1>2, <1>3, <1>4, <1>9, <1>10, <1>11
  DEF StoreInv, Calling, PoweredUp, Mounted, InCall, CapacityKnown, Awake

LEMMA CardInsertedStore == Whole /\ CardInserted => StoreInv'
<1> SUFFICES ASSUME Whole, CardInserted PROVE StoreInv'
  OBVIOUS
<1>1. /\ IInv /\ CardTypeOK /\ ControlTypeOK /\ Link
      /\ Calling /\ PoweredUp /\ CapacityLearned /\ Mounted /\ Programming /\ Progress
  BY WholeParts
<1>2. /\ cstate = "absent" /\ cstate' = "native"
      /\ UNCHANGED <<rx, line, prog, mem, call, i, got, ret, mounted, packet, timeout, stat,
                     ccs, pc, step>>
  BY DEF CardInserted, callVars, packetVars, sdVars
<1>3. ~mounted /\ line = <<>> /\ Len(line) = 0
  BY <1>1, <1>2 DEF Mounted, Link, Quiet, Silent
<1>4. pc # "idle" => step = "cmd0" /\ ~(pc = "return" /\ ~timeout)
  BY <1>1, <1>2, <1>3 DEF PoweredUp, Awake, Mounted, InCall
<1>5. Progress'
  BY <1>1, <1>2, ProgressKept
<1>6. Programming'
  BY <1>1, <1>2, <1>3, <1>4 DEF Programming, InCall, Busy
<1> QED
  BY <1>1, <1>2, <1>3, <1>4, <1>5, <1>6
  DEF StoreInv, Calling, PoweredUp, CapacityLearned, Mounted, InCall
-----------------------------------------------------------------------------
(* The steps of sdc_sendpacket.                                            *)

LEMMA StoreInvKept ==
  ASSUME StoreInv, UNCHANGED <<cardVars, callVars, packet, timeout, stat, sdVars, pc, step>>
  PROVE  StoreInv'
<1>1. Progress'
  BY ProgressKept DEF StoreInv, cardVars, callVars
<1>2. Calling' /\ PoweredUp'
  BY DEF StoreInv, Calling, PoweredUp, Awake, cardVars, callVars
<1>3. CapacityLearned'
  BY DEF StoreInv, CapacityLearned, CapacityBit, cardVars, sdVars
<1>4. Mounted' /\ Programming'
  BY DEF StoreInv, Mounted, Programming, InCall, CapacityKnown, Busy, cardVars, callVars, sdVars
<1> QED
  BY <1>1, <1>2, <1>3, <1>4 DEF StoreInv

LEMMA SendCommandStore == Whole /\ SendCommand => StoreInv'
<1> SUFFICES ASSUME Whole, SendCommand PROVE StoreInv'
  OBVIOUS
<1>1. /\ CardTypeOK /\ PacketTypeOK /\ ControlTypeOK /\ Link
      /\ Calling /\ PoweredUp /\ CapacityLearned /\ Mounted /\ Programming /\ Progress
  BY WholeParts
<1>2. /\ pc = "send" /\ pc' = "header" /\ packet' = CommandOf /\ timeout' = FALSE
      /\ stat' = [stat EXCEPT !.r1 = 0]
      /\ UNCHANGED <<kind, cstate, line, prog, mem, call, i, got, ret, mounted, ccs, step>>
      /\ Hears(CommandOf) => rx' = CommandOf
  BY DEF SendCommand, callVars, sdVars
<1>3. line = <<>> /\ Len(line) = 0 /\ ~Busy
  BY <1>1, <1>2 DEF Link, Quiet, Silent, Programming
<1>4. stat'.top = stat.top
  BY <1>1, <1>2 DEF PacketTypeOK, Stats
<1>5. step = "ocr" => rx' = packet'
  BY <1>1, <1>2, <1>3 DEF PoweredUp, Awake, Hears
<1>6. CapacityLearned'
  BY <1>1, <1>2, <1>3, <1>4, <1>5 DEF CapacityLearned, CapacityBit
<1>7. Programming'
  BY <1>1, <1>2, <1>3 DEF Programming, InCall, Busy
<1>8. Progress'
  <2>1. Passed' = i /\ Passed = i
    BY <1>2 DEF Passed
  <2> QED
    BY <1>1, <1>2, <2>1 DEF Progress, InCall
<1> QED
  BY <1>1, <1>2, <1>3, <1>6, <1>7, <1>8
  DEF StoreInv, Calling, PoweredUp, Awake, Mounted, InCall, CapacityKnown

LEMMA PacketFailsStore ==
  ASSUME Whole, PacketFails, pc \in {"header", "data", "put"}, step # "ocr"
  PROVE  StoreInv'
<1>1. /\ CardTypeOK /\ ControlTypeOK
      /\ Calling /\ PoweredUp /\ CapacityLearned /\ Mounted /\ Programming /\ Progress
  BY WholeParts
<1>2. /\ timeout' = TRUE /\ pc' = "return" /\ line' = <<>> /\ Len(line') = 0
      /\ UNCHANGED <<kind, cstate, prog, mem, call, i, got, ret, mounted, stat, ccs, step>>
  BY DEF PacketFails, Deselect, cardRest, callVars, sdVars
<1>3. Programming'
  BY <1>1, <1>2 DEF Programming, InCall, Busy
<1>4. Progress'
  <2>1. Passed' = i /\ Passed = i
    BY <1>2 DEF Passed
  <2> QED
    BY <1>1, <1>2, <2>1 DEF Progress, InCall
<1>5. CapacityLearned'
  BY <1>1, <1>2 DEF CapacityLearned, CapacityBit
<1> QED
  BY <1>1, <1>2, <1>3, <1>4, <1>5
  DEF StoreInv, Calling, PoweredUp, Awake, Mounted, InCall, CapacityKnown

(* CMD58 is heard by the card and answered in time; a sector is programmed *)
(* within the driver's wait.                                               *)
LEMMA AwaitStore ==
  Reliable /\ Whole /\ (AwaitHeader \/ AwaitData \/ AwaitProgrammed) => StoreInv'
<1> SUFFICES ASSUME Reliable, Whole, AwaitHeader \/ AwaitData \/ AwaitProgrammed PROVE StoreInv'
  OBVIOUS
<1>1. StoreInv /\ ControlTypeOK /\ Registers /\ CapacityLearned /\ Link
  BY WholeParts DEF Whole
<1>2. CASE \E limit \in {PollMax, PollMax + 1} : PollAgain(limit)
  BY <1>1, <1>2, StoreInvKept DEF PollAgain
<1>3. CASE AwaitHeader /\ PacketFails
  <2>1. CASE step = "ocr" /\ ~(rx = packet /\ packet \in Prompt)
    <3>1. rx = packet
      BY <2>1, <1>1, <1>3 DEF AwaitHeader, LineHigh, CapacityLearned
    <3>2. packet = 58
      BY <2>1, <1>1, <1>3, CommandOfCases DEF AwaitHeader, Registers
    <3> QED
      BY <2>1, <3>1, <3>2 DEF Reliable
  <2>2. CASE step # "ocr"
    BY <2>2, <1>3, PacketFailsStore DEF AwaitHeader
  <2>3. PollAgain(PollMax) \/ ~(rx = packet /\ packet \in Prompt)
    BY <1>3 DEF AwaitHeader
  <2> QED
    BY <2>1, <2>2, <2>3, <1>2
<1>4. CASE AwaitData /\ PacketFails
  <2>1. step # "ocr"
    BY <1>1, <1>4, CommandOfFacts DEF AwaitData, Link, InData, Registers
  <2> QED
    BY <2>1, <1>4, PacketFailsStore DEF AwaitData
<1> QED
  BY <1>2, <1>3, <1>4 DEF AwaitHeader, AwaitData, AwaitProgrammed, Reliable

LEMMA ReceiveHeaderStore == Whole /\ ReceiveHeader => StoreInv'
<1> SUFFICES ASSUME Whole, ReceiveHeader PROVE StoreInv'
  OBVIOUS
<1>1. /\ CardTypeOK /\ PacketTypeOK /\ ControlTypeOK /\ Link /\ Registers
      /\ Calling /\ PoweredUp /\ CapacityLearned /\ Mounted /\ Programming /\ Progress
  BY WholeParts
<1>2. /\ pc = "header" /\ line # <<>> /\ line' = Tail(line)
      /\ UNCHANGED <<kind, cstate, prog, mem, call, i, got, ret, mounted, timeout, ccs, step, packet>>
      /\ stat' = (IF Long(packet) THEN Head(line).stat ELSE [stat EXCEPT !.r1 = Head(line).stat.r1])
  BY DEF ReceiveHeader, HeaderReceived, callVars, sdVars
<1>3. /\ packet = 17 => pc' = "data"
      /\ packet = 24 => pc' = "put"
      /\ packet \notin {17, 24} => pc' = "return"
  BY DEF ReceiveHeader, HeaderReceived, IsTransfer
<1>4. /\ Len(line) \in {1, 2} /\ Head(line) = line[1]
      /\ Len(line') = Len(line) - 1
      /\ \A k \in 1..Len(line') : line'[k] = line[k + 1]
  <2>1. line \in Seq(Item) /\ Len(line) \in {0, 1, 2}
    BY <1>1, <1>2 DEF CardTypeOK, Link, InHeader
  <2> QED
    BY <2>1, <1>2
<1>5. packet = CommandOf /\ Awake
  BY <1>1, <1>2 DEF Registers, PoweredUp
<1>6. step \in {"ocr", "cid", "csd"} => stat' = line[1].stat
  <2>1. step \in {"ocr", "cid", "csd"} => Long(packet)
    BY <1>1, <1>5, CommandOfCases DEF Long
  <2> QED
    BY <2>1, <1>2, <1>4
<1>7. step = "app" => stat'.top = stat.top
  <2>1. step = "app" => ~Long(packet)
    BY <1>1, <1>5, CommandOfCases DEF Long
  <2> QED
    BY <2>1, <1>1, <1>2 DEF PacketTypeOK, Stats
<1>8. step # "block" <=> packet \notin {17, 24}
  BY <1>1, <1>5, CommandOfFacts
<1>9. CapacityLearned'
  <2>1. 1 \in 1..Len(line)
    BY <1>4
  <2>2. step = "ocr" => stat'.b6 = CapacityBit /\ stat'.top = 2
    BY <2>1, <1>1, <1>2, <1>6 DEF CapacityLearned
  <2>3. step \in {"cid", "app", "csd"} /\ cstate = "idle" => stat'.top > 1
    BY <2>1, <1>1, <1>2, <1>6, <1>7 DEF CapacityLearned
  <2>4. CapacityBit' = CapacityBit
    BY <1>2 DEF CapacityBit
  <2>5. pc' # "header"
    BY <1>3
  <2> QED
    BY <2>2, <2>3, <2>4, <2>5, <1>1, <1>2 DEF CapacityLearned
<1>10. Programming'
  <2>1. InCall => \A k \in 1..Len(line') :
          line'[k].what = "data" => call.lba + i \in Blocks /\ line'[k].val = mem[call.lba + i]
    <3>1. SUFFICES ASSUME InCall, NEW k \in 1..Len(line'), line'[k].what = "data"
                   PROVE  call.lba + i \in Blocks /\ line'[k].val = mem[call.lba + i]
      OBVIOUS
    <3>2. k + 1 \in 1..Len(line) /\ line'[k] = line[k + 1]
      BY <3>1, <1>4
    <3> QED
      BY <3>1, <3>2, <1>1 DEF Programming
  <2>2. pc' \in {"data", "put", "return"}
    BY <1>3
  <2> QED
    BY <2>1, <2>2, <1>1, <1>2 DEF Programming, InCall, Busy
<1>11. Progress'
  <2>1. CASE step = "block"
    <3>1. Passed' = i /\ Passed = i
      BY <2>1, <1>2, <1>3, <1>8 DEF Passed
    <3> QED
      BY <3>1, <1>1, <1>2 DEF Progress, InCall
  <2>2. CASE step # "block"
    BY <2>2, <1>2 DEF Progress, InCall
  <2> QED
    BY <2>1, <2>2
<1>12. Mounted' /\ Calling' /\ PoweredUp'
  BY <1>1, <1>2, <1>3, <1>5 DEF Mounted, InCall, CapacityKnown, Calling, PoweredUp, Awake
<1> QED
  BY <1>9, <1>10, <1>11, <1>12 DEF StoreInv

LEMMA ReceiveBlockStore == Whole /\ ReceiveBlock => StoreInv'
<1> SUFFICES ASSUME Whole, ReceiveBlock PROVE StoreInv'
  OBVIOUS
<1>1. /\ CardTypeOK /\ CallTypeOK /\ PacketTypeOK /\ ControlTypeOK /\ Link /\ Registers
      /\ Calling /\ PoweredUp /\ CapacityLearned /\ Mounted /\ Programming /\ Progress
  BY WholeParts
<1>2. /\ pc = "data" /\ pc' = "return" /\ line' = <<>> /\ Len(line') = 0
      /\ UNCHANGED <<kind, cstate, prog, mem, call, i, ret, mounted, timeout, stat, ccs, step>>
  BY DEF ReceiveBlock, Deselect, cardRest, packetVars, sdVars
<1>3. ~Busy /\ ~timeout
  BY <1>1, <1>2 DEF Programming
<1>4. line # <<>> /\ got' = Append(got, Head(line).val)
  BY <1>3 DEF ReceiveBlock, LineHigh
<1>5. step = "block" /\ call.op = "read"
  BY <1>1, <1>2, CommandOfFacts DEF Link, InData, Registers
<1>6. Len(line) = 1 /\ Head(line) = line[1] /\ line[1].what = "data"
  <2>1. line \in Seq(Item) /\ Len(line) \in {0, 1}
    BY <1>1, <1>2 DEF CardTypeOK, Link, InData
  <2>2. Len(line) = 1 /\ Head(line) = line[1]
    BY <2>1, <1>4
  <2> QED
    BY <2>2, <1>1, <1>2 DEF Link, InData, OnLine
<1>7. call.lba + i \in Blocks /\ Head(line).val = mem[call.lba + i]
  <2>1. 1 \in 1..Len(line)
    BY <1>6
  <2> QED
    BY <2>1, <1>1, <1>2, <1>5, <1>6 DEF Programming, InCall
<1>8. Passed = i /\ Passed' = i + 1 /\ ~Busy'
  BY <1>2, <1>3 DEF Passed, Busy
<1>9. i \in Nat /\ call.lba \in Nat /\ got \in Seq(Data \cup {Garbage}) /\ Len(got) = i
  BY <1>1, <1>2, <1>5, <1>8, CallFacts DEF CallTypeOK, Progress, InCall
<1>10. Progress'
  <2>1. Head(line).val \in Data \cup {Garbage}
    BY <1>1, <1>7 DEF CardTypeOK
  <2>2. Len(got') = i + 1 /\ got'[i + 1] = mem[call.lba + i]
        /\ \A j \in 1..i : got'[j] = got[j]
    BY <2>1, <1>4, <1>7, <1>9
  <2>3. SUFFICES ASSUME NEW j \in 1..(i + 1)
                 PROVE  call.lba + j - 1 \in Blocks /\ mem[call.lba + j - 1] = got'[j]
    BY <1>2, <1>5, <1>8, <2>2 DEF Progress
  <2>4. CASE j = i + 1
    <3>1. call.lba + j - 1 = call.lba + i
      BY <2>4, <1>9
    <3> QED
      BY <3>1, <2>2, <2>4, <1>7
  <2>5. CASE j # i + 1
    <3>1. j \in 1..i
      BY <2>5, <1>9
    <3> QED
      BY <3>1, <2>2, <1>1, <1>2, <1>5, <1>8 DEF Progress, InCall
  <2> QED
    BY <2>4, <2>5
<1>11. Programming'
  BY <1>1, <1>2, <1>8 DEF Programming
<1>12. CapacityLearned'
  BY <1>2, <1>5 DEF CapacityLearned
<1> QED
  BY <1>1, <1>2, <1>5, <1>10, <1>11, <1>12
  DEF StoreInv, Calling, PoweredUp, Awake, Mounted, InCall, CapacityKnown

LEMMA PutBlockStore == Reliable /\ Whole /\ PutBlock => StoreInv'
<1> SUFFICES ASSUME Reliable, Whole, PutBlock PROVE StoreInv'
  OBVIOUS
<1>1. /\ CardTypeOK /\ CallTypeOK /\ ControlTypeOK /\ Link /\ Registers
      /\ Calling /\ PoweredUp /\ CapacityLearned /\ Mounted /\ Programming /\ Progress
  BY WholeParts
<1>2. pc = "put" /\ line = <<>> /\ Len(line) = 0 /\ ~timeout /\ ~Busy
  BY <1>1 DEF PutBlock, Link, InPut, Programming
<1>3. step = "block" /\ call.op = "write"
  BY <1>1, <1>2, CommandOfFacts, CallFacts DEF Link, InPut, Registers, CallTypeOK
<1>4. CASE PacketFails
  BY <1>2, <1>3, <1>4, PacketFailsStore
<1>5. CASE ~PacketFails
  <2>1. /\ job.op = "write" /\ job # NoJob /\ pc' = "busy"
        /\ prog' = [block |-> job.block, val |-> call.data[i + 1]]
        /\ UNCHANGED <<kind, cstate, line, mem, call, i, got, ret, mounted, timeout, stat, ccs, step>>
    BY <1>5 DEF PutBlock, NoJob, callVars, sdVars
  <2>2. job.block = call.lba + i /\ job.block \in Blocks
    BY <2>1, <1>1, AgreedSector DEF Reliable, CardTypeOK
  <2>3. Busy'
    <3>1. job.block # CardBlocks
      BY <2>2, GeometryAssumption DEF Blocks
    <3> QED
      BY <2>1, <3>1 DEF Busy, Idling
  <2>4. Passed' = i /\ Passed = i
    BY <1>2, <2>1, <2>3 DEF Passed
  <2>5. Progress'
    BY <1>1, <1>2, <1>3, <2>1, <2>4 DEF Progress, InCall
  <2>6. Programming'
    BY <1>2, <1>3, <2>1, <2>2 DEF Programming
  <2>7. CapacityLearned'
    BY <1>3, <2>1 DEF CapacityLearned
  <2> QED
    BY <1>1, <1>2, <1>3, <2>1, <2>5, <2>6, <2>7
    DEF StoreInv, Calling, PoweredUp, Awake, Mounted, InCall, CapacityKnown
<1> QED
  BY <1>4, <1>5

LEMMA ProgrammedStore == Whole /\ Programmed => StoreInv'
<1> SUFFICES ASSUME Whole, Programmed PROVE StoreInv'
  OBVIOUS
<1>1. /\ CardTypeOK /\ ControlTypeOK /\ Link
      /\ Calling /\ PoweredUp /\ CapacityLearned /\ Mounted /\ Programming /\ Progress
  BY WholeParts
<1>2. /\ pc \in {"busy", "verify"} /\ ~Busy /\ pc' \in {"verify", "return"}
      /\ UNCHANGED <<call, i, got, ret, mounted, timeout, stat, ccs, step>>
  BY DEF Programmed, callVars, sdVars
<1>3. line = <<>> /\ step = "block" /\ call.op = "write" /\ ~timeout
  BY <1>1, <1>2 DEF Link, Quiet, Silent, Programming
<1>4. line' = <<>> /\ Len(line') = 0 /\ UNCHANGED <<kind, cstate, prog, mem>>
  BY <1>2, <1>3 DEF Programmed, Deselect, cardRest, cardVars
<1>5. Passed' = i + 1 /\ Passed = i + 1 /\ ~Busy'
  BY <1>2, <1>3, <1>4 DEF Passed, Busy
<1>6. Progress'
  BY <1>1, <1>2, <1>3, <1>4, <1>5 DEF Progress, InCall
<1>7. Programming'
  BY <1>2, <1>3, <1>4, <1>5 DEF Programming
<1>8. CapacityLearned'
  BY <1>2, <1>3 DEF CapacityLearned
<1> QED
  BY <1>1, <1>2, <1>3, <1>4, <1>6, <1>7, <1>8
  DEF StoreInv, Calling, PoweredUp, Awake, Mounted, InCall, CapacityKnown
-----------------------------------------------------------------------------
(* The calls.                                                              *)

LEMMA InvokeStore == Reliable /\ Whole /\ Invoke => StoreInv'
<1> SUFFICES ASSUME Reliable, Whole, Invoke PROVE StoreInv'
  OBVIOUS
<1>1. /\ CardTypeOK /\ CallTypeOK /\ ControlTypeOK /\ Link /\ Mounted /\ Programming
  BY WholeParts
<1>2. /\ pc = "idle" /\ call' \in Calls /\ i' = 0 /\ got' = <<>> /\ ret' = "NONE"
      /\ UNCHANGED <<kind, cstate, line, prog, mem, timeout, stat, ccs>>
      /\ call'.op = "init" => pc' = "detect" /\ step' = "cmd0"
      /\ call'.op # "init" => pc' = "send" /\ step' = "block"
  BY DEF Invoke, cardVars, packetVars, sdVars
<1>3. call'.op # "init" => mounted
  BY DEF Invoke, Reliable
<1>4. mounted' <=> mounted /\ call'.op # "init"
  BY Zenon DEF Invoke
<1>5. line' = <<>> /\ Len(line') = 0 /\ ~Busy' /\ Len(got') = 0
  BY <1>1, <1>2 DEF Link, Quiet, Silent, Programming, Busy
<1>6. Passed' = 0
  BY <1>2 DEF Passed
<1>7. Programming' /\ Progress'
  BY <1>2, <1>5, <1>6 DEF Programming, Progress
<1>8. Mounted'
  BY <1>1, <1>2, <1>3, <1>4 DEF Mounted, InCall, CapacityKnown
<1> QED
  BY <1>2, <1>5, <1>7, <1>8 DEF StoreInv, Calling, PoweredUp, CapacityLearned

LEMMA DetectStore == Whole /\ Detect => StoreInv'
<1> SUFFICES ASSUME Whole, Detect PROVE StoreInv'
  OBVIOUS
<1>1. /\ CardTypeOK /\ ControlTypeOK /\ Link /\ Calling /\ Mounted /\ Programming
  BY WholeParts
<1>2. /\ pc = "detect"
      /\ UNCHANGED <<kind, cstate, line, prog, mem, call, mounted, step>>
  BY DEF Detect, Return, cardVars
<1>3. pc' = "idle" \/ (pc' = "send" /\ ret' = ret)
  BY DEF Detect, Return
<1>4. step = "cmd0" /\ ~mounted /\ line = <<>> /\ Len(line) = 0 /\ ~Busy
  BY <1>1, <1>2 DEF Calling, Mounted, Link, Quiet, Silent, Programming
<1>5. Programming' /\ Progress'
  BY <1>2, <1>3, <1>4, OutsideCall DEF InCall, Busy
<1> QED
  BY <1>1, <1>2, <1>3, <1>4, <1>5
  DEF StoreInv, Calling, PoweredUp, CapacityLearned, Mounted, InCall

LEMMA InitPacketStore ==
  ASSUME Whole, pc = "return", step # "block", step' # "block", UNCHANGED packetVars,
         \/ /\ NextPacket(step') /\ Awake /\ step' # "cmd0"
            /\ step' \in {"cid", "app", "csd", "len"} => ccs' = CapacityBit
            /\ step' \in {"cid", "app", "csd"} /\ cstate = "idle" => stat.top > 1
            /\ step' = "len" => cstate = "ready"
         \/ InitFails
         \/ InitSucceeds /\ cstate = "ready" /\ ccs' = CapacityBit
  PROVE  StoreInv'
<1>1. /\ CardTypeOK /\ ControlTypeOK /\ Link /\ Calling /\ Mounted /\ Programming
  BY WholeParts
<1>2. ~mounted /\ line = <<>> /\ ~Busy
  BY <1>1 DEF Mounted, Link, Quiet, Silent, Programming
<1>3. stat' = stat
  BY DEF packetVars
<1>4. /\ line' = <<>> /\ Len(line') = 0
      /\ UNCHANGED <<kind, cstate, prog, call>>
      /\ pc' = "idle" \/ (pc' = "send" /\ ret' = ret /\ NextPacket(step'))
  BY <1>2 DEF NextPacket, InitFails, InitSucceeds, Return, Deselect, cardRest, cardVars, callVars
<1>5. Programming' /\ Progress'
  BY <1>2, <1>4, OutsideCall DEF InCall, Busy
<1>6. Mounted'
  <2>1. CASE ~mounted'
    BY <2>1 DEF Mounted, InCall
  <2>2. CASE InitSucceeds /\ cstate = "ready" /\ ccs' = CapacityBit
    <3>1. pc' = "idle"
      BY <2>2 DEF InitSucceeds, Return
    <3> QED
      BY <2>2, <3>1, <1>4 DEF Mounted, InCall, CapacityKnown, CapacityBit
  <2>3. NextPacket(step') \/ InitFails => mounted' = mounted
    BY Zenon DEF NextPacket, InitFails, callVars
  <2> QED
    BY <1>2, <2>1, <2>2, <2>3
<1>7. CapacityLearned'
  <2>1. CapacityBit' = CapacityBit
    BY <1>4 DEF CapacityBit
  <2>2. CASE pc' = "idle"
    BY <2>2 DEF CapacityLearned
  <2>3. CASE pc' = "send"
    <3>1. /\ step' \in {"cid", "app", "csd", "len"} => ccs' = CapacityBit
          /\ step' \in {"cid", "app", "csd"} /\ cstate = "idle" => stat.top > 1
          /\ step' = "len" => cstate = "ready"
      BY <2>3 DEF InitFails, InitSucceeds, Return
    <3> QED
      BY <2>1, <2>3, <3>1, <1>3, <1>4 DEF CapacityLearned
  <2> QED
    BY <2>2, <2>3, <1>4
<1>8. PoweredUp'
  <2>1. pc' # "idle" => Awake
    BY DEF InitFails, InitSucceeds, Return
  <2> QED
    BY <2>1, <1>4 DEF PoweredUp, Awake
<1>9. Calling'
  BY <1>1, <1>4 DEF Calling
<1> QED
  BY <1>5, <1>6, <1>7, <1>8, <1>9 DEF StoreInv

LEMMA InitStore ==
  Whole /\ (ResetDone \/ InterfaceDone \/ AppDone \/ OpCondDone \/ OcrDone \/ CidDone
             \/ CsdDone \/ LenDone) => StoreInv'
<1> SUFFICES ASSUME Whole PROVE
     (ResetDone \/ InterfaceDone \/ AppDone \/ OpCondDone \/ OcrDone \/ CidDone
             \/ CsdDone \/ LenDone) => StoreInv'
  OBVIOUS
<1>1. ControlTypeOK /\ PoweredUp /\ CapacityLearned
  BY WholeParts
<1>2. \A s : NextPacket(s) => NextPacket(s) /\ step' = s
  BY Zenon DEF NextPacket
<1>3. InitFails => InitFails /\ step' = step
  BY Zenon DEF InitFails, Return
<1>4. InitSucceeds => InitSucceeds /\ step' = step
  BY Zenon DEF InitSucceeds, Return
<1>5. CASE ResetDone
  <2>1. pc = "return" /\ step = "cmd0" /\ UNCHANGED packetVars
    BY <1>5 DEF ResetDone, Returned
  <2>2. InitFails \/ (NextPacket("cmd8") /\ ~timeout)
    BY <1>5, Zenon DEF ResetDone, NoAnswer
  <2> QED
    BY <2>1, <2>2, <1>1, <1>2, <1>3, InitPacketStore DEF PoweredUp
<1>6. CASE InterfaceDone
  <2>1. pc = "return" /\ step = "cmd8" /\ UNCHANGED packetVars
    BY <1>6 DEF InterfaceDone, Returned
  <2>2. InitFails \/ NextPacket("cmd55")
    BY <1>6, Zenon DEF InterfaceDone
  <2> QED
    BY <2>1, <2>2, <1>1, <1>2, <1>3, InitPacketStore DEF PoweredUp
<1>7. CASE AppDone
  <2>1. /\ pc = "return" /\ UNCHANGED packetVars /\ ccs' = ccs
        /\ \/ step = "cmd55" /\ NextPacket("opcond")
           \/ step = "app" /\ NextPacket("csd")
    BY <1>7, Zenon DEF AppDone, Returned, sdVars
  <2> QED
    BY <2>1, <1>1, <1>2, InitPacketStore DEF PoweredUp, CapacityLearned
<1>8. CASE OpCondDone
  <2>1. pc = "return" /\ step = "opcond" /\ UNCHANGED packetVars
    BY <1>8 DEF OpCondDone, Returned
  <2>2. InitFails \/ NextPacket("ocr") \/ NextPacket("opcond") \/ NextPacket("cmd55")
    BY <1>8, Zenon DEF OpCondDone
  <2> QED
    BY <2>1, <2>2, <1>1, <1>2, <1>3, InitPacketStore DEF PoweredUp
<1>9. CASE OcrDone
  <2>1. pc = "return" /\ step = "ocr" /\ UNCHANGED packetVars /\ ccs' = stat.b6
        /\ NextPacket("cid")
    BY <1>9 DEF OcrDone, Returned
  <2>2. stat.b6 = CapacityBit /\ stat.top > 1
    BY <2>1, <1>1 DEF CapacityLearned
  <2> QED
    BY <2>1, <2>2, <1>1, <1>2, InitPacketStore DEF PoweredUp
<1>10. CASE CidDone
  <2>1. pc = "return" /\ step = "cid" /\ UNCHANGED packetVars /\ ccs' = ccs
        /\ NextPacket("app")
    BY <1>10 DEF CidDone, Returned, sdVars
  <2> QED
    BY <2>1, <1>1, <1>2, InitPacketStore DEF PoweredUp, CapacityLearned
<1>11. CASE CsdDone
  <2>1. pc = "return" /\ step = "csd" /\ UNCHANGED packetVars /\ ccs' = ccs
    BY <1>11 DEF CsdDone, Returned, sdVars
  <2>2. InitFails \/ (~(stat.top > 1) /\ (NextPacket("len") \/ InitSucceeds))
    BY <1>11, Zenon DEF CsdDone
  <2>3. Awake /\ ccs = CapacityBit /\ (~(stat.top > 1) => cstate = "ready")
    BY <2>1, <1>1 DEF PoweredUp, Awake, CapacityLearned
  <2> QED
    BY <2>1, <2>2, <2>3, <1>2, <1>3, <1>4, InitPacketStore
<1>12. CASE LenDone
  <2>1. pc = "return" /\ step = "len" /\ UNCHANGED packetVars /\ ccs' = ccs /\ InitSucceeds
    BY <1>12 DEF LenDone, Returned, sdVars
  <2> QED
    BY <2>1, <1>1, <1>4, InitPacketStore DEF CapacityLearned
<1> QED
  BY <1>5, <1>6, <1>7, <1>8, <1>9, <1>10, <1>11, <1>12

LEMMA BlockDoneStore == Whole /\ BlockDone => StoreInv'
<1> SUFFICES ASSUME Whole, BlockDone PROVE StoreInv'
  OBVIOUS
<1>1. /\ CardTypeOK /\ CallTypeOK /\ ControlTypeOK /\ Link
      /\ Calling /\ PoweredUp /\ Mounted /\ Programming /\ Progress
  BY WholeParts
<1>2. /\ pc = "return" /\ step = "block"
      /\ UNCHANGED <<kind, cstate, line, prog, mem, call, got, mounted, timeout, ccs, step>>
  BY DEF BlockDone, Returned, Return, packetVars, sdVars, cardVars
<1>3. pc' = "idle" \/ (~timeout /\ i' = i + 1 /\ pc' = "send" /\ ret' = ret)
  BY Zenon DEF BlockDone, Return
<1>4. line = <<>> /\ Len(line) = 0 /\ ~Busy /\ ~Busy'
  BY <1>1, <1>2 DEF Link, Quiet, Silent, Programming, Busy
<1>5. Programming' /\ Progress'
  <2>1. CASE pc' = "idle"
    BY <2>1, <1>4, OutsideCall DEF InCall
  <2>2. CASE ~timeout /\ i' = i + 1 /\ pc' = "send" /\ ret' = ret
    <3>1. Passed = i + 1 /\ Passed' = i + 1
      BY <2>2, <1>2 DEF Passed
    <3>2. Progress'
      BY <3>1, <2>2, <1>1, <1>2 DEF Progress, InCall
    <3>3. Programming'
      BY <2>2, <1>2, <1>4 DEF Programming
    <3> QED
      BY <3>2, <3>3
  <2> QED
    BY <2>1, <2>2, <1>3
<1> QED
  BY <1>1, <1>2, <1>3, <1>4, <1>5
  DEF StoreInv, Calling, PoweredUp, CapacityLearned, Mounted, InCall, CapacityKnown
-----------------------------------------------------------------------------
LEMMA InitWhole == Init => Whole
<1> SUFFICES ASSUME Init PROVE Whole
  OBVIOUS
<1>1. IInv
  BY InitIInv
<1>2. Addressing /\ StoreInv
  BY DEF Init, Addressing, StoreInv, Calling, PoweredUp, CapacityLearned, Mounted, InCall,
     Programming, Progress, Busy
<1> QED
  BY <1>1, <1>2 DEF Whole

LEMMA NextWhole == Reliable /\ Whole /\ [Next]_vars => Whole'
<1> SUFFICES ASSUME Reliable, Whole, [Next]_vars PROVE Whole'
  OBVIOUS
<1>1. IInv' /\ Addressing'
  BY NextIInv, NextAddressing DEF Whole
<1>2. StoreInv'
  <2>1. CASE Card
    <3>1. ~CardRemoved
      BY WholeParts DEF CardRemoved, CardTypeOK, Reliable
    <3> QED
      BY <2>1, <3>1, CardAnswersStore, CardSendsBlockStore, CardProgrammedStore, CardInsertedStore
      DEF Card
  <2>2. CASE Packet
    <3>1. ~BusyTakenForHeader
      BY WholeParts DEF BusyTakenForHeader, Programming
    <3> QED
      BY <2>2, <3>1, SendCommandStore, AwaitStore, ReceiveHeaderStore, ReceiveBlockStore,
         PutBlockStore, ProgrammedStore DEF Packet
  <2>3. CASE Driver /\ ~Packet
    BY <2>3, DetectStore, InitStore, BlockDoneStore DEF Driver
  <2>4. CASE Invoke
    BY <2>4, InvokeStore
  <2>5. CASE UNCHANGED vars
    BY <2>5, StoreInvKept DEF Whole, vars, packetVars
  <2> QED
    BY <2>1, <2>2, <2>3, <2>4, <2>5 DEF Next
<1> QED
  BY <1>1, <1>2 DEF Whole
-----------------------------------------------------------------------------
(* The refinement mapping.                                                 *)

(* The sectors of the call that ends are on the card and hold the data.    *)
AllDone(data) ==
  /\ DOMAIN data = 1..call.n
  /\ \A j \in 1..call.n :
       call.lba + j - 1 \in Blocks /\ mem[call.lba + j - 1] = data[j]

LEMMA SuccessMaps ==
  ASSUME pc # "idle", pc' = "idle", ret' = "OK", mem' = mem, call.op # "none",
         \/ call.op = "init"
         \/ call.op = "write" /\ AllDone(call.data)
         \/ call.op = "read" /\ AllDone(got')
  PROVE  Store!Succeed
  BY DEF AllDone, Blocks, Store!Succeed, Store!Holds, Store!Nothing, Store!Sectors

LEMMA FailureMaps ==
  ASSUME pc # "idle", pc' = "idle", ret' \notin {"NONE", "OK"}, mem' = mem, call.op # "none"
  PROVE  Store!Fail
  BY DEF Store!Fail, Store!Nothing

LEMMA BlockDoneMaps ==
  Whole /\ BlockDone => Store!Succeed \/ Store!Fail \/ UNCHANGED Store!vars
<1> SUFFICES ASSUME Whole, BlockDone PROVE Store!Succeed \/ Store!Fail \/ UNCHANGED Store!vars
  OBVIOUS
<1>1. CallTypeOK /\ Registers /\ Calling /\ Progress
  BY WholeParts
<1>2. /\ pc = "return" /\ step = "block" /\ UNCHANGED <<mem, call, got>>
  BY DEF BlockDone, Returned, Return, cardVars
<1>3. \/ ret' = "TIMEOUT" /\ pc' = "idle"
      \/ ~timeout /\ i + 1 = call.n /\ ret' = "OK" /\ pc' = "idle"
      \/ ret' = ret /\ pc' = "send"
  BY Zenon DEF BlockDone, Return
<1>4. call.op \in {"read", "write"} /\ call.n \in Nat
  BY <1>1, <1>2, CallFacts DEF Registers, CallTypeOK
<1>5. CASE ret' = "TIMEOUT" /\ pc' = "idle"
  BY <1>2, <1>4, <1>5, FailureMaps
<1>6. CASE ~timeout /\ i + 1 = call.n /\ ret' = "OK" /\ pc' = "idle"
  <2>1. Passed = call.n /\ InCall
    BY <1>2, <1>6 DEF Passed, InCall
  <2>2. call.op = "write" => AllDone(call.data)
    BY <2>1, <1>1, CallFacts DEF Progress, AllDone, CallTypeOK
  <2>3. call.op = "read" => AllDone(got')
    <3>1. call.op = "read" => DOMAIN got = 1..call.n
      BY <2>1, <1>1, <1>4 DEF Progress, CallTypeOK
    <3> QED
      BY <3>1, <2>1, <1>1, <1>2 DEF Progress, AllDone
  <2> QED
    BY <2>2, <2>3, <1>2, <1>4, <1>6, SuccessMaps
<1>7. CASE ret' = ret /\ pc' = "send"
  BY <1>1, <1>2, <1>7 DEF Calling, Store!vars
<1> QED
  BY <1>3, <1>5, <1>6, <1>7

(* Storing is the only step of a card that the callers can see.            *)
LEMMA CardMaps == Reliable /\ Whole /\ Card => Store!Store \/ UNCHANGED Store!vars
<1> SUFFICES ASSUME Reliable, Whole, Card PROVE Store!Store \/ UNCHANGED Store!vars
  OBVIOUS
<1>1. CardTypeOK /\ CallTypeOK /\ Registers /\ Programming
  BY WholeParts
<1>2. UNCHANGED <<pc, call, got, ret>>
  BY DEF Card, CardAnswers, CardSendsBlock, CardProgrammed, CardRemoved, CardInserted, callVars
<1>3. CASE CardProgrammed
  <2>1. /\ Busy /\ mem' = [mem EXCEPT ![prog.block] = prog.val]
    BY <1>3 DEF CardProgrammed, Written
  <2>2. /\ pc # "idle" /\ step = "block" /\ call.op = "write"
        /\ prog = [block |-> call.lba + i, val |-> call.data[i + 1]]
    BY <2>1, <1>1 DEF Programming
  <2>3. /\ i + 1 \in 1..call.n /\ call.lba + (i + 1) - 1 = call.lba + i
        /\ call.lba + i \in Blocks
    <3>1. prog \in [block : Blocks, val : Data]
      BY <2>1, <1>1 DEF CardTypeOK, Busy
    <3>2. i < call.n /\ i \in Nat /\ call.n \in Nat /\ call.lba \in Nat
      BY <2>2, <1>1, CallFacts DEF Registers, CallTypeOK
    <3> QED
      BY <3>1, <3>2, <2>2
  <2>4. mem' = [mem EXCEPT ![call.lba + (i + 1) - 1] = call.data[i + 1]]
    BY <2>1, <2>2, <2>3
  <2> QED
    BY <2>2, <2>3, <2>4, <1>2 DEF Blocks, Store!Store, Store!Sectors
<1>4. CASE ~CardProgrammed
  <2>1. mem' = mem
    BY <1>1, <1>4 DEF Card, CardAnswers, CardSendsBlock, CardRemoved, CardInserted, CardTypeOK, Reliable
  <2> QED
    BY <2>1, <1>2 DEF Store!vars
<1> QED
  BY <1>3, <1>4

LEMMA PacketMaps == Whole /\ Packet => UNCHANGED Store!vars
<1> SUFFICES ASSUME Whole, Packet PROVE UNCHANGED Store!vars
  OBVIOUS
<1>1. Calling /\ Programming
  BY WholeParts
<1>2. pc # "idle" /\ pc' # "idle" /\ UNCHANGED <<mem, call, ret>>
  <2>1. CASE SendCommand
    BY <2>1 DEF SendCommand, callVars
  <2>2. CASE PacketFails /\ pc \in {"header", "data", "put", "busy", "verify"}
    BY <2>2 DEF PacketFails, Deselect, cardRest, callVars
  <2>3. CASE (\E limit \in {PollMax, PollMax + 1} : PollAgain(limit))
             /\ pc \in {"header", "data", "put", "busy", "verify"}
    BY <2>3 DEF PollAgain, cardVars, callVars
  <2>4. CASE ReceiveHeader
    BY <2>4 DEF ReceiveHeader, HeaderReceived, callVars
  <2>5. CASE BusyTakenForHeader
    BY <2>5, <1>1 DEF BusyTakenForHeader, Programming
  <2>6. CASE ReceiveBlock
    BY <2>6 DEF ReceiveBlock, Deselect, cardRest
  <2>7. CASE PutBlock /\ ~PacketFails
    BY <2>7 DEF PutBlock, callVars
  <2>8. CASE Programmed
    BY <2>8 DEF Programmed, Deselect, cardRest, cardVars, callVars
  <2> QED
    BY <2>1, <2>2, <2>3, <2>4, <2>5, <2>6, <2>7, <2>8
    DEF Packet, AwaitHeader, AwaitData, AwaitProgrammed, PutBlock
<1>3. ret = "NONE" /\ ret' = "NONE"
  BY <1>1, <1>2 DEF Calling
<1> QED
  BY <1>2, <1>3 DEF Store!vars

LEMMA InitSequenceMaps ==
  Whole /\ Driver /\ ~Packet /\ ~BlockDone =>
    Store!Succeed \/ Store!Fail \/ UNCHANGED Store!vars
<1> SUFFICES ASSUME Whole, Driver, ~Packet, ~BlockDone
             PROVE  Store!Succeed \/ Store!Fail \/ UNCHANGED Store!vars
  OBVIOUS
<1>1. Calling /\ mem' = mem
  BY WholeParts
  DEF Driver, Detect, ResetDone, InterfaceDone, AppDone, OpCondDone, OcrDone, CidDone,
      CsdDone, LenDone, NextPacket, InitFails, InitSucceeds, Return, Deselect, cardRest, cardVars
<1>2. pc \in {"detect", "return"} /\ step # "block" /\ call' = call
  BY <1>1
  DEF Driver, Detect, ResetDone, InterfaceDone, AppDone, OpCondDone, OcrDone, CidDone,
      CsdDone, LenDone, NextPacket, InitFails, InitSucceeds, Return, Returned, Calling, callVars
<1>3. \/ pc' = "idle" /\ ret' \in {"OK", "NOCARD", "FAILURE"}
      \/ pc' = "send" /\ ret' = ret
  BY DEF Driver, Detect, ResetDone, InterfaceDone, AppDone, OpCondDone, OcrDone, CidDone,
         CsdDone, LenDone, NextPacket, InitFails, InitSucceeds, Return, callVars
<1>4. call.op = "init" /\ ret = "NONE" /\ pc # "idle"
  BY <1>1, <1>2 DEF Calling
<1>5. CASE pc' = "idle" /\ ret' = "OK"
  BY <1>1, <1>4, <1>5, SuccessMaps
<1>6. CASE pc' = "idle" /\ ret' \in {"NOCARD", "FAILURE"}
  BY <1>1, <1>4, <1>6, FailureMaps
<1>7. CASE pc' = "send" /\ ret' = ret
  BY <1>1, <1>2, <1>4, <1>7 DEF Store!vars
<1> QED
  BY <1>3, <1>5, <1>6, <1>7

LEMMA InvokeMaps == Whole /\ Invoke => Store!Invoke
<1> SUFFICES ASSUME Whole, Invoke PROVE Store!Invoke
  OBVIOUS
<1>1. /\ pc = "idle" /\ pc' \in {"detect", "send"} /\ call' \in Calls /\ ret' = "NONE"
      /\ mem' = mem
  BY DEF Invoke, cardVars
<1> QED
  BY <1>1 DEF Store!Invoke, Store!Nothing

(* As long as the few things in Reliable hold, the driver is a sector      *)
(* store: a call that reports success did what it was asked, and a failed  *)
(* write touched only sectors of its range (diskio.c:91, disk_write).      *)
THEOREM ImplementsStore == ASSUME Reliable PROVE Spec => StoreImplemented
<1>1. Init => Store!Init
  BY DEF Init, Blocks, Store!Init, Store!Nothing, Store!Sectors
<1>2. Whole /\ [Next]_vars => [Store!Next]_(Store!vars)
  <2> SUFFICES ASSUME Whole, [Next]_vars PROVE [Store!Next]_(Store!vars)
    OBVIOUS
  <2>1. CASE Invoke
    BY <2>1, InvokeMaps DEF Store!Next
  <2>2. CASE Card
    BY <2>2, Reliable, CardMaps DEF Store!Next
  <2>3. CASE Packet
    BY <2>3, PacketMaps
  <2>4. CASE BlockDone
    BY <2>4, BlockDoneMaps DEF Store!Next
  <2>5. CASE Driver /\ ~Packet /\ ~BlockDone
    BY <2>5, InitSequenceMaps DEF Store!Next
  <2>6. CASE UNCHANGED vars
    BY <2>6 DEF vars, cardVars, callVars, Store!vars
  <2> QED
    BY <2>1, <2>2, <2>3, <2>4, <2>5, <2>6 DEF Next
<1>3. Whole /\ [Next]_vars => Whole'
  BY Reliable, NextWhole
<1> QED
  BY <1>1, <1>2, <1>3, InitWhole, PTL DEF Spec, StoreImplemented, Store!Spec
=============================================================================

------------------------------- MODULE SdCard -------------------------------
(***************************************************************************)
(* The SD card driver (INC/sgclib/sdcard_packet.c) against the card at the *)
(* other end of the SPI lines.  sdc_sendpacket bit-bangs one command: it   *)
(* selects the card, sends the command, polls for the start bit of the     *)
(* answer, then for the data or for the end of the programming, each loop  *)
(* with its own limit.  sdc_init runs the power-up sequence packet by      *)
(* packet, sdc_read_multiple_blocks and sdc_write_multiple_blocks one      *)
(* single-block packet per sector.                                         *)
(*                                                                         *)
(* The card is external, modelled from what the driver expects of it: it   *)
(* answers whenever it likes, or not at all, holds the line low while it   *)
(* programs, may refuse or fail, and may be pulled out.  A card that is    *)
(* deselected drops what it was about to say, but not what it programs.    *)
(*                                                                         *)
(* Bits and CRCs are left out; an answer is one item on the line.  The     *)
(* multi-block commands of sdc_sendpacket have no caller and are left out. *)
(***************************************************************************)
EXTENDS Naturals, Sequences

CONSTANTS
  Data,          \* what a sector may hold
  Garbage,       \* a block received when the card did not send one
  CardBlocks,    \* number of sectors of the card
  BlockSize,     \* SDC_BLOCK_SIZE
  WordSize,      \* one more than the largest unsigned long
  PollMax,       \* SDC_POLL_COUNTMAX
  OpCondTries,   \* iterations of the ACMD41/CMD1 loop
  Kinds,         \* the kinds of card that may be inserted
  BootStates,    \* the states the card may be in when the program starts
  Prompt,        \* the commands a card that received them answers in time
  TokenErrors,   \* TRUE: a read may be answered with a data error token
  SlowWrites,    \* TRUE: a card may program longer than the driver waits
  RawAccess,     \* TRUE: callers transfer without a card initialised (raw erase)
  Ranges,        \* the ranges of sectors callers ask for: <<lba, count>>
  MaxSwaps       \* bound: how often the card is pulled out

Commands == {0, 1, 8, 9, 10, 16, 17, 24, 41, 55, 58}
AllKinds == {"mmc", "sd1", "sd2", "sdhc", "odd"}

ASSUME GeometryAssumption ==
  /\ CardBlocks \in Nat \ {0} /\ BlockSize \in Nat \ {0} /\ WordSize \in Nat \ {0, 1}
  /\ PollMax \in Nat /\ OpCondTries \in Nat \ {0} /\ MaxSwaps \in Nat
  /\ Garbage \notin Data
  /\ Ranges \subseteq (0..(WordSize - 1)) \X (Nat \ {0})

ASSUME CardAssumption ==
  /\ Kinds \subseteq AllKinds
  /\ BootStates \subseteq {"absent", "native", "ready"}
  /\ Prompt \subseteq Commands
  /\ TokenErrors \in BOOLEAN /\ SlowWrites \in BOOLEAN /\ RawAccess \in BOOLEAN

Blocks == 0..(CardBlocks - 1)
NoCommand == 100
NoJob == [op |-> "none", block |-> 0]
Idling == [block |-> CardBlocks]

Calls ==
  {[op |-> "init", lba |-> 0, n |-> 0, data |-> <<>>]}
    \cup {[op |-> "read", lba |-> r[1], n |-> r[2], data |-> <<>>] : r \in Ranges}
    \cup UNION {{[op |-> "write", lba |-> r[1], n |-> r[2], data |-> d] :
                   d \in [1..r[2] -> Data]} : r \in Ranges}

VARIABLES
  kind,      \* what card it is
  cstate,    \* its state: absent, native (not in SPI mode), idle, ready
  rx,        \* the command it has received and not answered, or NoCommand
  rxArg,     \* the argument of that command
  line,      \* what it has put on the line and the driver not yet read
  job,       \* the data transfer its last answer announced, or NoJob
  prog,      \* the sector it is programming and its data, or Idling
  mem,       \* what its sectors hold
  swaps,     \* how often it was pulled out
  pc,        \* where the driver is
  step,      \* which packet of sdc_init, or "block"
  call,      \* the call in progress, or the last one
  i,         \* the loop counter of the calls over several sectors
  got,       \* what a read has received so far
  ret,       \* what the last call returned
  mounted,   \* TRUE: the last sdc_init succeeded, so FatFs uses the card
  packet,    \* the command of the packet
  polls,     \* pollcnt
  tries,     \* iterations of the ACMD41/CMD1 loop done
  timeout,   \* packet_timeout
  stat,      \* stat_reg_buffer: R1, bit 6 of byte 1, structure bits, echo of CMD8
  ccs, ver2, mmc,
  cs,        \* TRUE: the card is selected
  green, red \* the LEDs

cardVars == <<kind, cstate, rx, rxArg, line, job, prog, mem, swaps>>
callVars == <<call, i, got, ret, mounted>>
packetVars == <<packet, polls, timeout, stat>>
sdVars == <<tries, ccs, ver2, mmc>>
ledVars == <<green, red>>
vars == <<cardVars, callVars, packetVars, sdVars, ledVars, pc, step, cs>>

Stats == [r1 : {0, 1, 5}, b6 : {0, 1}, top : 0..3, echo : BOOLEAN]
ZeroStat == [r1 |-> 0, b6 |-> 0, top |-> 0, echo |-> FALSE]

Item == [what : {"header", "data"}, of : Commands, stat : Stats, val : Data \cup {Garbage}]

(* The variables have their types. *)
TypeOK ==
  /\ kind \in AllKinds
  /\ cstate \in {"absent", "native", "idle", "ready"}
  /\ rx \in Commands \cup {NoCommand}
  /\ rxArg \in 0..(WordSize - 1)
  /\ line \in Seq(Item)
  /\ job \in [op : {"none", "read", "write"}, block : Blocks]
  /\ prog \in {Idling} \cup [block : Blocks, val : Data]
  /\ mem \in [Blocks -> Data]
  /\ swaps \in 0..MaxSwaps
  /\ pc \in {"idle", "detect", "send", "header", "data", "put", "busy", "verify", "return"}
  /\ step \in {"cmd0", "cmd8", "cmd55", "opcond", "ocr", "cid", "app", "csd", "len", "block"}
  /\ call \in Calls
  /\ i \in Nat
  /\ got \in Seq(Data \cup {Garbage})
  /\ ret \in {"NONE", "OK", "FAILURE", "NOCARD", "TIMEOUT"}
  /\ mounted \in BOOLEAN
  /\ packet \in Commands
  /\ polls \in 0..(PollMax + 1)
  /\ tries \in 0..OpCondTries
  /\ timeout \in BOOLEAN
  /\ stat \in Stats
  /\ ccs \in {0, 1} /\ ver2 \in {0, 1} /\ mmc \in {0, 1}
  /\ cs \in BOOLEAN /\ green \in BOOLEAN /\ red \in BOOLEAN

Init ==
  /\ kind \in Kinds /\ cstate \in BootStates
  /\ rx = NoCommand /\ rxArg = 0 /\ line = <<>> /\ job = NoJob /\ prog = Idling
  /\ mem \in [Blocks -> Data] /\ swaps = 0
  /\ pc = "idle" /\ step = "block"
  /\ call = [op |-> "init", lba |-> 0, n |-> 0, data |-> <<>>]
  /\ i = 0 /\ got = <<>> /\ ret = "NONE" /\ mounted = FALSE
  /\ packet = 0 /\ polls = 0 /\ tries = 0 /\ timeout = FALSE /\ stat = ZeroStat
  /\ ccs = 0 /\ ver2 = 0 /\ mmc = 0
  /\ cs = FALSE /\ green = FALSE /\ red = FALSE
-----------------------------------------------------------------------------
(* The card. *)

Busy == prog # Idling
Written == IF Busy THEN [mem EXCEPT ![prog.block] = prog.val] ELSE mem

InIdle == IF cstate = "idle" THEN 1 ELSE 0
R1(n) == {[ZeroStat EXCEPT !.r1 = n]}
Register(b6, tops) == [r1 : {0}, b6 : {b6}, top : tops, echo : {FALSE}]
(* R1 = 5 and then a line left high. *)
Refused == {[r1 |-> 5, b6 |-> 1, top |-> 3, echo |-> FALSE]}

IsTransfer(c) == c \in {17, 24}

(* The sector a transfer is about: high-capacity cards count sectors, the  *)
(* others bytes, and refuse an address inside a sector.                    *)
Addressed ==
  IF kind = "sdhc" THEN {b \in Blocks : b = rxArg} ELSE {b \in Blocks : b * BlockSize = rxArg}

CsdStructure ==
  CASE kind = "sdhc" -> {1} [] kind = "mmc" -> 0..3 [] OTHER -> {0}

(* What the card may answer to the command it received. *)
Answers == {s \in Stats :
  \/ rx = 0 /\ s \in R1(1)
  \/ rx = 8 /\ kind \in {"mmc", "sd1"} /\ s \in Refused
  \/ rx = 8 /\ kind \notin {"mmc", "sd1"}
       /\ s = [r1 |-> InIdle, b6 |-> 0, top |-> 0, echo |-> kind # "odd"]
  \/ rx = 55 /\ s \in R1(IF kind = "mmc" THEN 5 ELSE InIdle)
  \/ rx = 41 /\ s \in R1(5)
  \/ rx \in {1, 41} /\ ~(rx = 41 /\ kind = "mmc")
       /\ IF kind = "sdhc" /\ cstate = "idle" /\ rxArg = 0
          THEN s \in R1(1) \cup R1(5)
          ELSE s \in R1(0) \cup R1(InIdle)
  \/ rx = 58 /\ s = [r1 |-> InIdle, top |-> 2, echo |-> FALSE,
                     b6 |-> IF kind = "sdhc" /\ cstate = "ready" THEN 1 ELSE 0]
  \/ rx = 16 /\ s \in R1(InIdle)
  \/ rx \in {9, 10, 17, 24} /\ cstate = "idle" /\ s \in Refused
  \/ rx = 10 /\ cstate # "idle" /\ s \in Register(1, 0..3)
  \/ rx = 9  /\ cstate # "idle" /\ s \in Register(1, CsdStructure)
  \/ IsTransfer(rx) /\ cstate # "idle"
       /\ s \in (IF Addressed = {} THEN Refused ELSE R1(0))}

CardAnswers ==
  /\ rx # NoCommand
  /\ \E s \in Answers :
       /\ line' = Append(line, [what |-> "header", of |-> rx, stat |-> s, val |-> Garbage])
       /\ cstate' = IF rx = 0 THEN "idle"
                    ELSE IF rx \in {1, 41} /\ s.r1 = 0 THEN "ready" ELSE cstate
       /\ job' = IF IsTransfer(rx) /\ s.r1 = 0
                 THEN [op |-> IF rx = 17 THEN "read" ELSE "write",
                       block |-> CHOOSE b \in Addressed : TRUE]
                 ELSE NoJob
  /\ rx' = NoCommand
  /\ UNCHANGED <<kind, rxArg, prog, mem, swaps, callVars, packetVars, sdVars, ledVars,
                 pc, step, cs>>

(* The data of a read, or an error token and whatever the line carries.    *)
CardSendsBlock ==
  /\ job.op = "read"
  /\ \E v \in {mem[job.block]} \cup (IF TokenErrors THEN {Garbage} ELSE {}) :
       line' = Append(line, [what |-> "data", of |-> 17, stat |-> ZeroStat, val |-> v])
  /\ job' = NoJob
  /\ UNCHANGED <<kind, cstate, rx, rxArg, prog, mem, swaps, callVars, packetVars, sdVars,
                 ledVars, pc, step, cs>>

CardProgrammed ==
  /\ Busy
  /\ mem' = Written /\ prog' = Idling
  /\ UNCHANGED <<kind, cstate, rx, rxArg, line, job, swaps, callVars, packetVars, sdVars,
                 ledVars, pc, step, cs>>

(* Pulled out: a sector being programmed is stored or not. *)
CardRemoved ==
  /\ cstate # "absent" /\ swaps < MaxSwaps
  /\ cstate' = "absent" /\ swaps' = swaps + 1
  /\ rx' = NoCommand /\ line' = <<>> /\ job' = NoJob /\ prog' = Idling
  /\ mem' \in {mem, Written}
  /\ UNCHANGED <<kind, rxArg, callVars, packetVars, sdVars, ledVars, pc, step, cs>>

CardInserted ==
  /\ cstate = "absent"
  /\ cstate' = "native" /\ kind' \in Kinds
  /\ UNCHANGED <<rx, rxArg, line, job, prog, mem, swaps, callVars, packetVars, sdVars,
                 ledVars, pc, step, cs>>

Card == CardAnswers \/ CardSendsBlock \/ CardProgrammed \/ CardRemoved \/ CardInserted
-----------------------------------------------------------------------------
(* sdc_sendpacket. *)

cardRest == <<kind, cstate, rxArg, prog, mem, swaps>>

(* Chip select goes up: the card drops what it was about to say. *)
Deselect ==
  /\ cs' = FALSE
  /\ line' = <<>> /\ rx' = NoCommand /\ job' = NoJob
  /\ UNCHANGED cardRest

CommandOf ==
  CASE step = "cmd0" -> 0 [] step = "cmd8" -> 8 [] step \in {"cmd55", "app"} -> 55
    [] step = "opcond" -> (IF mmc = 1 THEN 1 ELSE 41)
    [] step = "ocr" -> 58 [] step = "cid" -> 10 [] step = "csd" -> 9 [] step = "len" -> 16
    [] OTHER -> (IF call.op = "read" THEN 17 ELSE 24)

(* Mutant: every sector is sent to the address of the first. *)
ArgumentOfFirst ==
  CASE step = "block" -> (call.lba * (IF ccs = 0 THEN BlockSize ELSE 1)) % WordSize
    [] step = "opcond" /\ mmc = 0 -> ver2
    [] OTHER -> 0

(* The argument; of the constant ones only that they are there. *)
Argument ==
  CASE step = "block" -> ((call.lba + i) * (IF ccs = 0 THEN BlockSize ELSE 1)) % WordSize
    [] step = "opcond" /\ mmc = 0 -> ver2
    [] OTHER -> 0

Hears(command) ==
  /\ ~Busy
  /\ cstate \in {"idle", "ready"} \/ (cstate = "native" /\ command = 0)

SendCommand ==
  /\ pc = "send"
  /\ green' = TRUE /\ cs' = TRUE
  /\ packet' = CommandOf
  /\ timeout' = FALSE /\ stat' = [stat EXCEPT !.r1 = 0] /\ polls' = 0
  /\ IF Hears(CommandOf)
     THEN rx' = CommandOf /\ rxArg' = Argument /\ job' = NoJob
     ELSE UNCHANGED <<rx, rxArg, job>>
  /\ pc' = "header"
  /\ UNCHANGED <<kind, cstate, line, prog, mem, swaps, callVars, sdVars, red, step>>

(* Mutant: the card stays selected when a loop gives up. *)
PacketFailsSelected ==
  /\ timeout' = TRUE /\ red' = TRUE
  /\ pc' = "return"
  /\ UNCHANGED <<cardVars, cs, callVars, packet, polls, stat, sdVars, green, step>>

(* A polling loop gives up: what every error exit of sdc_sendpacket does. *)
PacketFails ==
  /\ timeout' = TRUE /\ red' = TRUE /\ Deselect
  /\ pc' = "return"
  /\ UNCHANGED <<callVars, packet, polls, stat, sdVars, green, step>>

(* One more poll of a loop that allows `limit' of them. *)
PollAgain(limit) ==
  /\ polls < limit
  /\ polls' = polls + 1
  /\ UNCHANGED <<cardVars, callVars, packet, timeout, stat, sdVars, ledVars, pc, step, cs>>

(* The line is low when the card says something and while it programs. *)
LineHigh == line = <<>> /\ ~Busy

AwaitHeader ==
  /\ pc = "header" /\ LineHigh
  /\ \/ PollAgain(PollMax)
     \/ polls = PollMax /\ ~(rx = packet /\ packet \in Prompt) /\ PacketFails

Long(command) == command \in {8, 9, 10, 58}

HeaderReceived(s) ==
  /\ stat' = IF Long(packet) THEN s ELSE [stat EXCEPT !.r1 = s.r1]
  /\ polls' = 0
  /\ IF IsTransfer(packet)
     THEN pc' = (IF packet = 17 THEN "data" ELSE "put") /\ UNCHANGED green
     ELSE pc' = "return" /\ green' = FALSE
  /\ UNCHANGED <<callVars, packet, timeout, sdVars, red, step, cs>>

ReceiveHeader ==
  /\ pc = "header" /\ line # <<>>
  /\ line' = Tail(line)
  /\ HeaderReceived(Head(line).stat)
  /\ UNCHANGED <<kind, cstate, rx, rxArg, job, prog, mem, swaps>>

(* The driver takes the low line of a programming card for an answer: all  *)
(* zeroes, or anything when the programming ends in the middle of it.      *)
BusyTakenForHeader ==
  /\ pc = "header" /\ Busy
  /\ UNCHANGED <<kind, cstate, rx, rxArg, line, job, swaps>>
  /\ \/ HeaderReceived(ZeroStat) /\ UNCHANGED <<prog, mem>>
     \/ /\ \E s \in Stats : ~s.echo /\ HeaderReceived(s)
        /\ prog' = Idling /\ mem' = Written

AwaitData ==
  /\ pc = "data" /\ LineHigh
  /\ \/ PollAgain(PollMax)
     \/ polls = PollMax /\ ~(rx = packet /\ packet \in Prompt) /\ PacketFails

(* A start bit: the block is received, whatever it is, and the packet ends. *)
ReceiveBlock ==
  /\ pc = "data" /\ ~LineHigh
  /\ got' = Append(got, IF Busy THEN Garbage ELSE Head(line).val)
  /\ Deselect
  /\ green' = FALSE /\ pc' = "return"
  /\ UNCHANGED <<call, i, ret, mounted, packetVars, sdVars, red, step>>

(* The block is sent; a card that expects it takes or rejects it, and one  *)
(* that does not leaves the line alone, which reads as a rejection.        *)
PutBlock ==
  /\ pc = "put"
  /\ \/ /\ job.op = "write" /\ ~Busy
        /\ prog' = [block |-> job.block, val |-> call.data[i + 1]]
        /\ job' = NoJob
        /\ pc' = "busy" /\ polls' = 0
        /\ UNCHANGED <<kind, cstate, rx, rxArg, line, mem, swaps, callVars, packet, timeout,
                       stat, sdVars, ledVars, step, cs>>
     \/ PacketFails

(* Waiting for the end of the programming, before and after the card is    *)
(* deselected and selected again.                                          *)
AwaitProgrammed ==
  /\ pc \in {"busy", "verify"} /\ Busy
  /\ \/ PollAgain(PollMax + 1)
     \/ polls = PollMax + 1 /\ SlowWrites /\ PacketFails

Programmed ==
  /\ pc \in {"busy", "verify"} /\ ~Busy
  /\ polls' = 0
  /\ IF pc = "busy"
     THEN pc' = "verify" /\ UNCHANGED <<cardVars, cs, green>>
     ELSE pc' = "return" /\ Deselect /\ green' = FALSE
  /\ UNCHANGED <<callVars, packet, timeout, stat, sdVars, red, step>>
-----------------------------------------------------------------------------
(* The calls. *)

(* A caller asks for something: FatFs, which transfers sectors only after  *)
(* disk_initialize succeeded, or EraseRawRange, which does not look.       *)
Invoke ==
  /\ pc = "idle"
  /\ call' \in Calls
  /\ call'.op # "init" => mounted \/ RawAccess
  /\ mounted' = (mounted /\ call'.op # "init")
  /\ i' = 0 /\ got' = <<>> /\ ret' = "NONE"
  /\ pc' = IF call'.op = "init" THEN "detect" ELSE "send"
  /\ step' = IF call'.op = "init" THEN "cmd0" ELSE "block"
  /\ UNCHANGED <<cardVars, packetVars, sdVars, ledVars, cs>>

Return(result) ==
  /\ ret' = result /\ pc' = "idle"
  /\ UNCHANGED <<call, got, step>>

(* sdc_init clears the driver's state, the card capacity bit included.     *)
Detect ==
  /\ pc = "detect"
  /\ ccs' = 0 /\ ver2' = 0 /\ mmc' = 0 /\ tries' = 0
  /\ stat' = ZeroStat /\ timeout' = FALSE
  /\ IF cstate = "absent"
     THEN Return("NOCARD") /\ UNCHANGED <<cs, green, red>>
     ELSE /\ pc' = "send" /\ cs' = TRUE /\ green' = TRUE /\ red' = TRUE
          /\ UNCHANGED <<call, got, ret, step>>
  /\ UNCHANGED <<cardVars, i, mounted, packet, polls>>

NextPacket(s) ==
  /\ step' = s /\ pc' = "send"
  /\ UNCHANGED <<cardVars, callVars, cs, ledVars>>

InitFails ==
  /\ Return("FAILURE") /\ Deselect
  /\ green' = FALSE /\ red' = TRUE
  /\ UNCHANGED <<i, mounted>>

InitSucceeds ==
  /\ Return("OK") /\ Deselect
  /\ green' = FALSE /\ red' = FALSE
  /\ mounted' = TRUE
  /\ UNCHANGED i

Returned(s) == pc = "return" /\ step = s /\ UNCHANGED packetVars

NoAnswer == timeout \/ stat.r1 # 1

ResetDone ==
  /\ Returned("cmd0")
  /\ IF NoAnswer THEN InitFails ELSE NextPacket("cmd8")
  /\ UNCHANGED sdVars

InterfaceDone ==
  /\ Returned("cmd8")
  /\ IF NoAnswer \/ stat.echo
     THEN NextPacket("cmd55") /\ ver2' = IF NoAnswer THEN 0 ELSE 1
     ELSE InitFails /\ UNCHANGED ver2
  /\ mmc' = 0 /\ tries' = 0
  /\ UNCHANGED ccs

AppDone ==
  /\ \/ Returned("cmd55") /\ NextPacket("opcond")
     \/ Returned("app") /\ NextPacket("csd")
  /\ UNCHANGED sdVars

(* Mutant: the loop has no limit. *)
OpCondUnbounded ==
  /\ Returned("opcond")
  /\ IF ~timeout /\ stat.r1 = 0
     THEN NextPacket("ocr") /\ UNCHANGED <<tries, mmc>>
     ELSE tries' = tries + 1 /\ NextPacket("cmd55") /\ UNCHANGED mmc
  /\ UNCHANGED <<ccs, ver2>>

(* One iteration of the ACMD41/CMD1 loop: a first failure of a version 1   *)
(* card is answered with CMD1, and running out of tries is no failure.     *)
OpCondDone ==
  /\ Returned("opcond")
  /\ IF ~timeout /\ stat.r1 = 0
     THEN NextPacket("ocr") /\ UNCHANGED <<tries, mmc>>
     ELSE LET fallBack == tries = 0 /\ ver2 = 0
          IN IF ~fallBack /\ NoAnswer
             THEN InitFails /\ UNCHANGED <<tries, mmc>>
             ELSE /\ tries' = tries + 1
                  /\ mmc' = IF fallBack THEN 1 ELSE mmc
                  /\ NextPacket(IF tries + 1 = OpCondTries THEN "ocr"
                                ELSE IF mmc' = 1 THEN "opcond" ELSE "cmd55")
  /\ UNCHANGED <<ccs, ver2>>

(* The capacity bit is taken whether CMD58 was answered or not. *)
OcrDone ==
  /\ Returned("ocr")
  /\ ccs' = stat.b6
  /\ NextPacket("cid")
  /\ UNCHANGED <<tries, ver2, mmc>>

CidDone == Returned("cid") /\ NextPacket("app") /\ UNCHANGED sdVars

CsdDone ==
  /\ Returned("csd")
  /\ IF stat.top > 1 THEN InitFails
     ELSE IF ver2 = 1 THEN NextPacket("len") ELSE InitSucceeds
  /\ UNCHANGED sdVars

LenDone == Returned("len") /\ InitSucceeds /\ UNCHANGED sdVars

(* Mutants: the call goes on, or tries again, after a packet that failed.  *)
BlockDoneUnchecked ==
  /\ Returned("block")
  /\ i' = i + 1
  /\ UNCHANGED <<cardVars, cs, ledVars, sdVars, mounted>>
  /\ IF i + 1 = call.n THEN Return("OK")
     ELSE pc' = "send" /\ UNCHANGED <<call, got, ret, step>>

BlockDoneRetrying ==
  /\ Returned("block")
  /\ UNCHANGED <<cardVars, cs, ledVars, sdVars, mounted>>
  /\ IF timeout
     THEN pc' = "send" /\ UNCHANGED <<call, i, got, ret, step>>
     ELSE /\ i' = i + 1
          /\ IF i + 1 = call.n THEN Return("OK")
             ELSE pc' = "send" /\ UNCHANGED <<call, got, ret, step>>

BlockDone ==
  /\ Returned("block")
  /\ IF timeout THEN Return("TIMEOUT") /\ UNCHANGED <<i, cardVars, cs, ledVars>>
     ELSE /\ i' = i + 1
          /\ UNCHANGED <<cardVars, cs, ledVars>>
          /\ IF i + 1 = call.n THEN Return("OK")
             ELSE pc' = "send" /\ UNCHANGED <<call, got, ret, step>>
  /\ UNCHANGED <<sdVars, mounted>>

Packet ==
  \/ SendCommand \/ AwaitHeader \/ ReceiveHeader \/ BusyTakenForHeader
  \/ AwaitData \/ ReceiveBlock \/ PutBlock \/ AwaitProgrammed \/ Programmed

Driver ==
  \/ Detect \/ Packet
  \/ ResetDone \/ InterfaceDone \/ AppDone \/ OpCondDone \/ OcrDone \/ CidDone
  \/ CsdDone \/ LenDone \/ BlockDone

Next == Invoke \/ Driver \/ Card

(* The driver is a program that runs; of the card only that a card that    *)
(* received one of the Prompt commands gets to answer it.                  *)
Fairness ==
  /\ WF_vars(Driver)
  /\ WF_vars(CardAnswers /\ packet \in Prompt)

Spec == Init /\ [][Next]_vars /\ Fairness
-----------------------------------------------------------------------------
(* Properties. *)

(* What is on the line answers the packet the driver is in, and comes in   *)
(* the order it reads it: an answer that misses its packet is never taken  *)
(* for the answer to a later one (sdc_cs_deassert on every error exit).    *)
AnswersMatch ==
  line # <<>> =>
    /\ pc \in {"header", "data"}
    /\ \A k \in DOMAIN line : line[k].of = packet
    /\ Head(line).what = (IF pc = "header" THEN "header" ELSE "data")

(* Whichever way a call ends, the card is deselected and nothing of the    *)
(* call is pending on it (the exits of sdc_init and sdc_sendpacket).       *)
Released ==
  pc = "idle" => ~cs /\ line = <<>> /\ rx = NoCommand /\ job = NoJob

(* The driver knows how the card in the slot counts. *)
CapacityKnown == ccs = (IF kind = "sdhc" THEN 1 ELSE 0)

(* A card that agreed to a transfer transfers the sector the caller means: *)
(* byte addresses go to standard capacity cards, sector numbers to high    *)
(* capacity ones (sdcard_packet.c:857-871), as long as the capacity bit is *)
(* that of the card in the slot.                                           *)
RightBlock ==
  job # NoJob /\ CapacityKnown => job = [op |-> call.op, block |-> call.lba + i]

(* A read that reports success received what the card sent as data, not an *)
(* error token or the low line of a busy card (diskio.c:91: with RES_OK    *)
(* FatFS trusts and caches the buffer).                                    *)
ReadsAreTrue ==
  pc = "idle" /\ ret = "OK" => Garbage \notin {got[k] : k \in DOMAIN got}

(* The driver never waits for ever, whatever the card does: each loop has  *)
(* its own limit (SDC_POLL_COUNTMAX, the 5000 iterations of sdc_init).     *)
EveryCallReturns == pc # "idle" ~> pc = "idle"

(* As long as the card answers CMD58, programs in time and sends no error  *)
(* token, the driver is the sector store of BlockStore, however many other *)
(* commands go unanswered or are refused: a call that reports success did  *)
(* what it was asked, and a failed write touched only its own sectors.     *)
Store == INSTANCE BlockStore
  WITH media <- mem,
       call <- IF pc = "idle" THEN [op |-> "none"] ELSE call,
       answer <- IF ret = "NONE" THEN [op |-> "none"]
                 ELSE IF ret = "OK" THEN [op |-> "ok", data |-> got] ELSE [op |-> "failed"]

StoreImplemented == Store!Spec
=============================================================================

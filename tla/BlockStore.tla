----------------------------- MODULE BlockStore -----------------------------
(***************************************************************************)
(* What disk_read and disk_write promise FatFs (INC/fatfs/diskio.c): one   *)
(* call at a time on an array of sectors.  A call that reports success did *)
(* what it was asked; a call that reports failure may have stored some of  *)
(* the sectors it was to write, and touched no other sector.               *)
(***************************************************************************)
EXTENDS Naturals, Sequences

CONSTANTS
  Data,        \* what a sector may hold
  Calls,       \* the calls: [op, lba, n, data], data the n sectors of a write
  CardBlocks   \* number of sectors of the card

Sectors == 0..(CardBlocks - 1)

VARIABLES
  media,    \* what the sectors hold
  call,     \* the call in progress, or Nothing
  answer    \* what the last call returned, or Nothing while one is in progress

vars == <<media, call, answer>>

Nothing == [op |-> "none"]

Init ==
  /\ media \in [Sectors -> Data]
  /\ call = Nothing
  /\ answer = Nothing

Invoke ==
  /\ call = Nothing
  /\ call' \in Calls
  /\ answer' = Nothing
  /\ UNCHANGED media

(* One sector of a write in progress is stored. *)
Store ==
  /\ call.op = "write"
  /\ \E j \in 1..call.n :
       /\ call.lba + j - 1 \in Sectors
       /\ media' = [media EXCEPT ![call.lba + j - 1] = call.data[j]]
  /\ UNCHANGED <<call, answer>>

(* The sectors of the call are on the card and hold `data'. *)
Holds(data) ==
  /\ DOMAIN data = 1..call.n
  /\ \A j \in 1..call.n :
       call.lba + j - 1 \in Sectors /\ media[call.lba + j - 1] = data[j]

Succeed ==
  /\ call # Nothing
  /\ answer'.op = "ok"
  /\ \/ call.op = "init"
     \/ call.op = "write" /\ Holds(call.data)
     \/ call.op = "read" /\ Holds(answer'.data)
  /\ call' = Nothing
  /\ UNCHANGED media

Fail ==
  /\ call # Nothing
  /\ answer'.op = "failed"
  /\ call' = Nothing
  /\ UNCHANGED media

Next == Invoke \/ Store \/ Succeed \/ Fail

Spec == Init /\ [][Next]_vars
=============================================================================

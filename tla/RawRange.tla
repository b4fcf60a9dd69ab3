------------------------------ MODULE RawRange ------------------------------
(***************************************************************************)
(* Requests about raw sectors: HandleList and HandleRemove on the paths    *)
(* that start with "sdraw:" (INC/srl_devcart_sdcard_handlers.hpp), the     *)
(* parser of the range, TryParseRawRange and TryParseU32, one character at *)
(* a time (backend.hpp, utilities.hpp), and EraseRawRange with the raw     *)
(* file handle it writes through (lowlevel.hpp), one sector at a time.     *)
(*                                                                         *)
(* A path is what follows the prefix.  A character is a number: the value  *)
(* of the hex digit it is, or one of the names below.                      *)
(* The handle's file_size and bytes_written are never read and left out;   *)
(* the card is external: a sector write may fail, and does off the card.   *)
(***************************************************************************)
EXTENDS Integers, Sequences

CONSTANTS
  Paths,         \* the paths asked for
  WordMax,       \* 0xFFFFFFFF
  CardSectors    \* number of sectors of the card

ASSUME WordAssumption ==
  /\ WordMax \in Nat /\ WordMax >= 16
  /\ CardSectors \in Nat /\ CardSectors <= WordMax

Word == 0..WordMax
Digits == 0..15
X == 16          \* x or X
Colon == 17
Slash == 18
Backslash == 19
Other == 20
EndOfPath == 21  \* the terminating NUL
Chars == 0..20

ASSUME PathAssumption == Paths \subseteq Seq(Chars)

VARIABLES
  op,              \* the request: "list" or "remove"
  path,            \* its path
  pc,              \* number, digits, erase, done
  pos,             \* cursor
  base, parsed, consumed,
  startSector, sectorCount,  \* what TryParseRawRange found; -1: not yet
  current,         \* the handle's current_sector, or -1: not open
  i,               \* sectors written
  erased,          \* the sectors of the card that were zeroed
  status           \* of the response, or "none"

parserVars == <<pos, base, parsed, consumed, startSector, sectorCount>>
eraseVars == <<current, i, erased>>
vars == <<op, path, pc, parserVars, eraseVars, status>>

(* The variables have their types: every number fits the 32-bit word it is *)
(* kept in.                                                                *)
TypeOK ==
  /\ op \in {"list", "remove"}
  /\ path \in Seq(Chars)
  /\ pc \in {"number", "digits", "erase", "done"}
  /\ pos \in Nat \ {0}
  /\ base \in {10, 16}
  /\ parsed \in Word
  /\ consumed \in BOOLEAN
  /\ startSector \in Word \cup {-1} /\ sectorCount \in Word \cup {-1}
  /\ current \in Word \cup {-1}
  /\ i \in Word
  /\ erased \subseteq 0..(CardSectors - 1)
  /\ status \in {"none", "Ok", "Error", "BadRequest"}

At(k) == IF k \in 1..Len(path) THEN path[k] ELSE EndOfPath

IsRawRootPath(p) == p = <<Slash>>

Init ==
  /\ op \in {"list", "remove"} /\ path \in Paths
  /\ pos = 1 /\ base = 10 /\ parsed = 0 /\ consumed = FALSE
  /\ startSector = -1 /\ sectorCount = -1
  /\ current = -1 /\ i = 0 /\ erased = {}
  /\ pc = "number" /\ status = "none"

Answer(s) == status' = s /\ pc' = "done"

ListRoot ==
  /\ pc = "number" /\ pos = 1 /\ op = "list" /\ IsRawRootPath(path)
  /\ Answer("Ok")
  /\ UNCHANGED <<op, path, parserVars, eraseVars>>

(* TryParseU32 looks for the hex prefix. *)
BeginNumber ==
  /\ pc = "number"
  /\ ~(pos = 1 /\ IsRawRootPath(path))
  /\ LET hex == At(pos) = 0 /\ At(pos + 1) = X
     IN base' = (IF hex THEN 16 ELSE 10) /\ pos' = (IF hex THEN pos + 2 ELSE pos)
  /\ parsed' = 0 /\ consumed' = FALSE
  /\ pc' = "digits"
  /\ UNCHANGED <<op, path, startSector, sectorCount, eraseVars, status>>

RejectRoot ==
  /\ pc = "number" /\ pos = 1 /\ op = "remove" /\ IsRawRootPath(path)
  /\ Answer("BadRequest")
  /\ UNCHANGED <<op, path, parserVars, eraseVars>>

IsDigit(c) == c \in Digits /\ c < base

(* Mutant: the limit forgets the digit that is added. *)
OverflowsLoosely(d) == parsed > WordMax \div base

(* The next digit does not fit; a division of the word decides. *)
Overflows(d) == parsed > (WordMax - d) \div base

Digit ==
  /\ pc = "digits" /\ IsDigit(At(pos))
  /\ LET d == At(pos)
     IN IF Overflows(d)
        THEN Answer("BadRequest") /\ UNCHANGED <<pos, parsed, consumed>>
        ELSE /\ parsed' = parsed * base + d
             /\ consumed' = TRUE /\ pos' = pos + 1
             /\ UNCHANGED <<pc, status>>
  /\ UNCHANGED <<op, path, base, startSector, sectorCount, eraseVars>>

(* Mutant: whatever follows the second number is ignored. *)
EndNumberAnyTail ==
  /\ pc = "digits" /\ ~IsDigit(At(pos))
  /\ IF ~consumed \/ (startSector = -1 /\ At(pos) # Colon)
     THEN Answer("BadRequest") /\ UNCHANGED <<pos, startSector, sectorCount>>
     ELSE IF startSector = -1
     THEN /\ startSector' = parsed /\ pos' = pos + 1
          /\ pc' = "number"
          /\ UNCHANGED <<sectorCount, status>>
     ELSE /\ sectorCount' = parsed
          /\ IF parsed = 0 THEN Answer("BadRequest")
             ELSE IF op = "list" THEN Answer("Ok")
             ELSE pc' = "erase" /\ UNCHANGED status
          /\ UNCHANGED <<pos, startSector>>
  /\ UNCHANGED <<op, path, base, parsed, consumed, eraseVars>>

(* The number ends: the first at a colon, the second with the path; a      *)
(* count of zero is refused.                                               *)
EndNumber ==
  /\ pc = "digits" /\ ~IsDigit(At(pos))
  /\ LET ender == IF startSector = -1 THEN Colon ELSE EndOfPath
     IN IF ~consumed \/ At(pos) # ender
        THEN Answer("BadRequest") /\ UNCHANGED <<pos, startSector, sectorCount>>
        ELSE IF startSector = -1
        THEN /\ startSector' = parsed /\ pos' = pos + 1
             /\ pc' = "number"
             /\ UNCHANGED <<sectorCount, status>>
        ELSE /\ sectorCount' = parsed
             /\ IF parsed = 0 THEN Answer("BadRequest")
                ELSE IF op = "list" THEN Answer("Ok")
                ELSE pc' = "erase" /\ UNCHANGED status
             /\ UNCHANGED <<pos, startSector>>
  /\ UNCHANGED <<op, path, base, parsed, consumed, eraseVars>>

(* open: refused when the card is missing or write protected. *)
OpenRange ==
  /\ pc = "erase" /\ current = -1
  /\ \/ current' = startSector /\ UNCHANGED <<pc, status>>
     \/ Answer("Error") /\ UNCHANGED current
  /\ UNCHANGED <<op, path, parserVars, i, erased>>

Close == current' = -1

(* Mutants: one sector too many; the handle left open by a failed write.   *)
EraseSectorTooFar ==
  /\ pc = "erase" /\ current # -1 /\ i <= sectorCount
  /\ \/ /\ current < CardSectors
        /\ erased' = erased \cup {current}
        /\ current' = (current + 1) % (WordMax + 1)
        /\ i' = i + 1
        /\ UNCHANGED <<pc, status>>
     \/ Answer("Error") /\ Close /\ UNCHANGED <<i, erased>>
  /\ UNCHANGED <<op, path, parserVars>>

EraseSectorLeftOpen ==
  /\ pc = "erase" /\ current # -1 /\ i < sectorCount
  /\ \/ /\ current < CardSectors
        /\ erased' = erased \cup {current}
        /\ current' = (current + 1) % (WordMax + 1)
        /\ i' = i + 1
        /\ UNCHANGED <<pc, status>>
     \/ Answer("Error") /\ UNCHANGED <<current, i, erased>>
  /\ UNCHANGED <<op, path, parserVars>>

(* One sector is zeroed and the handle moves on, in 32 bits; or the write  *)
(* fails, and what was zeroed before stays zeroed.                         *)
EraseSector ==
  /\ pc = "erase" /\ current # -1 /\ i < sectorCount
  /\ \/ /\ current < CardSectors
        /\ erased' = erased \cup {current}
        /\ current' = (current + 1) % (WordMax + 1)
        /\ i' = i + 1
        /\ UNCHANGED <<pc, status>>
     \/ Answer("Error") /\ Close /\ UNCHANGED <<i, erased>>
  /\ UNCHANGED <<op, path, parserVars>>

(* Mutants: the last sector is forgotten; the loop has no end. *)
EraseDoneEarly ==
  /\ pc = "erase" /\ current # -1 /\ i + 1 >= sectorCount
  /\ Answer("Ok") /\ Close
  /\ UNCHANGED <<op, path, parserVars, i, erased>>

EraseDoneNever ==
  /\ pc = "erase" /\ current # -1 /\ i > sectorCount
  /\ Answer("Ok") /\ Close
  /\ UNCHANGED <<op, path, parserVars, i, erased>>

EraseDone ==
  /\ pc = "erase" /\ current # -1 /\ i = sectorCount
  /\ Answer("Ok") /\ Close
  /\ UNCHANGED <<op, path, parserVars, i, erased>>

Next ==
  \/ ListRoot \/ RejectRoot \/ BeginNumber \/ Digit \/ EndNumber
  \/ OpenRange \/ EraseSector \/ EraseDone

Spec == Init /\ [][Next]_vars /\ WF_vars(Next)
-----------------------------------------------------------------------------
(* The grammar of a range, <start>:<count>.  What the characters of p from *)
(* place a to the one before e are worth in base b, without any limit:     *)
Value(p, a, e, b) ==
  LET v[n \in 0..(e - a)] == IF n = 0 THEN 0 ELSE v[n - 1] * b + p[a + n - 1]
  IN v[e - a]

IsDecimal(p, a, e) == a < e /\ \A k \in a..(e - 1) : p[k] \in 0..9

IsHex(p, a, e) ==
  a + 2 < e /\ p[a] = 0 /\ p[a + 1] = X /\ \A k \in (a + 2)..(e - 1) : p[k] \in Digits

(* The numbers they may stand for: none, or one. *)
Numbers(p, a, e) ==
  IF IsDecimal(p, a, e) THEN {Value(p, a, e, 10)}
  ELSE IF IsHex(p, a, e) THEN {Value(p, a + 2, e, 16)} ELSE {}

(* The ranges a path may stand for: none, or one. *)
RangesOf(p) ==
  UNION {Numbers(p, 1, c) \X Numbers(p, c + 1, Len(p) + 1) :
           c \in {k \in 1..Len(p) : p[k] = Colon}}

Meant(p) == {r \in RangesOf(p) : r[1] <= WordMax /\ r[2] \in 1..WordMax}

(* The parser takes a path for the range it means, and refuses exactly the *)
(* paths that mean none, one that does not fit 32 bits, or no sector.      *)
ParsedAsMeant ==
  /\ pc = "erase" => <<startSector, sectorCount>> \in Meant(path)
  /\ status = "Ok" /\ ~IsRawRootPath(path) => <<startSector, sectorCount>> \in Meant(path)
  /\ status = "BadRequest" => Meant(path) = {}

Requested == {s \in 0..(CardSectors - 1) : startSector <= s /\ s < startSector + sectorCount}

(* Whatever fails, and wherever the 32-bit sector number of the handle     *)
(* goes, only sectors of the range are zeroed (EraseRawRange, write).      *)
ErasedInRange == erased \subseteq Requested

(* An erase that reports success zeroed every sector of a range that is on *)
(* the card from end to end.                                               *)
OkMeansErased ==
  op = "remove" /\ status = "Ok" =>
    /\ startSector + sectorCount <= CardSectors
    /\ erased = startSector..(startSector + sectorCount - 1)

(* Every exit of EraseRawRange closed the handle. *)
HandleClosed == pc = "done" => current = -1

(* The request is answered, whatever the path. *)
EventuallyAnswered == <>(pc = "done")
=============================================================================

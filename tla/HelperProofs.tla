---------------------------- MODULE HelperProofs ----------------------------
(***************************************************************************)
(* What is proved of the two helpers of the handlers that go through bytes *)
(* one at a time, the parser of a raw range and the checksum.              *)
(*                                                                         *)
(* Of RawRange, for every word size, card and set of paths: that every     *)
(* number fits its word, that an erase zeroes sectors of its range only,   *)
(* all of them when it reports success, and that the parser takes a path,  *)
(* however long, for the range it means and for no other.                  *)
(*                                                                         *)
(* Of Crc8, for messages of every length, made of any bytes, cut into any  *)
(* chunks and disturbed by any pattern: that each end has the CRC-8 of the *)
(* polynomial over all it has sent or received, and that no single         *)
(* disturbed byte goes unnoticed.                                          *)
(***************************************************************************)
EXTENDS RawRange, Crc8, NaturalRecursion, SequenceTheorems

(* The test by which TryParseU32 detects an overflow (utilities.hpp:70) is *)
(* exact: the digit is refused when, and only when, the new value does not *)
(* fit the word.                                                           *)
LEMMA OverflowTestExact ==
  ASSUME NEW p \in Word, NEW b \in {10, 16}, NEW d \in 0..(b - 1)
  PROVE  p > (WordMax - d) \div b <=> p * b + d > WordMax
<1>1. CASE b = 10
  BY <1>1, WordAssumption DEF Word
<1>2. CASE b = 16
  BY <1>2, WordAssumption DEF Word
<1> QED
  BY <1>1, <1>2
-----------------------------------------------------------------------------
LEMMA InitTypeOK == Init => TypeOK
<1>1. SUFFICES ASSUME Init PROVE TypeOK
  OBVIOUS
<1>2. path \in Seq(Chars)
  BY <1>1, PathAssumption DEF Init
<1>3. 0 \in Word
  BY WordAssumption DEF Word
<1>4. pos \in Nat \ {0} /\ base \in {10, 16} /\ parsed \in Word /\ i \in Word
  BY <1>1, <1>3 DEF Init
<1>5. startSector \in Word \cup {-1} /\ sectorCount \in Word \cup {-1} /\ current \in Word \cup {-1}
  BY <1>1 DEF Init
<1>6. /\ op \in {"list", "remove"} /\ pc \in {"number", "digits", "erase", "done"}
      /\ consumed \in BOOLEAN
      /\ erased \subseteq 0..(CardSectors - 1)
      /\ status \in {"none", "Ok", "Error", "BadRequest"}
  BY <1>1, Zenon DEF Init
<1> QED
  BY <1>2, <1>4, <1>5, <1>6 DEF TypeOK

LEMMA DigitTypeOK == TypeOK /\ Digit => TypeOK'
<1>1. SUFFICES ASSUME TypeOK, Digit PROVE TypeOK'
  OBVIOUS
<1> DEFINE d == At(pos)
<1>2. d \in 0..(base - 1) /\ base \in {10, 16} /\ parsed \in Word
  BY <1>1 DEF TypeOK, Digit, IsDigit, Digits
<1>3. CASE Overflows(d)
  BY <1>1, <1>3 DEF TypeOK, Digit, Answer, eraseVars
<1>4. CASE ~Overflows(d)
  <2>1. ~(parsed > (WordMax - d) \div base)
    BY <1>4 DEF Overflows
  <2>2. ~(parsed * base + d > WordMax)
    BY <1>2, <2>1, OverflowTestExact
  <2>3. parsed * base + d \in Word
    BY <1>2, <2>2, WordAssumption DEF Word
  <2>4. parsed' \in Word /\ consumed' \in BOOLEAN /\ pos' \in Nat \ {0}
    BY <1>1, <1>4, <2>3 DEF TypeOK, Digit
  <2> QED
    BY <1>1, <1>4, <2>4 DEF TypeOK, Digit, eraseVars
<1> QED
  BY <1>3, <1>4

LEMMA NextTypeOK == TypeOK /\ [Next]_vars => TypeOK'
<1>1. SUFFICES ASSUME TypeOK, [Next]_vars PROVE TypeOK'
  OBVIOUS
<1>2. CASE ListRoot
  BY <1>1, <1>2 DEF TypeOK, ListRoot, Answer, parserVars, eraseVars
<1>3. CASE RejectRoot
  BY <1>1, <1>3 DEF TypeOK, RejectRoot, Answer, parserVars, eraseVars
<1>4. CASE BeginNumber
  <2>1. 0 \in Word
    BY WordAssumption DEF Word
  <2>2. base' \in {10, 16} /\ pos' \in Nat \ {0}
    BY <1>1, <1>4 DEF TypeOK, BeginNumber
  <2> QED
    BY <1>1, <1>4, <2>1, <2>2 DEF TypeOK, BeginNumber, eraseVars
<1>5. CASE Digit
  BY <1>1, <1>5, DigitTypeOK
<1>6. CASE EndNumber
  BY <1>1, <1>6 DEF TypeOK, EndNumber, Answer, eraseVars
<1>7. CASE OpenRange
  BY <1>1, <1>7 DEF TypeOK, OpenRange, Answer, parserVars
<1>8. CASE EraseSector
  <2>1. CASE /\ current < CardSectors /\ current # -1 /\ i < sectorCount
             /\ erased' = erased \cup {current}
             /\ current' = (current + 1) % (WordMax + 1)
             /\ i' = i + 1
             /\ UNCHANGED <<pc, status>>
    <3>1. current \in 0..(CardSectors - 1) /\ i + 1 \in Word
      BY <1>1, <2>1, WordAssumption DEF TypeOK, Word
    <3>2. (current + 1) % (WordMax + 1) \in Word
      BY <1>1, <2>1, WordAssumption DEF TypeOK, Word
    <3> QED
      BY <1>1, <1>8, <2>1, <3>1, <3>2 DEF TypeOK, EraseSector, parserVars
  <2>2. CASE Answer("Error") /\ Close /\ UNCHANGED <<i, erased>>
    BY <1>1, <1>8, <2>2 DEF TypeOK, EraseSector, Answer, Close, parserVars
  <2> QED
    BY <1>8, <2>1, <2>2 DEF EraseSector
<1>9. CASE EraseDone
  BY <1>1, <1>9 DEF TypeOK, EraseDone, Answer, Close, parserVars
<1>10. CASE UNCHANGED vars
  BY <1>1, <1>10 DEF TypeOK, vars, parserVars, eraseVars
<1> QED
  BY <1>1, <1>2, <1>3, <1>4, <1>5, <1>6, <1>7, <1>8, <1>9, <1>10 DEF Next

(* Every number the parser and the eraser keep fits its 32-bit word.       *)
THEOREM TypeCorrect == Spec => []TypeOK
<1> QED
  BY InitTypeOK, NextTypeOK, PTL DEF Spec
-----------------------------------------------------------------------------
(* How far an erase is: the handle is `i' sectors into the range, and what *)
(* it went over is on the card, zeroed, and all that is.                   *)
EraseInv ==
  /\ pc \in {"number", "digits"} => current = -1 /\ i = 0 /\ status = "none"
  /\ pc = "erase" =>
       /\ op = "remove" /\ status = "none"
       /\ startSector \in Word /\ sectorCount \in Word \ {0}
       /\ i <= sectorCount
  /\ current = -1 \/ (pc = "erase" /\ current = startSector + i)
  /\ pc = "erase" /\ current = -1 => i = 0
  /\ IF i = 0 THEN erased = {}
     ELSE /\ startSector \in Word /\ i <= sectorCount
          /\ startSector + i <= CardSectors
          /\ erased = startSector..(startSector + i - 1)
  /\ op = "remove" /\ status = "Ok" =>
       startSector \in Word /\ sectorCount \in Word \ {0} /\ i = sectorCount

LEMMA InitEraseInv == Init => EraseInv
BY DEF Init, EraseInv

LEMMA NextEraseInv == TypeOK /\ EraseInv /\ [Next]_vars => EraseInv'
<1>1. SUFFICES ASSUME TypeOK, EraseInv, [Next]_vars PROVE EraseInv'
  OBVIOUS
<1>2. CASE ListRoot
  BY <1>1, <1>2 DEF EraseInv, ListRoot, Answer, parserVars, eraseVars
<1>3. CASE RejectRoot
  BY <1>1, <1>3 DEF EraseInv, RejectRoot, Answer, parserVars, eraseVars
<1>4. CASE BeginNumber
  BY <1>1, <1>4 DEF EraseInv, BeginNumber, eraseVars
<1>5. CASE Digit
  BY <1>1, <1>5 DEF EraseInv, Digit, Answer, eraseVars
<1>6. CASE EndNumber
  <2>1. /\ pc = "digits" /\ current = -1 /\ i = 0 /\ status = "none" /\ erased = {}
        /\ UNCHANGED <<op, current, i, erased>>
    BY <1>1, <1>6 DEF EraseInv, EndNumber, eraseVars
  <2>2. CASE pc' = "erase"
    <3>1. /\ op = "remove" /\ status' = "none" /\ startSector' \in Word
          /\ sectorCount' \in Word /\ sectorCount' # 0
      BY <1>1, <1>6, <2>1, <2>2 DEF TypeOK, EndNumber, Answer
    <3>2. 0 <= sectorCount'
      BY <3>1, WordAssumption DEF Word
    <3> QED
      BY <2>1, <2>2, <3>1, <3>2 DEF EraseInv
  <2>3. CASE pc' # "erase"
    <3>1. /\ pc' \in {"number", "digits"} => status' = "none"
          /\ status' = "Ok" => op = "list"
      BY <1>6, <2>1, <2>3 DEF EndNumber, Answer
    <3>2. op = "list" => op # "remove"
      OBVIOUS
    <3> QED
      BY <2>1, <2>3, <3>1, <3>2 DEF EraseInv
  <2> QED
    BY <2>2, <2>3
<1>7. CASE OpenRange
  BY <1>1, <1>7 DEF TypeOK, EraseInv, OpenRange, Answer, parserVars, Word
<1>8. CASE EraseSector
  <2>1. CASE /\ current < CardSectors /\ current # -1 /\ i < sectorCount
             /\ erased' = erased \cup {current}
             /\ current' = (current + 1) % (WordMax + 1)
             /\ i' = i + 1
             /\ UNCHANGED <<pc, status>>
    <3>1. current = startSector + i /\ startSector \in Word /\ sectorCount \in Word \ {0}
      BY <1>1, <1>8, <2>1 DEF EraseInv, EraseSector
    <3>2. i \in Nat /\ CardSectors \in Nat /\ CardSectors <= WordMax
      BY <1>1, WordAssumption DEF TypeOK, Word
    <3>3. current + 1 < WordMax + 1 /\ current + 1 \in Nat
      BY <2>1, <3>1, <3>2, WordAssumption DEF Word
    <3>4. current' = startSector + i'
      BY <2>1, <3>1, <3>2, <3>3, WordAssumption DEF Word
    <3>5. erased' = startSector..(startSector + i' - 1)
      <4>1. CASE i = 0
        BY <1>1, <2>1, <3>1, <3>2, <4>1 DEF EraseInv, Word
      <4>2. CASE i # 0
        BY <1>1, <2>1, <3>1, <3>2, <4>2 DEF EraseInv, Word
      <4> QED
        BY <4>1, <4>2
    <3> QED
      BY <1>1, <1>8, <2>1, <3>1, <3>2, <3>4, <3>5 DEF EraseInv, EraseSector, parserVars, Word
  <2>2. CASE Answer("Error") /\ Close /\ UNCHANGED <<i, erased>>
    BY <1>1, <1>8, <2>2 DEF EraseInv, EraseSector, Answer, Close, parserVars
  <2> QED
    BY <1>8, <2>1, <2>2 DEF EraseSector
<1>9. CASE EraseDone
  BY <1>1, <1>9 DEF EraseInv, EraseDone, Answer, Close, parserVars
<1>10. CASE UNCHANGED vars
  BY <1>1, <1>10 DEF EraseInv, vars, parserVars, eraseVars
<1> QED
  BY <1>1, <1>2, <1>3, <1>4, <1>5, <1>6, <1>7, <1>8, <1>9, <1>10 DEF Next

LEMMA EraseInvSafe == TypeOK /\ EraseInv => ErasedInRange /\ OkMeansErased /\ HandleClosed
<1>1. SUFFICES ASSUME TypeOK, EraseInv PROVE ErasedInRange /\ OkMeansErased /\ HandleClosed
  OBVIOUS
<1>2. i \in Nat /\ CardSectors \in Nat
  BY <1>1, WordAssumption DEF TypeOK, Word
<1>3. ErasedInRange
  <2>1. CASE i = 0
    BY <1>1, <2>1 DEF EraseInv, ErasedInRange
  <2>2. CASE i # 0
    BY <1>1, <1>2, <2>2, WordAssumption DEF TypeOK, EraseInv, ErasedInRange, Requested, Word
  <2> QED
    BY <2>1, <2>2
<1>4. OkMeansErased
  BY <1>1, <1>2 DEF EraseInv, OkMeansErased, Word
<1>5. HandleClosed
  BY <1>1 DEF EraseInv, HandleClosed
<1> QED
  BY <1>3, <1>4, <1>5

(* Only sectors of the range are ever zeroed, success means all of them    *)
(* were and are on the card, and the handle is closed on every exit        *)
(* (EraseRawRange), for every word size and every card.                    *)
THEOREM EraseCorrect == Spec => [](ErasedInRange /\ OkMeansErased /\ HandleClosed)
<1>1. Init => TypeOK /\ EraseInv
  BY InitTypeOK, InitEraseInv
<1>2. (TypeOK /\ EraseInv) /\ [Next]_vars => (TypeOK /\ EraseInv)'
  BY NextTypeOK, NextEraseInv
<1> QED
  BY <1>1, <1>2, EraseInvSafe, PTL DEF Spec

(* The parts of it, each a promise of its own: no sector outside of the    *)
(* range is touched, even by an erase that fails half-way.                 *)
THEOREM OnlyTheRange == Spec => []ErasedInRange
  BY EraseCorrect, PTL

(* Success is never reported for a range erased in part.                   *)
THEOREM SuccessIsComplete == Spec => []OkMeansErased
  BY EraseCorrect, PTL

(* Whichever way the erase ends, the file handle is closed.                *)
THEOREM HandleNeverLeft == Spec => []HandleClosed
  BY EraseCorrect, PTL
-----------------------------------------------------------------------------
(* What digits are worth.                                                  *)

(* The worths of the first 0, 1 .. n of the characters from a on. *)
Worths(p, a, n, b, v) ==
  v[0] = 0 /\ \A k \in 1..n : v[k] = v[k - 1] * b + p[a + k - 1]

LEMMA CharIsNat ==
  ASSUME NEW p \in Seq(Chars), NEW k \in 1..Len(p)
  PROVE  p[k] \in Nat /\ p[k] <= 20
<1>1. p[k] \in Chars
  OBVIOUS
<1> QED
  BY <1>1 DEF Chars

LEMMA WorthsExist ==
  ASSUME NEW p \in Seq(Chars), NEW a \in Nat, NEW n \in Nat, NEW b \in Nat,
         a >= 1, a + n <= Len(p) + 1
  PROVE  \E v \in [0..n -> Nat] : Worths(p, a, n, b, v)
<1> DEFINE G == [t \in Nat \X (1..n) |-> t[1] * b + p[a + t[2] - 1]]
<1>1. \A k \in 1..n : p[a + k - 1] \in Nat
  <2>1. ASSUME NEW k \in 1..n PROVE p[a + k - 1] \in Nat
    <3>1. a + k - 1 \in 1..Len(p)
      OBVIOUS
    <3> QED
      BY <3>1, CharIsNat
  <2> QED
    BY <2>1
<1>2. G \in [Nat \X (1..n) -> Nat]
  <2>1. ASSUME NEW t \in Nat \X (1..n) PROVE t[1] * b + p[a + t[2] - 1] \in Nat
    <3>1. t[1] \in Nat /\ t[2] \in 1..n
      OBVIOUS
    <3>2. p[a + t[2] - 1] \in Nat
      BY <1>1, <3>1
    <3>3. \A x, y \in Nat : x * b + y \in Nat
      OBVIOUS
    <3> QED
      BY <3>1, <3>2, <3>3, Zenon
  <2> QED
    BY <2>1
<1>3. \A c \in Nat, k \in 1..n : G[<<c, k>>] = c * b + p[a + k - 1]
  OBVIOUS
<1> HIDE DEF G
<1>4. PICK v \in [0..n -> Nat] : Solves(v, 0, G, n)
  <2>1. 0 \in Nat
    OBVIOUS
  <2> QED
    BY <1>2, <2>1, RecursionExists, Zenon
<1>5. \A k \in 1..n : v[k - 1] \in Nat
  OBVIOUS
<1>6. \A k \in 1..n : v[k] = v[k - 1] * b + p[a + k - 1]
  BY <1>3, <1>4, <1>5, Zenon DEF Solves
<1> QED
  BY <1>4, <1>6 DEF Worths, Solves

LEMMA ValueIs ==
  ASSUME NEW p \in Seq(Chars), NEW a \in Nat, NEW n \in Nat, NEW b \in Nat,
         a >= 1, a + n <= Len(p) + 1, NEW v, Worths(p, a, n, b, v)
  PROVE  Value(p, a, a + n, b) = v[n]
<1> DEFINE F(c) == [m \in 0..n |-> IF m = 0 THEN 0 ELSE c[m - 1] * b + p[a + m - 1]]
           worth == CHOOSE c : c = F(c)
<1>1. Value(p, a, a + n, b) = worth[n]
  <2>1. (a + n) - a = n
    OBVIOUS
  <2> QED
    BY <2>1, Zenon DEF Value
<1>2. PICK c \in [0..n -> Nat] : Worths(p, a, n, b, c)
  BY WorthsExist
<1>3. c = F(c)
  <2>1. \A m \in 0..n : c[m] = IF m = 0 THEN 0 ELSE c[m - 1] * b + p[a + m - 1]
    BY <1>2 DEF Worths
  <2> QED
    BY <2>1
<1>4. worth = F(worth)
  BY <1>3, Zenon
<1>5. Worths(p, a, n, b, worth)
  <2>1. \A m \in 0..n : worth[m] = F(worth)[m]
    BY <1>4, Zenon
  <2> HIDE DEF worth
  <2>2. worth[0] = 0
    BY <2>1
  <2>3. \A m \in 1..n : worth[m] = worth[m - 1] * b + p[a + m - 1]
    BY <2>1
  <2> QED
    BY <2>2, <2>3 DEF Worths
<1> HIDE DEF worth
<1>6. GoOnAlike(worth, v, n) /\ worth[0] = v[0]
  BY <1>5, Zenon DEF GoOnAlike, Worths
<1>7. n \in Nat /\ n \in 0..n
  OBVIOUS
<1>8. \A k \in 0..n : worth[k] = v[k]
  BY <1>6, <1>7, SameRecursion
<1> QED
  BY <1>1, <1>7, <1>8, Zenon

(* No digits are worth nothing. *)
LEMMA ValueOfNone ==
  ASSUME NEW p \in Seq(Chars), NEW a \in 1..Len(p) + 1, NEW b \in Nat
  PROVE  Value(p, a, a, b) = 0
<1>1. a \in Nat /\ 0 \in Nat /\ a >= 1 /\ a + 0 = a /\ a + 0 <= Len(p) + 1
  OBVIOUS
<1>2. PICK v \in [0..0 -> Nat] : Worths(p, a, 0, b, v)
  BY <1>1, WorthsExist, Zenon
<1>3. Value(p, a, a + 0, b) = v[0]
  BY <1>1, <1>2, ValueIs
<1> QED
  BY <1>1, <1>2, <1>3, Zenon DEF Worths

(* One more digit shifts the others by one place. *)
LEMMA ValueGrows ==
  ASSUME NEW p \in Seq(Chars), NEW a \in Nat, NEW e \in Nat, NEW b \in Nat,
         1 <= a, a <= e, e <= Len(p)
  PROVE  /\ Value(p, a, e, b) \in Nat
         /\ Value(p, a, e + 1, b) = Value(p, a, e, b) * b + p[e]
<1> DEFINE n == e - a
<1>1. n \in Nat /\ a + n = e /\ a + (n + 1) = e + 1 /\ a + (n + 1) - 1 = e
  OBVIOUS
<1> HIDE DEF n
<1>2. a + (n + 1) <= Len(p) + 1 /\ a + n <= Len(p) + 1 /\ n + 1 \in Nat
  BY <1>1
<1>3. PICK v \in [0..n + 1 -> Nat] : Worths(p, a, n + 1, b, v)
  BY <1>2, WorthsExist
<1>4. Worths(p, a, n, b, v)
  <2>1. \A k \in 1..n : k \in 1..n + 1
    BY <1>1
  <2> QED
    BY <1>3, <2>1, Zenon DEF Worths
<1>5. Value(p, a, a + n, b) = v[n] /\ Value(p, a, a + (n + 1), b) = v[n + 1]
  BY <1>1, <1>2, <1>3, <1>4, ValueIs
<1>6. n \in 0..n + 1 /\ n + 1 \in 1..n + 1 /\ (n + 1) - 1 = n
  BY <1>1
<1>7. v[n] \in Nat
  BY <1>6
<1>8. v[n + 1] = v[n] * b + p[e]
  BY <1>1, <1>3, <1>6 DEF Worths
<1> QED
  BY <1>1, <1>5, <1>7, <1>8

LEMMA ValueIsNat ==
  ASSUME NEW p \in Seq(Chars), NEW a \in Nat, NEW e \in Nat, NEW b \in Nat,
         1 <= a, a <= e, e <= Len(p) + 1
  PROVE  Value(p, a, e, b) \in Nat
<1> DEFINE n == e - a
<1>1. n \in Nat /\ a + n = e /\ a + n <= Len(p) + 1
  OBVIOUS
<1> HIDE DEF n
<1>2. PICK v \in [0..n -> Nat] : Worths(p, a, n, b, v)
  BY <1>1, WorthsExist
<1>3. Value(p, a, a + n, b) = v[n] /\ v[n] \in Nat
  BY <1>1, <1>2, ValueIs
<1> QED
  BY <1>1, <1>3

(* More digits are worth no less. *)
LEMMA ValueMonotone ==
  ASSUME NEW p \in Seq(Chars), NEW a \in Nat, NEW e \in Nat, NEW b \in Nat, NEW f \in Nat,
         1 <= a, a <= e, e <= f, f <= Len(p) + 1, 1 <= b
  PROVE  Value(p, a, e, b) <= Value(p, a, f, b)
<1> DEFINE n == f - e
           S == {m \in 0..n : Value(p, a, e, b) <= Value(p, a, e + m, b)}
<1>1. n \in Nat /\ e + n = f
  OBVIOUS
<1>2. Value(p, a, e, b) \in Nat
  <2>1. e <= Len(p) + 1
    OBVIOUS
  <2> QED
    BY <2>1, ValueIsNat, Zenon
<1>3. 0 \in S
  <2>1. e + 0 = e
    OBVIOUS
  <2> QED
    BY <1>1, <1>2, <2>1
<1>4. ASSUME NEW k \in 1..n, k - 1 \in S PROVE k \in S
  <2>1. e + (k - 1) \in Nat /\ e + (k - 1) <= Len(p) /\ a <= e + (k - 1)
        /\ (e + (k - 1)) + 1 = e + k /\ k \in 0..n /\ e + (k - 1) \in 1..Len(p)
    BY <1>1
  <2> DEFINE c == Value(p, a, e + (k - 1), b)
             d == p[e + (k - 1)]
  <2>2. c \in Nat /\ Value(p, a, (e + (k - 1)) + 1, b) = c * b + d
    BY <2>1, ValueGrows
  <2>3. Value(p, a, e + k, b) = c * b + d
    BY <2>1, <2>2
  <2>4. d \in Nat
    BY <2>1, CharIsNat
  <2>5. Value(p, a, e, b) <= c
    BY <1>4
  <2> HIDE DEF c, d
  <2>6. c <= c * b
    <3>1. \A x, y \in Nat : 1 <= y => x <= x * y
      OBVIOUS
    <3> QED
      BY <2>2, <3>1
  <2>7. c * b \in Nat
    BY <2>2
  <2>8. Value(p, a, e, b) <= c * b + d
    BY <1>2, <2>2, <2>4, <2>5, <2>6, <2>7
  <2> QED
    BY <2>1, <2>3, <2>8
<1> HIDE DEF n, S
<1>5. \A k \in 0..n : k \in S
  BY <1>1, <1>3, <1>4, BoundedInduction, Zenon
<1>6. n \in S
  BY <1>1, <1>5
<1> QED
  BY <1>1, <1>6 DEF S

(* A number has digits and an x only, so it has no colon. *)
LEMMA NumberIs ==
  ASSUME NEW p \in Seq(Chars), NEW a \in Nat, NEW e \in Nat, 1 <= a, a <= e, e <= Len(p) + 1,
         NEW n \in Numbers(p, a, e)
  PROVE  /\ \/ IsDecimal(p, a, e) /\ n = Value(p, a, e, 10)
            \/ IsHex(p, a, e) /\ n = Value(p, a + 2, e, 16)
         /\ n \in Nat
         /\ \A k \in a..(e - 1) : p[k] # Colon
<1>1. CASE IsDecimal(p, a, e)
  <2>1. n = Value(p, a, e, 10)
    BY <1>1 DEF Numbers
  <2>2. \A k \in a..(e - 1) : p[k] # Colon
    BY <1>1 DEF IsDecimal, Colon
  <2> QED
    BY <1>1, <2>1, <2>2, ValueIsNat
<1>2. CASE ~IsDecimal(p, a, e)
  <2>1. IsHex(p, a, e) /\ n = Value(p, a + 2, e, 16)
    BY <1>2 DEF Numbers
  <2>2. a + 2 <= e /\ a + 2 \in Nat /\ 1 <= a + 2
    BY <2>1 DEF IsHex
  <2>3. n \in Nat
    BY <2>1, <2>2, ValueIsNat
  <2>4. ASSUME NEW k \in a..(e - 1) PROVE p[k] # Colon
    <3>1. k = a \/ k = a + 1 \/ k \in (a + 2)..(e - 1)
      OBVIOUS
    <3>2. \A d \in Digits : d # Colon
      BY DEF Digits, Colon
    <3>3. /\ p[a] = 0 /\ p[a + 1] = X /\ 0 # Colon /\ X # Colon
          /\ \A j \in (a + 2)..(e - 1) : p[j] \in Digits
      BY <2>1 DEF IsHex, Colon, X
    <3> QED
      BY <3>1, <3>2, <3>3, Zenon
  <2> QED
    BY <2>1, <2>3, <2>4
<1> QED
  BY <1>1, <1>2

(* It has the base the parser finds, and not both. *)
LEMMA NumberInBase ==
  ASSUME NEW p \in Seq(Chars), NEW a \in Nat, NEW e \in Nat, 1 <= a, a <= e, e <= Len(p) + 1,
         NEW n \in Numbers(p, a, e)
  PROVE  /\ a < e
         /\ p[a] = 0 /\ a + 1 < e /\ p[a + 1] = X =>
              /\ a + 2 < e /\ n = Value(p, a + 2, e, 16)
              /\ \A k \in (a + 2)..(e - 1) : p[k] \in Digits
         /\ ~(p[a] = 0 /\ a + 1 < e /\ p[a + 1] = X) =>
              n = Value(p, a, e, 10) /\ \A k \in a..(e - 1) : p[k] \in 0..9
<1>1. CASE IsDecimal(p, a, e) /\ n = Value(p, a, e, 10)
  <2>1. a < e /\ \A k \in a..(e - 1) : p[k] \in 0..9
    BY <1>1 DEF IsDecimal
  <2>2. a + 1 < e => a + 1 \in a..(e - 1)
    OBVIOUS
  <2>3. ~(a + 1 < e /\ p[a + 1] = X)
    BY <2>1, <2>2 DEF X
  <2> QED
    BY <1>1, <2>1, <2>3
<1>2. CASE IsHex(p, a, e) /\ n = Value(p, a + 2, e, 16)
  BY <1>2 DEF IsHex
<1> QED
  BY <1>1, <1>2, NumberIs

(* A path means a range with one colon in it. *)
LEMMA RangeIs ==
  ASSUME NEW p \in Seq(Chars), NEW r \in Meant(p)
  PROVE  \E c \in 1..Len(p) :
           /\ p[c] = Colon
           /\ r[1] \in Numbers(p, 1, c) /\ r[1] <= WordMax
           /\ r[2] \in Numbers(p, c + 1, Len(p) + 1) /\ r[2] \in 1..WordMax
<1>1. r \in RangesOf(p) /\ r[1] <= WordMax /\ r[2] \in 1..WordMax
  BY DEF Meant
<1>2. PICK c \in 1..Len(p) : p[c] = Colon /\ r \in Numbers(p, 1, c) \X Numbers(p, c + 1, Len(p) + 1)
  BY <1>1, Zenon DEF RangesOf
<1>3. r[1] \in Numbers(p, 1, c) /\ r[2] \in Numbers(p, c + 1, Len(p) + 1)
  BY <1>2
<1> QED
  BY <1>1, <1>2, <1>3

LEMMA RangeMeant ==
  ASSUME NEW p \in Seq(Chars), NEW c \in 1..Len(p), p[c] = Colon,
         NEW n \in Numbers(p, 1, c), n <= WordMax,
         NEW m \in Numbers(p, c + 1, Len(p) + 1), m \in 1..WordMax
  PROVE  <<n, m>> \in Meant(p)
<1>1. <<n, m>> \in Numbers(p, 1, c) \X Numbers(p, c + 1, Len(p) + 1)
  OBVIOUS
<1>2. <<n, m>> \in RangesOf(p)
  <2>1. Numbers(p, 1, c) \X Numbers(p, c + 1, Len(p) + 1)
          \in {Numbers(p, 1, k) \X Numbers(p, k + 1, Len(p) + 1) :
                 k \in {j \in 1..Len(p) : p[j] = Colon}}
    BY Zenon
  <2> QED
    BY <1>1, <2>1, Zenon DEF RangesOf
<1>3. <<n, m>>[1] = n /\ <<n, m>>[2] = m
  OBVIOUS
<1> QED
  BY <1>2, <1>3, Zenon DEF Meant
-----------------------------------------------------------------------------
(* How far the parser is.  The number at place s is the first of the path, *)
(* or the second, behind a colon and a first one that was taken.           *)
Ender == IF startSector = -1 THEN Colon ELSE EndOfPath

Begun(s) ==
  \/ startSector = -1 /\ s = 1
  \/ /\ startSector \in Word /\ s \in 2..Len(path) + 1
     /\ path[s - 1] = Colon /\ startSector \in Numbers(path, 1, s - 1)

FirstDigit(s) == IF base = 16 THEN s + 2 ELSE s

(* Its digits up to the cursor were read, and `parsed' is what they are    *)
(* worth.                                                                  *)
Scanned(s) ==
  /\ base = 16 <=> At(s) = 0 /\ At(s + 1) = X
  /\ FirstDigit(s) <= pos /\ pos <= Len(path) + 1
  /\ \A k \in FirstDigit(s)..(pos - 1) : IsDigit(path[k])
  /\ consumed = (FirstDigit(s) < pos)
  /\ parsed = Value(path, FirstDigit(s), pos, base)

ParseInv ==
  /\ pc = "number" => Begun(pos)
  /\ pc = "digits" => \E s \in 1..Len(path) + 1 : Begun(s) /\ Scanned(s)
  /\ ParsedAsMeant

(* A range the path means has a number where the parser is at one, and it  *)
(* ends where the parser has it end.                                       *)
LEMMA NumberAhead ==
  ASSUME TypeOK, NEW s \in 1..Len(path) + 1, Begun(s), NEW r \in Meant(path)
  PROVE  \E e \in s..Len(path) + 1, n \in 0..WordMax :
           At(e) = Ender /\ n \in Numbers(path, s, e) /\ (startSector # -1 => n # 0)
<1>1. path \in Seq(Chars) /\ Len(path) \in Nat /\ WordMax \in Nat
  BY WordAssumption DEF TypeOK
<1>2. PICK c \in 1..Len(path) :
        /\ path[c] = Colon
        /\ r[1] \in Numbers(path, 1, c) /\ r[1] <= WordMax
        /\ r[2] \in Numbers(path, c + 1, Len(path) + 1) /\ r[2] \in 1..WordMax
  BY <1>1, RangeIs
<1>3. r[1] \in Nat /\ \A k \in 1..(c - 1) : path[k] # Colon
  BY <1>1, <1>2, NumberIs
<1>4. \A k \in (c + 1)..((Len(path) + 1) - 1) : path[k] # Colon
  BY <1>1, <1>2, NumberIs
<1>5. CASE startSector = -1
  <2>1. s = 1 /\ c \in s..Len(path) + 1 /\ r[1] \in 0..WordMax
    BY <1>1, <1>2, <1>3, <1>5 DEF Begun, Word
  <2>2. At(c) = Ender
    BY <1>2, <1>5 DEF At, Ender
  <2> QED
    BY <1>2, <1>5, <2>1, <2>2
<1>6. CASE startSector # -1
  <2>1. s \in 2..Len(path) + 1 /\ path[s - 1] = Colon /\ s - 1 \in 1..Len(path)
    BY <1>6 DEF Begun
  <2>2. s - 1 = c
    BY <1>1, <1>3, <1>4, <2>1
  <2>3. s = c + 1
    BY <2>1, <2>2
  <2>4. At(Len(path) + 1) = Ender
    BY <1>1, <1>6 DEF At, Ender
  <2>5. Len(path) + 1 \in s..Len(path) + 1 /\ r[2] \in 0..WordMax /\ r[2] # 0
    BY <1>1, <1>2, <2>1
  <2> QED
    BY <1>2, <2>3, <2>4, <2>5
<1> QED
  BY <1>5, <1>6

(* Where the parser is in such a number: every digit it meets before the   *)
(* end fits, and at the end the number is the one that was parsed.         *)
LEMMA ScanAgrees ==
  ASSUME TypeOK, NEW s \in 1..Len(path) + 1, Scanned(s),
         NEW e \in s..Len(path) + 1, At(e) \in {Colon, EndOfPath},
         NEW n \in Numbers(path, s, e), n <= WordMax
  PROVE  /\ pos <= e
         /\ pos < e => IsDigit(At(pos)) /\ ~Overflows(At(pos))
         /\ pos = e => consumed /\ n = parsed
<1> DEFINE a == FirstDigit(s)
<1>1. path \in Seq(Chars) /\ Len(path) \in Nat /\ WordMax \in Nat /\ pos \in Nat
      /\ base \in {10, 16} /\ parsed \in Word
  BY WordAssumption DEF TypeOK
<1>2. /\ a <= pos /\ pos <= Len(path) + 1
      /\ \A k \in a..(pos - 1) : IsDigit(path[k])
      /\ consumed = (a < pos) /\ parsed = Value(path, a, pos, base)
  BY DEF Scanned
<1>3. base = 16 <=> path[s] = 0 /\ s + 1 < e /\ path[s + 1] = X
  <2>1. CASE base = 16
    <3>1. At(s) = 0 /\ At(s + 1) = X
      BY <2>1 DEF Scanned
    <3>2. s \in 1..Len(path) /\ s + 1 \in 1..Len(path) /\ path[s] = 0 /\ path[s + 1] = X
      BY <3>1 DEF At, EndOfPath, X
    <3>3. e # s /\ e # s + 1
      BY <3>1 DEF Colon, EndOfPath, X
    <3> QED
      BY <1>1, <2>1, <3>2, <3>3
  <2>2. CASE base # 16
    <3>1. ~(At(s) = 0 /\ At(s + 1) = X)
      BY <2>2 DEF Scanned
    <3>2. s + 1 < e => s \in 1..Len(path) /\ s + 1 \in 1..Len(path)
      BY <1>1
    <3> QED
      BY <2>2, <3>1, <3>2 DEF At
  <2> QED
    BY <2>1, <2>2
<1>4. s \in Nat /\ e \in Nat /\ 1 <= s /\ s <= e /\ e <= Len(path) + 1
  BY <1>1
<1>5. /\ a < e /\ n = Value(path, a, e, base) /\ a \in Nat /\ 1 <= a
      /\ \A k \in a..(e - 1) : path[k] \in Digits /\ path[k] < base
  <2>1. CASE base = 16
    <3>1. /\ s + 2 < e /\ n = Value(path, s + 2, e, 16)
          /\ \A k \in (s + 2)..(e - 1) : path[k] \in Digits
      BY <1>1, <1>3, <1>4, <2>1, NumberInBase
    <3>2. \A d \in Digits : d < 16
      BY DEF Digits
    <3> QED
      BY <1>4, <2>1, <3>1, <3>2 DEF FirstDigit
  <2>2. CASE base = 10
    <3>1. s < e /\ n = Value(path, s, e, 10) /\ \A k \in s..(e - 1) : path[k] \in 0..9
      BY <1>1, <1>3, <1>4, <2>2, NumberInBase
    <3>2. \A d \in 0..9 : d \in Digits /\ d < 10
      BY DEF Digits
    <3> QED
      BY <1>4, <2>2, <3>1, <3>2 DEF FirstDigit
  <2> QED
    BY <1>1, <2>1, <2>2
<1> HIDE DEF a
<1>6. pos <= e
  <2> SUFFICES ASSUME e < pos PROVE FALSE
    BY <1>1, <1>4
  <2>1. e \in a..(pos - 1) /\ e \in 1..Len(path)
    BY <1>1, <1>2, <1>4, <1>5
  <2>2. IsDigit(path[e]) /\ At(e) = path[e]
    BY <1>2, <2>1 DEF At
  <2>3. \A d \in Digits : d \notin {Colon, EndOfPath}
    BY DEF Digits, Colon, EndOfPath
  <2> QED
    BY <2>2, <2>3, Zenon DEF IsDigit
<1>7. ASSUME pos < e PROVE IsDigit(At(pos)) /\ ~Overflows(At(pos))
  <2>1. pos \in a..(e - 1) /\ pos \in 1..Len(path) /\ pos <= Len(path) /\ a <= pos
    BY <1>1, <1>2, <1>4, <1>5, <1>7
  <2>2. At(pos) = path[pos]
    BY <2>1 DEF At
  <2>3. IsDigit(At(pos))
    BY <1>5, <2>1, <2>2 DEF IsDigit
  <2>4. Value(path, a, pos + 1, base) = parsed * base + At(pos)
    <3>1. base \in Nat
      BY <1>1
    <3>2. Value(path, a, pos + 1, base) = Value(path, a, pos, base) * base + path[pos]
      BY <1>1, <1>5, <2>1, <3>1, ValueGrows, Zenon
    <3> QED
      BY <1>2, <2>2, <3>2, Zenon
  <2>5. Value(path, a, pos + 1, base) <= Value(path, a, e, base)
    <3>1. /\ pos + 1 \in Nat /\ a <= pos + 1 /\ pos + 1 <= e
          /\ e <= Len(path) + 1 /\ 1 <= base /\ base \in Nat
      BY <1>1, <1>4, <1>5, <1>7, <2>1
    <3> QED
      BY <1>1, <1>4, <1>5, <3>1, ValueMonotone
  <2>6. At(pos) \in 0..(base - 1)
    <3>1. At(pos) \in Digits /\ At(pos) < base
      BY <2>3 DEF IsDigit
    <3>2. \A d \in Digits, b \in {10, 16} : d < b => d \in 0..(b - 1)
      BY DEF Digits
    <3> QED
      BY <1>1, <3>1, <3>2, Zenon
  <2>7. parsed * base + At(pos) <= n
    BY <1>5, <2>4, <2>5
  <2>8. parsed * base + At(pos) \in Nat
    <3>1. \A x \in Nat, b \in {10, 16} : \A d \in 0..(b - 1) : x * b + d \in Nat
      OBVIOUS
    <3>2. parsed \in Nat
      BY <1>1 DEF Word
    <3> QED
      BY <1>1, <2>6, <3>1, <3>2, Zenon
  <2>9. n \in Nat
    BY <1>1, <1>4, NumberIs
  <2>10. ~(parsed * base + At(pos) > WordMax)
    BY <1>1, <2>7, <2>8, <2>9
  <2>11. ~(parsed > (WordMax - At(pos)) \div base)
    BY <1>1, <2>6, <2>10, OverflowTestExact
  <2> QED
    BY <2>3, <2>11 DEF Overflows
<1>8. ASSUME pos = e PROVE consumed /\ n = parsed
  BY <1>2, <1>5, <1>8
<1> QED
  BY <1>6, <1>7, <1>8

(* What was scanned up to the end of the number is the number. *)
LEMMA ScannedNumber ==
  ASSUME TypeOK, NEW s \in 1..Len(path) + 1, Scanned(s), consumed
  PROVE  parsed \in Numbers(path, s, pos)
<1> DEFINE a == FirstDigit(s)
<1>1. path \in Seq(Chars) /\ Len(path) \in Nat /\ pos \in Nat /\ base \in {10, 16}
  BY DEF TypeOK
<1>2. /\ a < pos /\ pos <= Len(path) + 1
      /\ \A k \in a..(pos - 1) : IsDigit(path[k])
      /\ parsed = Value(path, a, pos, base)
  BY DEF Scanned
<1>3. CASE base = 16
  <2>1. At(s) = 0 /\ At(s + 1) = X /\ a = s + 2
    BY <1>3 DEF Scanned, FirstDigit
  <2>2. path[s] = 0 /\ path[s + 1] = X
    BY <2>1 DEF At, EndOfPath, X
  <2>3. IsHex(path, s, pos)
    BY <1>2, <2>1, <2>2 DEF IsHex, IsDigit
  <2>4. s + 1 \in s..(pos - 1)
    BY <1>1, <1>2, <2>1
  <2>5. ~IsDecimal(path, s, pos)
    BY <2>2, <2>4 DEF IsDecimal, X
  <2> QED
    BY <1>2, <1>3, <2>1, <2>3, <2>5 DEF Numbers
<1>4. CASE base = 10
  <2>1. a = s
    BY <1>4 DEF FirstDigit
  <2>2. \A c \in Digits : c < 10 => c \in 0..9
    BY DEF Digits
  <2>3. IsDecimal(path, s, pos)
    BY <1>2, <1>4, <2>1, <2>2 DEF IsDecimal, IsDigit
  <2> QED
    BY <1>2, <1>4, <2>1, <2>3 DEF Numbers
<1> QED
  BY <1>1, <1>3, <1>4

LEMMA MeantNothing == ASSUME NEW p, \A r \in Meant(p) : FALSE PROVE Meant(p) = {}
BY Zenon

LEMMA EnderIs == Ender \in {Colon, EndOfPath} /\ \A d \in Digits : d # Ender
BY DEF Ender, Colon, EndOfPath, Digits

(* A digit that does not fit is in no number the path means.               *)
LEMMA OverflowMeansNothing ==
  ASSUME TypeOK, NEW s \in 1..Len(path) + 1, Begun(s), Scanned(s),
         IsDigit(At(pos)), Overflows(At(pos))
  PROVE  Meant(path) = {}
<1>1. ASSUME NEW r \in Meant(path) PROVE FALSE
  <2>1. PICK e \in s..Len(path) + 1, n \in 0..WordMax :
          At(e) = Ender /\ n \in Numbers(path, s, e)
    BY <1>1, NumberAhead
  <2>2. At(e) \in {Colon, EndOfPath} /\ n <= WordMax
    BY <2>1, EnderIs, WordAssumption
  <2>3. pos <= e /\ ~(pos < e)
    BY <2>1, <2>2, ScanAgrees
  <2>4. pos = e
    BY <2>1, <2>3 DEF TypeOK
  <2>5. At(pos) = Ender /\ At(pos) \in Digits
    BY <2>1, <2>4 DEF IsDigit
  <2> QED
    BY <2>5, EnderIs, Zenon
<1> QED
  BY <1>1, MeantNothing, Zenon

(* Where the digits end, a number ends that the path means, if any.        *)
LEMMA EndMeans ==
  ASSUME TypeOK, NEW s \in 1..Len(path) + 1, Begun(s), Scanned(s), ~IsDigit(At(pos)),
         NEW r \in Meant(path)
  PROVE  At(pos) = Ender /\ consumed /\ (startSector # -1 => parsed # 0)
<1>1. PICK e \in s..Len(path) + 1, n \in 0..WordMax :
        At(e) = Ender /\ n \in Numbers(path, s, e) /\ (startSector # -1 => n # 0)
  BY NumberAhead
<1>2. At(e) \in {Colon, EndOfPath} /\ n <= WordMax
  BY <1>1, EnderIs, WordAssumption
<1>3. pos <= e /\ ~(pos < e) /\ (pos = e => consumed /\ n = parsed)
  BY <1>1, <1>2, ScanAgrees
<1>4. pos = e
  BY <1>1, <1>3 DEF TypeOK
<1> QED
  BY <1>1, <1>3, <1>4

LEMMA BeginNumberParse == ASSUME TypeOK, EraseInv, ParseInv, BeginNumber PROVE ParseInv'
<1>1. /\ pc = "number" /\ Begun(pos) /\ UNCHANGED <<path, startSector, sectorCount, status>>
      /\ pc' = "digits" /\ parsed' = 0 /\ consumed' = FALSE
      /\ LET hex == At(pos) = 0 /\ At(pos + 1) = X
         IN base' = (IF hex THEN 16 ELSE 10) /\ pos' = (IF hex THEN pos + 2 ELSE pos)
  BY DEF ParseInv, BeginNumber
<1>2. /\ path \in Seq(Chars) /\ Len(path) \in Nat /\ pos \in 1..Len(path) + 1
  BY <1>1 DEF TypeOK, Begun
<1>3. PICK s \in 1..Len(path) + 1 : s = pos
  BY <1>2
<1>4. Begun(s)'
  BY <1>1, <1>3 DEF Begun
<1>5. base' = 16 <=> At(s) = 0 /\ At(s + 1) = X
  BY <1>1, <1>3
<1>6. pos' = (IF base' = 16 THEN s + 2 ELSE s)
  BY <1>1, <1>3
<1>7. pos' <= Len(path) + 1 /\ pos' \in 1..Len(path) + 1
  <2>1. base' = 16 => s + 1 \in 1..Len(path)
    BY <1>5 DEF At, EndOfPath, X
  <2> QED
    BY <1>2, <1>6, <2>1
<1>8. Value(path, pos', pos', base') = 0
  <2>1. base' \in Nat
    BY <1>1
  <2> QED
    BY <1>2, <1>7, <2>1, ValueOfNone, Zenon
<1>9. FirstDigit(s)' = pos'
  BY <1>6 DEF FirstDigit
<1>10. Scanned(s)'
  <2>1. (base = 16 <=> At(s) = 0 /\ At(s + 1) = X)'
    BY <1>1, <1>5 DEF At
  <2>2. pos' <= pos' /\ ~(pos' < pos') /\ \A k \in pos'..(pos' - 1) : FALSE
    <3>1. \A n \in Nat : n <= n /\ ~(n < n) /\ \A k \in n..(n - 1) : FALSE
      OBVIOUS
    <3>2. pos' \in Nat
      BY <1>2, <1>7
    <3> QED
      BY <3>1, <3>2, Zenon
  <2>3. (FirstDigit(s) <= pos /\ pos <= Len(path) + 1)'
    BY <1>1, <1>7, <1>9, <2>2
  <2>4. (\A k \in FirstDigit(s)..(pos - 1) : IsDigit(path[k]))'
    BY <1>9, <2>2
  <2>5. (consumed = (FirstDigit(s) < pos))'
    <3>1. ~(FirstDigit(s)' < pos') /\ ~consumed' /\ consumed' \in BOOLEAN
      BY <1>1, <1>9, <2>2
    <3> QED
      BY <3>1
  <2>6. (parsed = Value(path, FirstDigit(s), pos, base))'
    BY <1>1, <1>8, <1>9
  <2> QED
    BY <2>1, <2>3, <2>4, <2>5, <2>6 DEF Scanned
<1>11. status = "none"
  BY <1>1 DEF EraseInv
<1> QED
  BY <1>1, <1>4, <1>10, <1>11 DEF ParseInv, ParsedAsMeant

LEMMA DigitParse == ASSUME TypeOK, EraseInv, ParseInv, Digit PROVE ParseInv'
<1>1. /\ pc = "digits" /\ IsDigit(At(pos)) /\ status = "none"
      /\ UNCHANGED <<path, base, startSector, sectorCount>>
  BY DEF Digit, EraseInv
<1>2. PICK s \in 1..Len(path) + 1 : Begun(s) /\ Scanned(s)
  BY <1>1 DEF ParseInv
<1>3. CASE Overflows(At(pos))
  <2>1. Meant(path) = {}
    BY <1>1, <1>2, <1>3, OverflowMeansNothing
  <2>2. pc' = "done" /\ status' = "BadRequest"
    BY <1>3 DEF Digit, Answer
  <2> QED
    BY <1>1, <2>1, <2>2 DEF ParseInv, ParsedAsMeant, Meant
<1>4. CASE ~Overflows(At(pos))
  <2>1. /\ parsed' = parsed * base + At(pos) /\ consumed' = TRUE /\ pos' = pos + 1
        /\ UNCHANGED <<pc, status>>
    BY <1>4 DEF Digit
  <2>2. /\ path \in Seq(Chars) /\ Len(path) \in Nat /\ pos \in Nat /\ pos >= 1 /\ base \in Nat
        /\ FirstDigit(s) \in Nat /\ FirstDigit(s) >= 1
    BY DEF TypeOK, FirstDigit
  <2>3. pos <= Len(path) /\ At(pos) = path[pos]
    BY <1>1, <2>2 DEF IsDigit, Digits, At, EndOfPath
  <2>4. /\ FirstDigit(s) <= pos
        /\ \A k \in FirstDigit(s)..(pos - 1) : IsDigit(path[k])
        /\ parsed = Value(path, FirstDigit(s), pos, base)
    BY <1>2 DEF Scanned
  <2>5. Value(path, FirstDigit(s), pos + 1, base) = parsed * base + At(pos)
    BY <2>2, <2>3, <2>4, ValueGrows
  <2>6. FirstDigit(s)' = FirstDigit(s) /\ \A c : IsDigit(c)' <=> IsDigit(c)
    BY <1>1 DEF FirstDigit, IsDigit
  <2>7. \A k \in FirstDigit(s)..((pos + 1) - 1) : IsDigit(path[k])
    <3>1. \A k \in FirstDigit(s)..((pos + 1) - 1) : k \in FirstDigit(s)..(pos - 1) \/ k = pos
      BY <2>2, <2>4
    <3> QED
      BY <1>1, <2>3, <2>4, <3>1, Zenon
  <2>8. FirstDigit(s) <= pos + 1 /\ pos + 1 <= Len(path) + 1 /\ FirstDigit(s) < pos + 1
    BY <2>2, <2>3, <2>4
  <2>9. (base = 16 <=> At(s) = 0 /\ At(s + 1) = X)'
    BY <1>1, <1>2 DEF Scanned, At
  <2>10. (\A k \in FirstDigit(s)..(pos - 1) : IsDigit(path[k]))'
    BY <1>1, <2>1, <2>6, <2>7, Zenon
  <2>11. Scanned(s)'
    BY <1>1, <2>1, <2>5, <2>6, <2>8, <2>9, <2>10 DEF Scanned
  <2>12. Begun(s)'
    BY <1>1, <1>2 DEF Begun
  <2> QED
    BY <1>1, <1>2, <2>1, <2>11, <2>12 DEF ParseInv, ParsedAsMeant
<1> QED
  BY <1>3, <1>4

LEMMA EndNumberParse == ASSUME TypeOK, EraseInv, ParseInv, EndNumber PROVE ParseInv'
<1>1. /\ pc = "digits" /\ ~IsDigit(At(pos)) /\ status = "none"
      /\ UNCHANGED <<op, path, base, parsed, consumed>>
  BY DEF EndNumber, EraseInv
<1>2. PICK s \in 1..Len(path) + 1 : Begun(s) /\ Scanned(s)
  BY <1>1 DEF ParseInv
<1>3. /\ path \in Seq(Chars) /\ Len(path) \in Nat /\ pos \in Nat /\ pos >= 1
      /\ parsed \in 0..WordMax /\ WordMax \in Nat /\ parsed # -1
  BY WordAssumption DEF TypeOK, Word
<1>4. Meant(path)' = Meant(path)
  BY <1>1 DEF Meant
<1>5. CASE ~consumed \/ At(pos) # Ender
  <2>1. pc' = "done" /\ status' = "BadRequest"
    BY <1>5 DEF EndNumber, Answer, Ender
  <2>2. Meant(path) = {}
    BY <1>1, <1>2, <1>5, EndMeans, MeantNothing
  <2> QED
    BY <1>4, <2>1, <2>2 DEF ParseInv, ParsedAsMeant
<1>6. CASE consumed /\ At(pos) = Ender /\ startSector = -1
  <2>1. startSector' = parsed /\ pos' = pos + 1 /\ pc' = "number" /\ status' = "none"
    BY <1>1, <1>6 DEF EndNumber, Ender
  <2>2. s = 1
    BY <1>2, <1>6 DEF Begun, Word
  <2>3. parsed \in Numbers(path, 1, pos)
    BY <1>2, <1>6, <2>2, ScannedNumber
  <2>4. pos \in 1..Len(path) /\ path[pos] = Colon
    BY <1>6 DEF At, Ender, Colon, EndOfPath
  <2>5. pos + 1 \in 2..Len(path) + 1 /\ (pos + 1) - 1 = pos
    BY <1>3, <2>4
  <2>6. parsed \in Word
    BY DEF TypeOK
  <2>7. Begun(pos)'
    BY <1>1, <2>1, <2>3, <2>4, <2>5, <2>6 DEF Begun
  <2> QED
    BY <2>1, <2>7 DEF ParseInv, ParsedAsMeant
<1>7. CASE consumed /\ At(pos) = Ender /\ startSector # -1
  <2>1. /\ sectorCount' = parsed /\ startSector' = startSector
        /\ IF parsed = 0 THEN Answer("BadRequest")
           ELSE IF op = "list" THEN Answer("Ok") ELSE pc' = "erase" /\ UNCHANGED status
    BY <1>7 DEF EndNumber, Ender
  <2>2. CASE parsed = 0
    <3>1. pc' = "done" /\ status' = "BadRequest"
      BY <2>1, <2>2 DEF Answer
    <3>2. Meant(path) = {}
      BY <1>1, <1>2, <1>7, <2>2, EndMeans, MeantNothing
    <3> QED
      BY <1>4, <3>1, <3>2 DEF ParseInv, ParsedAsMeant
  <2>3. CASE parsed # 0
    <3>1. pc' \in {"done", "erase"} /\ status' # "BadRequest"
      BY <1>1, <2>1, <2>3 DEF Answer
    <3>2. /\ startSector \in 0..WordMax /\ s \in 2..Len(path) + 1
          /\ path[s - 1] = Colon /\ startSector \in Numbers(path, 1, s - 1)
      BY <1>2, <1>7 DEF Begun, Word
    <3>3. s - 1 \in 1..Len(path) /\ (s - 1) + 1 = s /\ startSector <= WordMax
          /\ parsed \in 1..WordMax
      BY <1>3, <2>3, <3>2
    <3>4. pos = Len(path) + 1
      <4>1. pos \notin 1..Len(path)
        <5>1. At(pos) = EndOfPath
          BY <1>7 DEF Ender
        <5>2. pos \in 1..Len(path) => path[pos] <= 20 /\ path[pos] \in Nat
          BY <1>3, CharIsNat
        <5> QED
          BY <5>1, <5>2 DEF At, EndOfPath
      <4>2. pos <= Len(path) + 1
        BY <1>2 DEF Scanned
      <4> QED
        BY <1>3, <4>1, <4>2
    <3>5. parsed \in Numbers(path, s, Len(path) + 1)
      BY <1>2, <1>7, <3>4, ScannedNumber
    <3>6. <<startSector, parsed>> \in Meant(path)
      BY <1>3, <3>2, <3>3, <3>5, RangeMeant
    <3>7. <<startSector, sectorCount>>' \in Meant(path)'
      BY <1>4, <2>1, <3>6
    <3> QED
      BY <3>1, <3>7 DEF ParseInv, ParsedAsMeant
  <2> QED
    BY <2>2, <2>3
<1> QED
  BY <1>5, <1>6, <1>7

LEMMA InitParse == Init => ParseInv
BY DEF Init, ParseInv, ParsedAsMeant, Begun

LEMMA NextParse ==
  ASSUME TypeOK, EraseInv, ParseInv, [Next]_vars
  PROVE  ParseInv'
<1>1. CASE ListRoot
  <2>1. IsRawRootPath(path)' /\ pc' = "done" /\ status' = "Ok"
    BY <1>1 DEF ListRoot, Answer, IsRawRootPath
  <2> QED
    BY <2>1 DEF ParseInv, ParsedAsMeant
<1>2. CASE RejectRoot
  <2>1. path = <<Slash>> /\ UNCHANGED path /\ pc' = "done" /\ status' = "BadRequest"
    BY <1>2 DEF RejectRoot, Answer, IsRawRootPath
  <2>2. path \in Seq(Chars) /\ Len(path) = 1 /\ path[1] = Slash
    BY <2>1 DEF TypeOK
  <2>3. ASSUME NEW r \in Meant(path) PROVE FALSE
    <3>1. PICK c \in 1..Len(path) : path[c] = Colon
      BY <2>2, <2>3, RangeIs, Zenon
    <3> QED
      BY <2>2, <3>1 DEF Slash, Colon
  <2>4. Meant(path)' = {}
    BY <2>1, <2>3, MeantNothing
  <2> QED
    BY <2>1, <2>4 DEF ParseInv, ParsedAsMeant
<1>3. CASE BeginNumber \/ Digit \/ EndNumber
  BY <1>3, BeginNumberParse, DigitParse, EndNumberParse
<1>4. CASE OpenRange \/ EraseSector \/ EraseDone
  <2>1. /\ pc = "erase" /\ status = "none" /\ UNCHANGED <<path, startSector, sectorCount>>
        /\ pc' \in {"erase", "done"} /\ status' # "BadRequest"
    BY <1>4 DEF OpenRange, EraseSector, EraseDone, Answer, EraseInv, parserVars
  <2>2. <<startSector, sectorCount>>' = <<startSector, sectorCount>> /\ Meant(path)' = Meant(path)
    BY <2>1 DEF Meant
  <2>3. <<startSector, sectorCount>> \in Meant(path)
    BY <2>1 DEF ParseInv, ParsedAsMeant
  <2> QED
    BY <2>1, <2>2, <2>3 DEF ParseInv, ParsedAsMeant
<1>5. CASE UNCHANGED vars
  <2>1. UNCHANGED <<path, pc, pos, base, parsed, consumed, startSector, sectorCount, status>>
    BY <1>5 DEF vars, parserVars
  <2> QED
    BY <2>1 DEF ParseInv, ParsedAsMeant, Begun, Scanned, FirstDigit, IsDigit, At, Meant,
       IsRawRootPath
<1> QED
  BY <1>1, <1>2, <1>3, <1>4, <1>5 DEF Next

(* The parser accepts a path for the range it means, in either base, and   *)
(* refuses exactly those that mean none, one that does not fit the word,   *)
(* or no sector (TryParseU32, TryParseRawRange), however long they are.    *)
THEOREM ParsedRight == Spec => []ParsedAsMeant
<1>1. Init => TypeOK /\ EraseInv /\ ParseInv
  BY InitTypeOK, InitEraseInv, InitParse
<1>2. (TypeOK /\ EraseInv /\ ParseInv) /\ [Next]_vars => (TypeOK /\ EraseInv /\ ParseInv)'
  BY NextTypeOK, NextEraseInv, NextParse
<1>3. ParseInv => ParsedAsMeant
  BY DEF ParseInv
<1> QED
  BY <1>1, <1>2, <1>3, PTL DEF Spec

-----------------------------------------------------------------------------
(* Crc8.  The argument: one shift of the division keeps exclusive sums and *)
(* tells bytes apart, so eight of them do; the table agrees with them at 0 *)
(* and 1, and at 2x and 2x + 1 whenever it does at x; so a step of         *)
(* Crc8Update is the bitwise one and loses nothing of either argument; the *)
(* rest is induction on the length of the message.                         *)

(* Bytes and their bits.                                                   *)

Bits == {0, 1}

Weights == {1, 2, 4, 8, 16, 32, 64, 128}

Weighted(f) ==
  f[1] + 2 * f[2] + 4 * f[4] + 8 * f[8] + 16 * f[16] + 32 * f[32] + 64 * f[64] + 128 * f[128]

LEMMA BitIs == \A n \in Byte, w \in Weights : Bit(n, w) \in Bits
BY DEF Bit, Byte, Bits, Weights

(* A byte is the sum of its bits, so it is known from them. *)
LEMMA SumOfBits ==
  ASSUME NEW n \in Byte
  PROVE  n = Bit(n, 1) + 2 * Bit(n, 2) + 4 * Bit(n, 4) + 8 * Bit(n, 8)
               + 16 * Bit(n, 16) + 32 * Bit(n, 32) + 64 * Bit(n, 64) + 128 * Bit(n, 128)
BY DEF Bit, Byte

LEMMA SameBits ==
  ASSUME NEW x \in Byte, NEW y \in Byte, \A w \in Weights : Bit(x, w) = Bit(y, w)
  PROVE  x = y
<1>1. /\ Bit(x, 1) = Bit(y, 1) /\ Bit(x, 2) = Bit(y, 2) /\ Bit(x, 4) = Bit(y, 4)
      /\ Bit(x, 8) = Bit(y, 8) /\ Bit(x, 16) = Bit(y, 16) /\ Bit(x, 32) = Bit(y, 32)
      /\ Bit(x, 64) = Bit(y, 64) /\ Bit(x, 128) = Bit(y, 128)
  BY DEF Weights
<1> QED
  BY <1>1, SumOfBits, Zenon

LEMMA BitsOfSum ==
  ASSUME NEW f \in [Weights -> Bits]
  PROVE  Weighted(f) \in Byte /\ \A w \in Weights : Bit(Weighted(f), w) = f[w]
<1> DEFINE a == f[1]
           b == f[2]
           c == f[4]
           d == f[8]
           e == f[16]
           g == f[32]
           h == f[64]
           k == f[128]
           n == Weighted(f)
<1>1. a \in Bits /\ b \in Bits /\ c \in Bits /\ d \in Bits /\ e \in Bits /\ g \in Bits
      /\ h \in Bits /\ k \in Bits
  BY DEF Weights
<1>2. n = a + 2 * b + 4 * c + 8 * d + 16 * e + 32 * g + 64 * h + 128 * k
  BY Zenon DEF Weighted
<1> HIDE DEF a, b, c, d, e, g, h, k, n
<1>3. /\ n \in Byte
      /\ Bit(n, 1) = a /\ Bit(n, 2) = b /\ Bit(n, 4) = c /\ Bit(n, 8) = d
      /\ Bit(n, 16) = e /\ Bit(n, 32) = g /\ Bit(n, 64) = h /\ Bit(n, 128) = k
  BY <1>1, <1>2 DEF Bit, Byte, Bits
<1>4. \A w \in Weights : Bit(n, w) = f[w]
  BY <1>3 DEF Weights, a, b, c, d, e, g, h, k
<1> QED
  BY <1>3, <1>4 DEF n

(* ByteXor is the exclusive or of each bit. *)
LEMMA XorBits ==
  ASSUME NEW x \in Byte, NEW y \in Byte
  PROVE  /\ ByteXor(x, y) \in Byte
         /\ \A w \in Weights : Bit(ByteXor(x, y), w) = (Bit(x, w) + Bit(y, w)) % 2
<1> DEFINE d == [w \in Weights |-> (Bit(x, w) + Bit(y, w)) % 2]
<1>1. d \in [Weights -> Bits]
  <2>1. \A m, n \in Bits : (m + n) % 2 \in Bits
    BY DEF Bits
  <2>2. \A w \in Weights : (Bit(x, w) + Bit(y, w)) % 2 \in Bits
    BY <2>1, BitIs, Zenon
  <2> QED
    BY <2>2, Zenon
<1>2. ByteXor(x, y) = Weighted(d)
  <2>1. \A w \in Weights : Differ(x, y, w) = w * d[w]
    BY Zenon DEF Differ
  <2>2. \A w \in Weights : d[w] \in Nat
    BY <1>1 DEF Bits
  <2> HIDE DEF d
  <2>3. /\ Differ(x, y, 1) = 1 * d[1] /\ Differ(x, y, 2) = 2 * d[2] /\ Differ(x, y, 4) = 4 * d[4]
        /\ Differ(x, y, 8) = 8 * d[8] /\ Differ(x, y, 16) = 16 * d[16]
        /\ Differ(x, y, 32) = 32 * d[32] /\ Differ(x, y, 64) = 64 * d[64]
        /\ Differ(x, y, 128) = 128 * d[128] /\ d[1] \in Nat
    BY <2>1, <2>2 DEF Weights
  <2>4. 1 * d[1] = d[1]
    BY <2>3
  <2> QED
    BY <2>3, <2>4, Zenon DEF ByteXor, Weighted
<1>3. \A w \in Weights : d[w] = (Bit(x, w) + Bit(y, w)) % 2
  BY Zenon
<1> HIDE DEF d
<1> QED
  BY <1>1, <1>2, <1>3, BitsOfSum, Zenon

(* What is added to a byte can be read off the result. *)
LEMMA XorInjective ==
  ASSUME NEW x \in Byte, NEW y \in Byte, NEW z \in Byte, x # y
  PROVE  ByteXor(z, x) # ByteXor(z, y) /\ ByteXor(x, z) # ByteXor(y, z)
<1>1. \A l, m, n \in Bits : /\ (l + m) % 2 = (l + n) % 2 => m = n
                            /\ (m + l) % 2 = (n + l) % 2 => m = n
  BY DEF Bits
<1>2. PICK w \in Weights : Bit(x, w) # Bit(y, w)
  BY SameBits
<1>3. Bit(x, w) \in Bits /\ Bit(y, w) \in Bits /\ Bit(z, w) \in Bits
  BY BitIs, Zenon
<1>4. /\ (Bit(z, w) + Bit(x, w)) % 2 # (Bit(z, w) + Bit(y, w)) % 2
      /\ (Bit(x, w) + Bit(z, w)) % 2 # (Bit(y, w) + Bit(z, w)) % 2
  BY <1>1, <1>2, <1>3, Zenon
<1>5. /\ Bit(ByteXor(z, x), w) # Bit(ByteXor(z, y), w)
      /\ Bit(ByteXor(x, z), w) # Bit(ByteXor(y, z), w)
  <2>1. /\ Bit(ByteXor(z, x), w) = (Bit(z, w) + Bit(x, w)) % 2
        /\ Bit(ByteXor(z, y), w) = (Bit(z, w) + Bit(y, w)) % 2
        /\ Bit(ByteXor(x, z), w) = (Bit(x, w) + Bit(z, w)) % 2
        /\ Bit(ByteXor(y, z), w) = (Bit(y, w) + Bit(z, w)) % 2
    BY XorBits, Zenon
  <2> QED
    BY <1>4, <2>1, Zenon
<1> QED
  BY <1>5, Zenon

-----------------------------------------------------------------------------
(* One bit of the division by the polynomial.                              *)

LEMMA ShiftIs ==
  ASSUME NEW c \in Byte
  PROVE  /\ ShiftBit(c) \in Byte
         /\ ShiftBit(c) = IF c < 128 THEN 2 * c ELSE (2 * c - 256) - 2 * ((2 * c) % 8) + 7
BY DEF ShiftBit, ByteXor, Differ, Bit, Byte

(* Where the bits go: the one that is shifted out comes back at the three  *)
(* places of the polynomial.                                               *)
Moved(c, s) ==
  /\ Bit(s, 1) = Bit(c, 128)
  /\ Bit(s, 2) = (Bit(c, 1) + Bit(c, 128)) % 2
  /\ Bit(s, 4) = (Bit(c, 2) + Bit(c, 128)) % 2
  /\ Bit(s, 8) = Bit(c, 4) /\ Bit(s, 16) = Bit(c, 8) /\ Bit(s, 32) = Bit(c, 16)
  /\ Bit(s, 64) = Bit(c, 32) /\ Bit(s, 128) = Bit(c, 64)

LEMMA ShiftBits ==
  ASSUME NEW c \in Byte
  PROVE  Moved(c, ShiftBit(c))
<1> DEFINE s == ShiftBit(c)
           top == Bit(c, 128)
           f == [w \in Weights |-> IF w = 1 THEN top
                                   ELSE IF w \in {2, 4} THEN (Bit(c, w \div 2) + top) % 2
                                   ELSE Bit(c, w \div 2)]
<1>1. /\ Bit(c, 1) \in Bits /\ Bit(c, 2) \in Bits /\ Bit(c, 4) \in Bits /\ Bit(c, 8) \in Bits
      /\ Bit(c, 16) \in Bits /\ Bit(c, 32) \in Bits /\ Bit(c, 64) \in Bits /\ top \in Bits
  BY BitIs DEF Weights
<1>2. c < 128 <=> top = 0
  BY DEF Bit, Byte
<1>3. (2 * c) % 8 = 2 * Bit(c, 1) + 4 * Bit(c, 2)
  BY DEF Bit, Byte
<1>4. c = Bit(c, 1) + 2 * Bit(c, 2) + 4 * Bit(c, 4) + 8 * Bit(c, 8)
            + 16 * Bit(c, 16) + 32 * Bit(c, 32) + 64 * Bit(c, 64) + 128 * top
  BY SumOfBits
<1>5. s = top + 2 * ((Bit(c, 1) + top) % 2) + 4 * ((Bit(c, 2) + top) % 2) + 8 * Bit(c, 4)
            + 16 * Bit(c, 8) + 32 * Bit(c, 16) + 64 * Bit(c, 32) + 128 * Bit(c, 64)
  <2>1. CASE top = 0
    <3>1. s = 2 * c
      BY <1>2, <2>1, ShiftIs
    <3>2. (Bit(c, 1) + top) % 2 = Bit(c, 1) /\ (Bit(c, 2) + top) % 2 = Bit(c, 2)
      BY <1>1, <2>1 DEF Bits
    <3> HIDE DEF s, top
    <3> QED
      BY <1>1, <1>4, <2>1, <3>1, <3>2 DEF Bits
  <2>2. CASE top = 1
    <3>1. s = (2 * c - 256) - 2 * ((2 * c) % 8) + 7
      BY <1>2, <2>2, ShiftIs
    <3>2. (Bit(c, 1) + top) % 2 = 1 - Bit(c, 1) /\ (Bit(c, 2) + top) % 2 = 1 - Bit(c, 2)
      BY <1>1, <2>2 DEF Bits
    <3> HIDE DEF s, top
    <3> QED
      BY <1>1, <1>3, <1>4, <2>2, <3>1, <3>2 DEF Bits
  <2> QED
    BY <1>1, <2>1, <2>2 DEF Bits
<1> HIDE DEF s, top
<1>6. /\ f[1] = top /\ f[2] = (Bit(c, 1) + top) % 2 /\ f[4] = (Bit(c, 2) + top) % 2
      /\ f[8] = Bit(c, 4) /\ f[16] = Bit(c, 8) /\ f[32] = Bit(c, 16) /\ f[64] = Bit(c, 32)
      /\ f[128] = Bit(c, 64)
  BY DEF Weights
<1>7. f \in [Weights -> Bits]
  <2>1. (Bit(c, 1) + top) % 2 \in Bits /\ (Bit(c, 2) + top) % 2 \in Bits
    BY <1>1 DEF Bits
  <2>2. \A w \in Weights : f[w] \in Bits
    BY <1>1, <1>6, <2>1 DEF Weights
  <2> QED
    BY <2>2, Zenon
<1> HIDE DEF f
<1>8. s = Weighted(f)
  BY <1>5, <1>6, Zenon DEF Weighted
<1>9. \A w \in Weights : Bit(s, w) = f[w]
  BY <1>7, <1>8, BitsOfSum, Zenon
<1>10. 1 \in Weights /\ 2 \in Weights /\ 4 \in Weights /\ 8 \in Weights /\ 16 \in Weights
       /\ 32 \in Weights /\ 64 \in Weights /\ 128 \in Weights
  BY DEF Weights
<1>11. /\ Bit(s, 1) = top
       /\ Bit(s, 2) = (Bit(c, 1) + top) % 2
       /\ Bit(s, 4) = (Bit(c, 2) + top) % 2
       /\ Bit(s, 8) = Bit(c, 4) /\ Bit(s, 16) = Bit(c, 8) /\ Bit(s, 32) = Bit(c, 16)
       /\ Bit(s, 64) = Bit(c, 32) /\ Bit(s, 128) = Bit(c, 64)
  BY <1>6, <1>9, <1>10, Zenon
<1> QED
  BY <1>11, Zenon DEF Moved, s, top

(* A shift keeps sums and tells bytes apart. *)
LEMMA ShiftLinear ==
  ASSUME NEW x \in Byte, NEW y \in Byte
  PROVE  ShiftBit(ByteXor(x, y)) = ByteXor(ShiftBit(x), ShiftBit(y))
<1> DEFINE z == ByteXor(x, y)
           s == ShiftBit(z)
           t == ByteXor(ShiftBit(x), ShiftBit(y))
<1>1. z \in Byte /\ \A w \in Weights : Bit(z, w) = (Bit(x, w) + Bit(y, w)) % 2
  BY XorBits, Zenon
<1>2. s \in Byte /\ ShiftBit(x) \in Byte /\ ShiftBit(y) \in Byte
  BY <1>1, ShiftIs, Zenon
<1>3. t \in Byte /\ \A w \in Weights : Bit(t, w) = (Bit(ShiftBit(x), w) + Bit(ShiftBit(y), w)) % 2
  BY <1>2, XorBits, Zenon
<1>4. 1 \in Weights /\ 2 \in Weights /\ 4 \in Weights /\ 8 \in Weights /\ 16 \in Weights
      /\ 32 \in Weights /\ 64 \in Weights /\ 128 \in Weights
  BY DEF Weights
<1>5. \A w \in Weights : Bit(x, w) \in Bits /\ Bit(y, w) \in Bits
  BY BitIs, Zenon
<1> DEFINE P == ShiftBit(x)
           Q == ShiftBit(y)
<1>7. Moved(x, P) /\ Moved(y, Q)
  BY ShiftBits, Zenon
<1> HIDE DEF z
<1>8. Moved(z, s)
  BY <1>1, ShiftBits, Zenon
<1>9. \A w \in Weights : Bit(t, w) = (Bit(P, w) + Bit(Q, w)) % 2
  BY <1>3
<1> HIDE DEF s, t, P, Q
<1>10. ASSUME NEW v \in Weights, NEW w \in Weights,
              Bit(s, w) = Bit(z, v), Bit(P, w) = Bit(x, v), Bit(Q, w) = Bit(y, v)
       PROVE  Bit(s, w) = Bit(t, w)
  <2>1. Bit(z, v) = (Bit(x, v) + Bit(y, v)) % 2
    BY <1>1, Zenon
  <2>2. Bit(t, w) = (Bit(P, w) + Bit(Q, w)) % 2
    BY <1>9, Zenon
  <2> QED
    BY <1>10, <2>1, <2>2, Zenon
<1>11. ASSUME NEW v \in Weights, NEW w \in Weights,
              Bit(s, w) = (Bit(z, v) + Bit(z, 128)) % 2,
              Bit(P, w) = (Bit(x, v) + Bit(x, 128)) % 2,
              Bit(Q, w) = (Bit(y, v) + Bit(y, 128)) % 2
       PROVE  Bit(s, w) = Bit(t, w)
  <2>1. /\ Bit(z, v) = (Bit(x, v) + Bit(y, v)) % 2
        /\ Bit(z, 128) = (Bit(x, 128) + Bit(y, 128)) % 2
    BY <1>1, <1>4, Zenon
  <2>2. Bit(t, w) = (Bit(P, w) + Bit(Q, w)) % 2
    BY <1>9, Zenon
  <2>3. /\ Bit(x, v) \in Bits /\ Bit(y, v) \in Bits
        /\ Bit(x, 128) \in Bits /\ Bit(y, 128) \in Bits
    BY <1>4, <1>5, Zenon
  <2>4. (((Bit(x, v) + Bit(y, v)) % 2) + ((Bit(x, 128) + Bit(y, 128)) % 2)) % 2
          = (((Bit(x, v) + Bit(x, 128)) % 2) + ((Bit(y, v) + Bit(y, 128)) % 2)) % 2
    BY <2>3 DEF Bits
  <2> QED
    BY <1>11, <2>1, <2>2, <2>4, Zenon
<1>12. /\ Bit(s, 1) = Bit(t, 1) /\ Bit(s, 2) = Bit(t, 2) /\ Bit(s, 4) = Bit(t, 4)
       /\ Bit(s, 8) = Bit(t, 8) /\ Bit(s, 16) = Bit(t, 16) /\ Bit(s, 32) = Bit(t, 32)
       /\ Bit(s, 64) = Bit(t, 64) /\ Bit(s, 128) = Bit(t, 128)
  <2>1. Bit(s, 1) = Bit(t, 1)
    BY <1>4, <1>7, <1>8, <1>10 DEF Moved
  <2>2. Bit(s, 2) = Bit(t, 2)
    BY <1>4, <1>7, <1>8, <1>11 DEF Moved
  <2>3. Bit(s, 4) = Bit(t, 4)
    BY <1>4, <1>7, <1>8, <1>11 DEF Moved
  <2>4. Bit(s, 8) = Bit(t, 8)
    BY <1>4, <1>7, <1>8, <1>10 DEF Moved
  <2>5. Bit(s, 16) = Bit(t, 16)
    BY <1>4, <1>7, <1>8, <1>10 DEF Moved
  <2>6. Bit(s, 32) = Bit(t, 32)
    BY <1>4, <1>7, <1>8, <1>10 DEF Moved
  <2>7. Bit(s, 64) = Bit(t, 64)
    BY <1>4, <1>7, <1>8, <1>10 DEF Moved
  <2>8. Bit(s, 128) = Bit(t, 128)
    BY <1>4, <1>7, <1>8, <1>10 DEF Moved
  <2> QED
    BY <2>1, <2>2, <2>3, <2>4, <2>5, <2>6, <2>7, <2>8
<1>13. \A w \in Weights : Bit(s, w) = Bit(t, w)
  BY <1>12 DEF Weights
<1>14. s = t
  BY <1>2, <1>3, <1>13, SameBits, Zenon
<1> QED
  BY <1>14 DEF s, t, z

LEMMA ShiftInjective ==
  ASSUME NEW x \in Byte, NEW y \in Byte, ShiftBit(x) = ShiftBit(y)
  PROVE  x = y
<1>1. \A c \in Byte : ShiftBit(c) = IF c < 128 THEN 2 * c ELSE (2 * c - 256) - 2 * ((2 * c) % 8) + 7
  BY ShiftIs
<1>2. \A m, n \in 0..255 :
        2 * m - 2 * ((2 * m) % 8) = 2 * n - 2 * ((2 * n) % 8) => m = n
  OBVIOUS
<1>3. \A c \in Byte : c < 128 => ShiftBit(c) % 2 = 0
  BY <1>1 DEF Byte
<1>4. \A c \in Byte : ~(c < 128) => ShiftBit(c) % 2 = 1
  BY <1>1 DEF Byte
<1>5. x < 128 <=> y < 128
  BY <1>3, <1>4
<1>6. CASE x < 128
  BY <1>1, <1>5, <1>6 DEF Byte
<1>7. CASE ~(x < 128)
  <2>1. 2 * x - 2 * ((2 * x) % 8) = 2 * y - 2 * ((2 * y) % 8)
    BY <1>1, <1>5, <1>7 DEF Byte
  <2> QED
    BY <1>2, <2>1, Zenon DEF Byte
<1> QED
  BY <1>6, <1>7

-----------------------------------------------------------------------------
(* Eight of them: the division of one byte.                                *)

Division(x) == ShiftNibble(ShiftNibble(x))

LEMMA NibbleLinear ==
  ASSUME NEW x \in Byte, NEW y \in Byte
  PROVE  /\ ShiftNibble(x) \in Byte
         /\ ShiftNibble(ByteXor(x, y)) = ByteXor(ShiftNibble(x), ShiftNibble(y))
         /\ ShiftNibble(x) = ShiftNibble(y) => x = y
<1> DEFINE x1 == ShiftBit(x)
           x2 == ShiftBit(x1)
           x3 == ShiftBit(x2)
           x4 == ShiftBit(x3)
           y1 == ShiftBit(y)
           y2 == ShiftBit(y1)
           y3 == ShiftBit(y2)
           y4 == ShiftBit(y3)
<1>1. x1 \in Byte /\ y1 \in Byte /\ ShiftBit(ByteXor(x, y)) = ByteXor(x1, y1) /\ (x1 = y1 => x = y)
  BY ShiftIs, ShiftLinear, ShiftInjective, Zenon
<1>2. ShiftNibble(x) = x4 /\ ShiftNibble(y) = y4
      /\ ShiftNibble(ByteXor(x, y)) = ShiftBit(ShiftBit(ShiftBit(ShiftBit(ByteXor(x, y)))))
  BY Zenon DEF ShiftNibble
<1> HIDE DEF x1, y1
<1>3. /\ x2 \in Byte /\ y2 \in Byte
      /\ ShiftBit(ByteXor(x1, y1)) = ByteXor(x2, y2) /\ (x2 = y2 => x1 = y1)
  BY <1>1, ShiftIs, ShiftLinear, ShiftInjective, Zenon
<1> HIDE DEF x2, y2
<1>4. /\ x3 \in Byte /\ y3 \in Byte
      /\ ShiftBit(ByteXor(x2, y2)) = ByteXor(x3, y3) /\ (x3 = y3 => x2 = y2)
  BY <1>3, ShiftIs, ShiftLinear, ShiftInjective, Zenon
<1> HIDE DEF x3, y3
<1>5. /\ x4 \in Byte /\ y4 \in Byte
      /\ ShiftBit(ByteXor(x3, y3)) = ByteXor(x4, y4) /\ (x4 = y4 => x3 = y3)
  BY <1>4, ShiftIs, ShiftLinear, ShiftInjective, Zenon
<1> HIDE DEF x4, y4
<1> QED
  BY <1>1, <1>2, <1>3, <1>4, <1>5, Zenon

LEMMA DivisionLinear ==
  ASSUME NEW x \in Byte, NEW y \in Byte
  PROVE  /\ Division(x) \in Byte
         /\ Division(ByteXor(x, y)) = ByteXor(Division(x), Division(y))
         /\ Division(x) = Division(y) => x = y
<1>1. ShiftNibble(x) \in Byte /\ ShiftNibble(y) \in Byte
      /\ ShiftNibble(ByteXor(x, y)) = ByteXor(ShiftNibble(x), ShiftNibble(y))
      /\ (ShiftNibble(x) = ShiftNibble(y) => x = y)
  BY NibbleLinear, Zenon
<1> DEFINE P == ShiftNibble(x)
           Q == ShiftNibble(y)
<1>2. /\ Division(x) = ShiftNibble(P) /\ Division(y) = ShiftNibble(Q)
      /\ Division(ByteXor(x, y)) = ShiftNibble(ShiftNibble(ByteXor(x, y)))
  BY Zenon DEF Division
<1> HIDE DEF P, Q
<1>3. P \in Byte /\ Q \in Byte /\ ShiftNibble(ByteXor(x, y)) = ByteXor(P, Q) /\ (P = Q => x = y)
  BY <1>1 DEF P, Q
<1>4. /\ ShiftNibble(P) \in Byte
      /\ ShiftNibble(ByteXor(P, Q)) = ByteXor(ShiftNibble(P), ShiftNibble(Q))
      /\ (ShiftNibble(P) = ShiftNibble(Q) => P = Q)
  BY <1>3, NibbleLinear, Zenon
<1> QED
  BY <1>2, <1>3, <1>4, Zenon

LEMMA DivisionOfDouble ==
  ASSUME NEW x \in 0..127
  PROVE  /\ Division(2 * x) = ShiftBit(Division(x))
         /\ Division(2 * x + 1) = Division(2 * x) - 2 * (Division(2 * x) % 8) + 7
<1>1. x \in Byte /\ 2 * x \in Byte /\ 1 \in Byte /\ ShiftBit(x) = 2 * x
  BY ShiftIs DEF Byte
<1>2. Division(ShiftBit(x)) = ShiftBit(Division(x))
  BY Zenon DEF Division, ShiftNibble
<1>3. 2 * x + 1 = ByteXor(2 * x, 1)
  BY DEF ByteXor, Differ, Bit
<1>4. Division(1) = 7
  BY ShiftIs DEF Division, ShiftNibble, Byte
<1>5. \A y \in Byte : ByteXor(y, 7) = y - 2 * (y % 8) + 7
  BY DEF ByteXor, Differ, Bit, Byte
<1>6. /\ Division(2 * x) \in Byte
      /\ Division(ByteXor(2 * x, 1)) = ByteXor(Division(2 * x), Division(1))
  BY <1>1, DivisionLinear, Zenon
<1>7. ByteXor(Division(2 * x), 7) = Division(2 * x) - 2 * (Division(2 * x) % 8) + 7
  BY <1>5, <1>6, Zenon
<1> QED
  BY <1>1, <1>2, <1>3, <1>4, <1>6, <1>7, Zenon

-----------------------------------------------------------------------------
(* The table.                                                              *)

LEMMA TableOfBytes == \A x \in 0..255 : CrcTable[x + 1] \in Byte
BY DEF CrcTable, Byte

LEMMA TableOfDouble ==
  /\ CrcTable[1] = 0
  /\ \A x \in 0..127 : CrcTable[2 * x + 1] = ShiftBit(CrcTable[x + 1])
  /\ \A x \in 0..127 : CrcTable[2 * x + 2]
                         = CrcTable[2 * x + 1] - 2 * (CrcTable[2 * x + 1] % 8) + 7
<1> DEFINE Shifted(c) == IF c < 128 THEN 2 * c ELSE (2 * c - 256) - 2 * ((2 * c) % 8) + 7
<1>1. CrcTable[1] = 0
  BY DEF CrcTable
<1>2. \A x \in 0..127 : CrcTable[2 * x + 1] = Shifted(CrcTable[x + 1])
  BY DEF CrcTable
<1>3. \A x \in 0..127 : CrcTable[2 * x + 2]
                         = CrcTable[2 * x + 1] - 2 * (CrcTable[2 * x + 1] % 8) + 7
  BY DEF CrcTable
<1>4. \A x \in 0..127 : CrcTable[x + 1] \in Byte
  <2>1. ASSUME NEW x \in 0..127 PROVE x \in 0..255
    OBVIOUS
  <2>2. ASSUME NEW x \in 0..127 PROVE CrcTable[x + 1] \in Byte
    <3>1. x \in 0..255
      BY <2>1
    <3> QED
      BY <3>1, TableOfBytes
  <2> QED
    BY <2>2
<1>5. \A x \in 0..127 : ShiftBit(CrcTable[x + 1]) = Shifted(CrcTable[x + 1])
  BY <1>4, ShiftIs, Zenon
<1> HIDE DEF Shifted
<1>6. \A x \in 0..127 : CrcTable[2 * x + 1] = ShiftBit(CrcTable[x + 1])
  BY <1>2, <1>5, Zenon
<1> QED
  BY <1>1, <1>3, <1>6, Zenon

(* Every entry of crcTable is what the division by the polynomial leaves  *)
(* of its index (the 256 numbers were typed in, crc.hpp:20).               *)
THEOREM TableIsDivision == \A x \in Byte : CrcTable[x + 1] = Division(x)
<1> DEFINE Holds(x) == CrcTable[x + 1] = Division(x)
           S == {n \in Nat : \A x \in 0..n : x <= 255 => Holds(x)}
<1>1. Holds(0)
  <2>1. Division(0) = 0
    BY ShiftIs DEF Division, ShiftNibble, Byte
  <2> QED
    BY <2>1, TableOfDouble
<1>2. ASSUME NEW x \in 0..127, Holds(x)
      PROVE  Holds(2 * x) /\ Holds(2 * x + 1)
  <2>1. CrcTable[2 * x + 1] = Division(2 * x)
    BY <1>2, TableOfDouble, DivisionOfDouble, Zenon
  <2>2. CrcTable[2 * x + 2] = Division(2 * x + 1)
    BY <2>1, TableOfDouble, DivisionOfDouble, Zenon
  <2>3. (2 * x + 1) + 1 = 2 * x + 2
    OBVIOUS
  <2> QED
    BY <2>1, <2>2, <2>3, Zenon
<1> HIDE DEF Holds
<1>3. 0 \in S
  BY <1>1
<1>4. ASSUME NEW n \in Nat, n \in S
      PROVE  n + 1 \in S
  <2>1. SUFFICES ASSUME n + 1 <= 255 PROVE Holds(n + 1)
    BY <1>4
  <2>2. PICK x \in 0..127 : x <= n /\ (n + 1 = 2 * x \/ n + 1 = 2 * x + 1)
    <3>1. (n + 1) \div 2 \in 0..127 /\ (n + 1) \div 2 <= n
          /\ (n + 1 = 2 * ((n + 1) \div 2) \/ n + 1 = 2 * ((n + 1) \div 2) + 1)
      BY <2>1
    <3> QED
      BY <3>1, Zenon
  <2>3. Holds(x)
    BY <1>4, <2>2
  <2> QED
    BY <1>2, <2>2, <2>3, Zenon
<1> HIDE DEF S
<1>5. \A n \in Nat : n \in S
  BY <1>3, <1>4, SetInduction
<1>6. 255 \in S
  BY <1>5
<1> QED
  BY <1>6 DEF S, Holds, Byte

-----------------------------------------------------------------------------
(* One byte of a checksum.                                                 *)

(* The table-driven step is the bitwise one, and neither of its arguments  *)
(* can change without its result.                                          *)
LEMMA StepIs ==
  ASSUME NEW c \in Byte, NEW b \in Byte
  PROVE  CrcStep(c, b) \in Byte /\ CrcStep(c, b) = PolyStep(c, b)
<1>1. ByteXor(c, b) \in Byte
  BY XorBits
<1>2. ByteXor(c, b) % 256 = ByteXor(c, b)
  BY <1>1 DEF Byte
<1>3. CrcStep(c, b) = Division(ByteXor(c, b))
  BY <1>1, <1>2, TableIsDivision, Zenon DEF CrcStep
<1>4. Division(ByteXor(c, b)) \in Byte
  BY <1>1, DivisionLinear, Zenon
<1> QED
  BY <1>3, <1>4, Zenon DEF PolyStep, Division

LEMMA StepInjective ==
  ASSUME NEW x \in Byte, NEW y \in Byte, NEW z \in Byte, x # y
  PROVE  CrcStep(x, z) # CrcStep(y, z) /\ CrcStep(z, x) # CrcStep(z, y)
<1>1. /\ ByteXor(x, z) \in Byte /\ ByteXor(y, z) \in Byte
      /\ ByteXor(z, x) \in Byte /\ ByteXor(z, y) \in Byte
      /\ ByteXor(x, z) # ByteXor(y, z) /\ ByteXor(z, x) # ByteXor(z, y)
  BY XorBits, XorInjective, Zenon
<1>2. /\ Division(ByteXor(x, z)) # Division(ByteXor(y, z))
      /\ Division(ByteXor(z, x)) # Division(ByteXor(z, y))
  BY <1>1, DivisionLinear, Zenon
<1>3. /\ CrcStep(x, z) = Division(ByteXor(x, z)) /\ CrcStep(y, z) = Division(ByteXor(y, z))
      /\ CrcStep(z, x) = Division(ByteXor(z, x)) /\ CrcStep(z, y) = Division(ByteXor(z, y))
  BY StepIs, Zenon DEF PolyStep, Division
<1> QED
  BY <1>2, <1>3, Zenon

-----------------------------------------------------------------------------
(* The checksum of a sequence of bytes.                                    *)

(* The checksums, begun with c, of the prefixes of data. *)
Sums(c, data, v) ==
  /\ v[0] = c
  /\ \A q \in 1..Len(data) : v[q] = CrcStep(v[q - 1], data[q])

LEMMA SumsExist ==
  ASSUME NEW c \in Byte, NEW data \in Seq(Byte)
  PROVE  \E v \in [0..Len(data) -> Byte] : Sums(c, data, v)
<1> DEFINE n == Len(data)
           G == [p \in Byte \X (1..n) |-> CrcStep(p[1], data[p[2]])]
<1>1. n \in Nat /\ \A q \in 1..n : data[q] \in Byte
  BY ElementOfSeq
<1>2. G \in [Byte \X (1..n) -> Byte]
  <2>1. ASSUME NEW p \in Byte \X (1..n) PROVE CrcStep(p[1], data[p[2]]) \in Byte
    <3>1. p[1] \in Byte /\ p[2] \in 1..n
      OBVIOUS
    <3> QED
      BY <1>1, <3>1, StepIs, Zenon
  <2> QED
    BY <2>1
<1>3. \A x \in Byte, q \in 1..n : G[<<x, q>>] = CrcStep(x, data[q])
  OBVIOUS
<1> HIDE DEF n, G
<1>4. PICK v \in [0..n -> Byte] : Solves(v, c, G, n)
  BY <1>1, <1>2, RecursionExists, Zenon
<1>5. \A q \in 1..n : v[q - 1] \in Byte
  BY <1>1
<1>6. \A q \in 1..n : v[q] = CrcStep(v[q - 1], data[q])
  BY <1>3, <1>4, <1>5, Zenon DEF Solves
<1> QED
  BY <1>4, <1>6 DEF n, Sums, Solves

(* The recursive definition of Crc8Update has their values. *)
LEMMA UpdateIs ==
  ASSUME NEW c \in Byte, NEW data \in Seq(Byte), NEW v, Sums(c, data, v)
  PROVE  Crc8Update(c, data) = v[Len(data)]
<1> DEFINE n == Len(data)
           F(g) == [q \in 0..n |-> IF q = 0 THEN c ELSE CrcStep(g[q - 1], data[q])]
           crc == CHOOSE g : g = F(g)
<1>1. n \in Nat /\ Crc8Update(c, data) = crc[n]
  BY DEF Crc8Update
<1>2. PICK g \in [0..n -> Byte] : Sums(c, data, g)
  BY SumsExist
<1>3. g = F(g)
  <2>1. \A q \in 0..n : g[q] = IF q = 0 THEN c ELSE CrcStep(g[q - 1], data[q])
    BY <1>2 DEF Sums
  <2> QED
    BY <2>1
<1>4. crc = F(crc)
  BY <1>3
<1>5. Sums(c, data, crc)
  <2>1. \A q \in 0..n : crc[q] = F(crc)[q]
    BY <1>4, Zenon
  <2> HIDE DEF crc
  <2>2. crc[0] = c
    BY <1>1, <2>1
  <2>3. \A q \in 1..n : crc[q] = CrcStep(crc[q - 1], data[q])
    BY <1>1, <2>1
  <2> QED
    BY <2>2, <2>3 DEF Sums
<1> HIDE DEF crc
<1>6. GoOnAlike(crc, v, n) /\ crc[0] = v[0]
  BY <1>5, Zenon DEF GoOnAlike, Sums
<1>7. \A k \in 0..n : crc[k] = v[k]
  BY <1>1, <1>6, SameRecursion, Zenon
<1> QED
  BY <1>1, <1>7

(* So has the bitwise reference. *)
LEMMA PolyCrcIs ==
  ASSUME NEW data \in Seq(Byte)
  PROVE  PolyCrc(data) = Crc8Update(0, data)
<1> DEFINE n == Len(data)
           F(g) == [q \in 0..n |-> IF q = 0 THEN 0 ELSE PolyStep(g[q - 1], data[q])]
           crc == CHOOSE g : g = F(g)
<1>1. n \in Nat /\ PolyCrc(data) = crc[n] /\ 0 \in Byte
  BY DEF PolyCrc, Byte
<1>2. PICK g \in [0..n -> Byte] : Sums(0, data, g)
  BY <1>1, SumsExist
<1>3. \A q \in 1..n : g[q] = PolyStep(g[q - 1], data[q])
  <2>1. \A q \in 1..n : g[q - 1] \in Byte /\ data[q] \in Byte
    BY <1>1, ElementOfSeq
  <2> QED
    BY <1>2, <2>1, StepIs, Zenon DEF Sums
<1>4. g = F(g)
  <2>1. \A q \in 0..n : g[q] = IF q = 0 THEN 0 ELSE PolyStep(g[q - 1], data[q])
    BY <1>2, <1>3 DEF Sums
  <2> QED
    BY <2>1
<1>5. crc = F(crc)
  BY <1>4
<1>6. crc[0] = 0 /\ \A q \in 1..n : crc[q] = PolyStep(crc[q - 1], data[q])
  <2>1. \A q \in 0..n : crc[q] = F(crc)[q]
    BY <1>5, Zenon
  <2> HIDE DEF crc
  <2> QED
    BY <1>1, <2>1
<1> HIDE DEF crc
<1>7. GoOnAlike(crc, g, n) /\ crc[0] = g[0]
  BY <1>2, <1>3, <1>6, Zenon DEF GoOnAlike, Sums
<1>8. \A k \in 0..n : crc[k] = g[k]
  BY <1>1, <1>7, SameRecursion, Zenon
<1>9. Crc8Update(0, data) = g[n]
  BY <1>1, <1>2, UpdateIs, Zenon
<1> QED
  BY <1>1, <1>8, <1>9

(* The checksum may be taken in pieces. *)
LEMMA UpdateJoins ==
  ASSUME NEW c \in Byte, NEW s \in Seq(Byte), NEW t \in Seq(Byte)
  PROVE  /\ Crc8Update(c, s) \in Byte
         /\ Crc8Update(c, s \o t) = Crc8Update(Crc8Update(c, s), t)
<1> DEFINE m == Len(s)
           n == Len(t)
           st == s \o t
<1>1. /\ m \in Nat /\ n \in Nat /\ st \in Seq(Byte) /\ Len(st) = m + n
      /\ \A q \in 1..m : st[q] = s[q]
      /\ \A q \in 1..n : st[m + q] = t[q]
  OBVIOUS
<1> HIDE DEF st
<1>2. PICK v \in [0..(m + n) -> Byte] : Sums(c, st, v)
  BY <1>1, SumsExist
<1>3. v[0] = c /\ \A q \in 1..(m + n) : v[q] = CrcStep(v[q - 1], st[q])
  BY <1>1, <1>2, Zenon DEF Sums
<1>4. Sums(c, s, v)
  <2>1. \A q \in 1..m : q \in 1..(m + n)
    BY <1>1
  <2> QED
    BY <1>1, <1>3, <2>1, Zenon DEF Sums
<1> DEFINE u == [q \in 0..n |-> v[m + q]]
<1>5. Sums(v[m], t, u)
  <2>1. u[0] = v[m]
    BY <1>1
  <2>2. ASSUME NEW q \in 1..n
        PROVE  u[q] = CrcStep(u[q - 1], t[q])
    <3>1. m + q \in 1..(m + n) /\ (m + q) - 1 = m + (q - 1)
      BY <1>1
    <3>2. u[q] = v[m + q] /\ u[q - 1] = v[m + (q - 1)]
      OBVIOUS
    <3> QED
      BY <1>1, <1>3, <3>1, <3>2, Zenon
  <2> QED
    BY <2>1, <2>2 DEF Sums
<1>6. v[m] \in Byte /\ u[n] = v[m + n]
  BY <1>1
<1> HIDE DEF u
<1>7. Crc8Update(c, s) = v[m] /\ Crc8Update(v[m], t) = u[n] /\ Crc8Update(c, st) = v[m + n]
  <2>1. Crc8Update(c, s) = v[m]
    BY <1>4, UpdateIs, Zenon
  <2>2. Crc8Update(v[m], t) = u[n]
    BY <1>5, <1>6, UpdateIs, Zenon
  <2>3. Crc8Update(c, st) = v[m + n]
    BY <1>1, <1>2, UpdateIs, Zenon
  <2> QED
    BY <2>1, <2>2, <2>3
<1> QED
  BY <1>6, <1>7, Zenon DEF st

(* One byte that differs makes all the checksums from there on differ. *)
LEMMA OneByteDiffers ==
  ASSUME NEW c \in Byte, NEW s \in Seq(Byte), NEW t \in Seq(Byte), Len(s) = Len(t),
         NEW q \in 1..Len(s), s[q] # t[q],
         \A j \in 1..Len(s) : j # q => s[j] = t[j]
  PROVE  Crc8Update(c, s) # Crc8Update(c, t)
<1> DEFINE n == Len(s)
<1>1. n \in Nat /\ \A j \in 1..n : s[j] \in Byte /\ t[j] \in Byte
  BY ElementOfSeq
<1>2. PICK v \in [0..n -> Byte] : Sums(c, s, v)
  BY SumsExist
<1>3. PICK w \in [0..n -> Byte] : Sums(c, t, w)
  BY SumsExist
<1>4. /\ v[0] = c /\ w[0] = c
      /\ \A j \in 1..n : v[j] = CrcStep(v[j - 1], s[j]) /\ w[j] = CrcStep(w[j - 1], t[j])
  BY <1>2, <1>3, Zenon DEF Sums
<1> HIDE DEF n
<1> DEFINE S == {k \in 0..n : (v[k] = w[k]) = (k < q)}
<1>5. 0 \in S
  BY <1>1, <1>4 DEF n
<1>6. ASSUME NEW k \in 1..n, k - 1 \in S
      PROVE  k \in S
  <2>1. v[k - 1] \in Byte /\ w[k - 1] \in Byte /\ s[k] \in Byte /\ t[k] \in Byte
    BY <1>1
  <2>2. v[k] = CrcStep(v[k - 1], s[k]) /\ w[k] = CrcStep(w[k - 1], t[k])
    BY <1>4, Zenon
  <2>3. CASE k < q
    <3>1. v[k - 1] = w[k - 1] /\ s[k] = t[k]
      BY <1>6, <2>3 DEF n
    <3>2. v[k] = w[k]
      BY <2>2, <3>1, Zenon
    <3> QED
      BY <2>3, <3>2
  <2>4. CASE k = q
    <3>1. v[k - 1] = w[k - 1] /\ s[k] # t[k] /\ ~(k < q)
      BY <1>6, <2>4 DEF n
    <3>2. v[k] # w[k]
      BY <2>1, <2>2, <3>1, StepInjective, Zenon
    <3> QED
      BY <3>1, <3>2
  <2>5. CASE k > q
    <3>1. v[k - 1] # w[k - 1] /\ s[k] = t[k] /\ ~(k < q)
      BY <1>6, <2>5 DEF n
    <3>2. v[k] # w[k]
      BY <2>1, <2>2, <3>1, StepInjective, Zenon
    <3> QED
      BY <3>1, <3>2
  <2> QED
    BY <2>3, <2>4, <2>5 DEF n
<1> HIDE DEF S
<1>7. \A k \in 0..n : k \in S
  BY <1>1, <1>5, <1>6, BoundedInduction
<1>8. v[n] # w[n]
  <2>1. n \in 0..n /\ ~(n < q)
    BY <1>1 DEF n
  <2> QED
    BY <1>7, <2>1 DEF S
<1>9. Crc8Update(c, s) = v[n] /\ Crc8Update(c, t) = w[n]
  BY <1>2, <1>3, UpdateIs, Zenon DEF n
<1> QED
  BY <1>8, <1>9

-----------------------------------------------------------------------------
(* The inductive invariant: each end has the checksum of its own bytes.    *)

Summed ==
  /\ CrcTypeOK
  /\ sent = Crc8Update(0, message)
  /\ received = Crc8Update(0, arrived)

LEMMA DataAreBytes == ASSUME NEW s \in Seq(DataBytes) PROVE s \in Seq(Byte)
<1>1. DataBytes \subseteq Byte
  BY DataAssumption DEF Byte
<1> QED
  BY <1>1

LEMMA CrcInitSummed == CrcInit => Summed
<1>1. SUFFICES ASSUME CrcInit PROVE Summed
  OBVIOUS
<1>2. /\ message = <<>> /\ arrived = <<>> /\ sent = 0 /\ received = 0
      /\ 0 \in Byte /\ <<>> \in Seq(Byte) /\ <<>> \in Seq(DataBytes) /\ Len(<<>>) = 0
  BY <1>1 DEF CrcInit, Byte
<1>3. CrcTypeOK
  BY <1>2, Zenon DEF CrcTypeOK
<1>4. PICK v \in [0..Len(<<>>) -> Byte] : Sums(0, <<>>, v)
  BY <1>2, SumsExist
<1>5. Crc8Update(0, <<>>) = v[Len(<<>>)]
  BY <1>2, <1>4, UpdateIs, Zenon
<1>6. Crc8Update(0, <<>>) = 0
  BY <1>2, <1>4, <1>5, Zenon DEF Sums
<1> QED
  BY <1>2, <1>3, <1>6, Zenon DEF Summed

(* A chunk is a sequence, and what arrives of it is as long. *)
LEMMA FeedSummed ==
  ASSUME Summed, NEW chunk \in Seq(DataBytes), NEW got \in Seq(Byte), Len(got) = Len(chunk),
         Feed(chunk, got)
  PROVE  Summed'
<1>1. /\ message \in Seq(DataBytes) /\ arrived \in Seq(Byte) /\ Len(arrived) = Len(message)
      /\ sent = Crc8Update(0, message) /\ received = Crc8Update(0, arrived) /\ 0 \in Byte
  BY DEF Summed, CrcTypeOK, Byte
<1>2. message \in Seq(Byte) /\ chunk \in Seq(Byte)
  BY <1>1, DataAreBytes
<1>3. /\ message' = message \o chunk /\ arrived' = arrived \o got
      /\ sent' = Crc8Update(sent, chunk) /\ received' = Crc8Update(received, got)
  BY DEF Feed
<1>4. sent' = Crc8Update(0, message')
  <2>1. Crc8Update(0, message \o chunk) = Crc8Update(sent, chunk)
    BY <1>1, <1>2, UpdateJoins, Zenon
  <2> QED
    BY <1>3, <2>1, Zenon
<1>5. received' = Crc8Update(0, arrived')
  <2>1. Crc8Update(0, arrived \o got) = Crc8Update(received, got)
    BY <1>1, UpdateJoins, Zenon
  <2> QED
    BY <1>3, <2>1, Zenon
<1>6. /\ message' \in Seq(DataBytes) /\ arrived' \in Seq(Byte) /\ Len(arrived') = Len(message')
  <2>1. message \o chunk \in Seq(DataBytes) /\ Len(message \o chunk) = Len(message) + Len(chunk)
    BY <1>1, ConcatProperties, Zenon
  <2>2. arrived \o got \in Seq(Byte) /\ Len(arrived \o got) = Len(arrived) + Len(got)
    BY <1>1, ConcatProperties, Zenon
  <2> QED
    BY <1>1, <1>3, <2>1, <2>2, Zenon
<1>7. sent' \in Byte /\ received' \in Byte
  <2>1. sent \in Byte /\ received \in Byte
    BY DEF Summed, CrcTypeOK
  <2>2. Crc8Update(sent, chunk) \in Byte /\ Crc8Update(received, got) \in Byte
    BY <1>2, <2>1, UpdateJoins, Zenon
  <2> QED
    BY <1>3, <2>2, Zenon
<1> QED
  BY <1>4, <1>5, <1>6, <1>7, Zenon DEF Summed, CrcTypeOK

LEMMA CrcNextSummed == Summed /\ [CrcNext]_crcVars => Summed'
<1>1. SUFFICES ASSUME Summed, [CrcNext]_crcVars PROVE Summed'
  OBVIOUS
<1>2. ASSUME NEW chunk \in Chunks
      PROVE  /\ chunk \in Seq(DataBytes) /\ chunk \in Seq(Byte)
             /\ \A q \in 1..Len(chunk) : chunk[q] \in Byte
  <2>1. PICK n \in 1..MaxChunk : chunk \in [1..n -> DataBytes]
    BY DEF Chunks
  <2>2. n \in Nat
    BY <2>1, DataAssumption
  <2>3. chunk \in Seq(DataBytes)
    BY <2>1, <2>2
  <2> QED
    BY <2>3, DataAreBytes, ElementOfSeq
<1>3. CASE SendIntact
  BY <1>1, <1>2, <1>3, FeedSummed DEF SendIntact
<1>4. CASE SendDisturbed
  <2>1. PICK chunk \in Chunks : \E q \in 1..Len(chunk), e \in Errors :
               Feed(chunk, [chunk EXCEPT ![q] = ByteXor(@, e)])
    BY <1>4 DEF SendDisturbed
  <2>2. PICK q \in 1..Len(chunk), e \in Errors : Feed(chunk, [chunk EXCEPT ![q] = ByteXor(@, e)])
    BY <2>1
  <2>3. chunk \in Seq(DataBytes) /\ chunk \in Seq(Byte) /\ chunk[q] \in Byte /\ e \in Byte
    BY <1>2, DataAssumption DEF Byte
  <2>4. ByteXor(chunk[q], e) \in Byte
    BY <2>3, XorBits
  <2> DEFINE x == ByteXor(chunk[q], e)
             got == [chunk EXCEPT ![q] = x]
  <2> HIDE DEF x
  <2>5. got \in Seq(Byte) /\ Len(got) = Len(chunk)
    BY <2>3, <2>4 DEF x
  <2>6. Feed(chunk, got)
    BY <2>2 DEF x
  <2> HIDE DEF got
  <2> QED
    BY <1>1, <2>3, <2>5, <2>6, FeedSummed
<1>5. CASE UNCHANGED crcVars
  BY <1>1, <1>5 DEF Summed, CrcTypeOK, crcVars
<1> QED
  BY <1>1, <1>3, <1>4, <1>5 DEF CrcNext

LEMMA AlwaysSummed == CrcSpec => []Summed
<1> QED
  BY CrcInitSummed, CrcNextSummed, PTL DEF CrcSpec

(* The running checksums are bytes, and as much has arrived as was sent.   *)
THEOREM CrcTypeCorrect == CrcSpec => []CrcTypeOK
<1>1. Summed => CrcTypeOK
  BY DEF Summed
<1> QED
  BY <1>1, AlwaysSummed, PTL

(* Whatever the chunks a file of any length is cut into, Crc8Update, given *)
(* the checksum of the chunks before, arrives at the CRC-8 of the whole by *)
(* the polynomial.                                                         *)
THEOREM InPiecesAsAWhole == CrcSpec => []ChunkingIsIrrelevant
<1>1. ASSUME Summed PROVE ChunkingIsIrrelevant
  <2>1. message \in Seq(Byte) /\ arrived \in Seq(Byte)
    BY <1>1, DataAreBytes DEF Summed, CrcTypeOK
  <2>2. PolyCrc(message) = Crc8Update(0, message) /\ PolyCrc(arrived) = Crc8Update(0, arrived)
    BY <2>1, PolyCrcIs
  <2> QED
    BY <1>1, <2>2, Zenon DEF Summed, ChunkingIsIrrelevant
<1>2. Summed => ChunkingIsIrrelevant
  BY <1>1
<1> QED
  BY <1>2, AlwaysSummed, PTL

(* A file of any length, any one byte of which was disturbed in any way on *)
(* its way, has a checksum other than the one it was sent with.            *)
THEOREM OneByteErrorsFound == CrcSpec => []OneByteErrorDetected
<1>1. ASSUME Summed PROVE OneByteErrorDetected
  <2>1. /\ message \in Seq(Byte) /\ arrived \in Seq(Byte) /\ Len(arrived) = Len(message)
        /\ sent = Crc8Update(0, message) /\ received = Crc8Update(0, arrived) /\ 0 \in Byte
    BY <1>1, DataAreBytes DEF Summed, CrcTypeOK, Byte
  <2>2. SUFFICES ASSUME NEW q \in 1..Len(message), message[q] # arrived[q],
                        \A j \in 1..Len(message) : j # q => message[j] = arrived[j]
                 PROVE  sent # received
    BY Zenon DEF OneByteErrorDetected
  <2>3. Crc8Update(0, message) # Crc8Update(0, arrived)
    BY <2>1, <2>2, OneByteDiffers, Zenon
  <2> QED
    BY <2>1, <2>3
<1>2. Summed => OneByteErrorDetected
  BY <1>1
<1> QED
  BY <1>2, AlwaysSummed, PTL
=============================================================================

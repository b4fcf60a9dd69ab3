--------------------------- MODULE FatVolumeProofs ---------------------------
(***************************************************************************)
(* What the calls of FatFs keep of the volume they work on: that no        *)
(* cluster belongs to two files or directories, and that no entry claims   *)
(* more bytes than its chain of clusters has, on the card and as the       *)
(* program sees it, whatever transfers fail; and that every card a call    *)
(* leaves on its way has both, so that a power loss does no worse.  F_open,*)
(* f_write, f_close, f_unlink and f_mkdir do, for every volume, every path *)
(* and every number of bytes; f_rename does when no transfer fails.        *)
(*                                                                         *)
(* The two properties speak of all files of a volume at once (FatVolume).  *)
(* A step of FatFs changes one FAT entry or one slot of a directory, so    *)
(* they are said again in these terms first: Kept is local, every slot is  *)
(* kept or not by itself, and KeptIsSound leads back.                      *)
(***************************************************************************)
EXTENDS FatFsProofs

-----------------------------------------------------------------------------
(* The soundness of a volume, said cluster by cluster and slot by slot: the*)
(* form in which every step of FatFs keeps it.  P are the first clusters   *)
(* of chains that no entry names, one that is being built or freed; X are  *)
(* slots left out of account, that of an entry while it is being renamed.  *)
SlotNos == 0 .. DirEntriesPerSector - 1
Places == TableArea \X SlotNos
At(m, a) == EntriesOf(m[a[1]])[a[2]]
Named(e) == e.nm \notin {"", Deleted, ".", ".."}
Claim(e) == IF Named(e) THEN e.cl ELSE 0
Harmless(e) == Named(e) => e.cl = 0 /\ e.sz = 0
Blank(e) == e.cl = 0 /\ e.sz = 0

(* Cluster c is in use, and follows no other.                              *)
First(m, c) == /\ c \in RealClusters /\ FatEntry(m, c) # 0
               /\ \A d \in RealClusters : FatEntry(m, d) # c
Path(m, p, n) == /\ p \in [1..n -> RealClusters]
                 /\ \A i \in 1..n - 1 : FatEntry(m, p[i]) = p[i + 1]
(* The chain from cluster c has room for z bytes.                          *)
Long(m, c, z) == z = 0 \/ \E n \in Nat \ {0} : \E p \in [1..n -> RealClusters] :
                             /\ Path(m, p, n) /\ p[1] = c
                             /\ z <= n * ClusterBytes

(* No cluster follows two, and none that is free follows one.              *)
FatSound(m) ==
  \A c \in RealClusters : FatEntry(m, c) \in RealClusters =>
     /\ FatEntry(m, FatEntry(m, c)) # 0
     /\ \A d \in RealClusters : FatEntry(m, d) = FatEntry(m, c) => c = d
Rooted(m, e) == IF e.cl = 0 THEN e.sz = 0
                ELSE First(m, e.cl) /\ Long(m, e.cl, e.sz)
EntriesSound(m, X) ==
  /\ \A a \in Places \ X : Named(At(m, a)) => Rooted(m, At(m, a))
  /\ \A a, b \in Places \ X :
        Claim(At(m, a)) = Claim(At(m, b)) /\ Claim(At(m, a)) # 0 => a = b
Reserved == IF FatType = 3 THEN {RootClust} ELSE {}
Owned(m, P, X) ==
  /\ P \cap Reserved = {}
  /\ \A c \in P \union Reserved :
        First(m, c) /\ \A a \in Places \ X : Claim(At(m, a)) # c
Kept(m, P, X) == FatSound(m) /\ EntriesSound(m, X) /\ Owned(m, P, X)

SameFatIn(m, n) == \A c \in RealClusters : FatEntry(n, c) = FatEntry(m, c)
SameSlots(m, n) == \A a \in Places : At(n, a) = At(m, a)
(* Card n has the FAT of m, and no entry that m has not but empty ones.    *)
Under(m, n) == /\ SameFatIn(m, n)
               /\ \A a \in Places : At(n, a) = At(m, a) \/ Harmless(At(n, a))

(* A first cluster stays one where the FAT says the same.                  *)
LEMMA FirstSame ==
  ASSUME NEW m, NEW n, SameFatIn(m, n), NEW c, First(m, c)
  PROVE  First(n, c)
BY DEF First, SameFatIn

(* A chain that links clusters stays where those links do.                 *)
LEMMA LongSame ==
  ASSUME NEW m, NEW n, NEW c, NEW z, Long(m, c, z),
         \A k \in Nat \ {0} : \A p \in [1..k -> RealClusters] :
            Path(m, p, k) /\ p[1] = c => \A i \in 1..k - 1 : FatEntry(n, p[i]) = FatEntry(m, p[i])
  PROVE  Long(n, c, z)
<1>1. CASE z = 0
  BY <1>1 DEF Long
<1>2. CASE z # 0
  <2>1. PICK k \in Nat \ {0} : \E p \in [1..k -> RealClusters] :
               Path(m, p, k) /\ p[1] = c /\ z <= k * ClusterBytes
    BY <1>2 DEF Long
  <2>1a. PICK p \in [1..k -> RealClusters] : Path(m, p, k) /\ p[1] = c /\ z <= k * ClusterBytes
    BY <2>1
  <2>2. \A i \in 1..k - 1 : FatEntry(n, p[i]) = FatEntry(m, p[i])
    BY <2>1a
  <2>3. Path(n, p, k)
    BY <2>1a, <2>2 DEF Path
  <2> QED
    BY <2>1a, <2>3 DEF Long
<1> QED
  BY <1>1, <1>2

(* A first cluster stays one while the FAT entries stay. *)
LEMMA RootedSame ==
  ASSUME NEW m, NEW n, SameFatIn(m, n), NEW e, Rooted(m, e)
  PROVE  Rooted(n, e)
<1>1. CASE e.cl = 0
  BY <1>1 DEF Rooted
<1>2. CASE e.cl # 0
  <2>1. First(m, e.cl) /\ Long(m, e.cl, e.sz)
    BY <1>2 DEF Rooted
  <2>2. \A k \in Nat \ {0} : \A p \in [1..k -> RealClusters] :
            Path(m, p, k) /\ p[1] = e.cl => \A i \in 1..k - 1 : FatEntry(n, p[i]) = FatEntry(m, p[i])
    BY DEF SameFatIn
  <2>3. Long(n, e.cl, e.sz)
    BY <2>1, <2>2, LongSame
  <2> QED
    BY <1>2, <2>1, <2>3, FirstSame DEF Rooted
<1> QED
  BY <1>1, <1>2

(* A volume with fewer entries and fewer unnamed chains is as sound.       *)
LEMMA KeptUnder ==
  ASSUME NEW m, NEW n, NEW P, NEW Q, Q \subseteq P, NEW X, Kept(m, P, X), Under(m, n)
  PROVE  Kept(n, Q, X)
<1>1. SameFatIn(m, n) /\ FatSound(m) /\ EntriesSound(m, X) /\ Owned(m, P, X)
  BY DEF Under, Kept
<1>2. FatSound(n)
  BY <1>1 DEF SameFatIn, FatSound
<1>3. \A a \in Places : Claim(At(n, a)) = 0 \/ At(n, a) = At(m, a)
  BY DEF Under, Harmless, Claim
<1>4. ASSUME NEW a \in Places \ X, Named(At(n, a)) PROVE Rooted(n, At(n, a))
  <2>1. CASE At(n, a) = At(m, a)
    <3>1. Rooted(m, At(m, a))
      BY <1>1, <1>4, <2>1 DEF EntriesSound
    <3> QED
      BY <1>1, <2>1, <3>1, RootedSame
  <2>2. CASE Harmless(At(n, a))
    BY <1>4, <2>2 DEF Harmless, Rooted
  <2> QED
    BY <2>1, <2>2 DEF Under
<1>5. EntriesSound(n, X)
  BY <1>1, <1>3, <1>4 DEF EntriesSound
<1>6. 0 \notin RealClusters
  BY LayoutIs DEF RealClusters
<1>7. \A c \in P \union Reserved : First(n, c) /\ c # 0
  BY <1>1, <1>6, FirstSame DEF Owned, First
<1>8. Owned(n, Q, X)
  BY <1>1, <1>3, <1>7 DEF Owned
<1> QED
  BY <1>2, <1>5, <1>8 DEF Kept

(* A free cluster that is marked the end of a chain is a new chain.        *)
LEMMA KeptTake ==
  ASSUME NEW m, NEW n, NEW P, NEW X, Kept(m, P, X), SameSlots(m, n),
         NEW x \in RealClusters, FatEntry(m, x) = 0, FatEntry(n, x) = EOC,
         \A c \in RealClusters \ {x} : FatEntry(n, c) = FatEntry(m, c)
  PROVE  Kept(n, P \union {x}, X) /\ x \notin P \union Reserved
<1>1. FatSound(m) /\ EntriesSound(m, X) /\ Owned(m, P, X)
  BY DEF Kept
<1>2. EOC \notin RealClusters /\ EOC # 0 /\ 0 \notin RealClusters
  BY LayoutIs DEF EOC, RealClusters
<1>3. FatSound(n)
  BY <1>1, <1>2 DEF FatSound
<1>4. \A c : First(m, c) => First(n, c) /\ c # x /\ c # 0
  BY <1>1, <1>2 DEF First, FatSound
<1>5. First(n, x)
  BY <1>1, <1>2 DEF First, FatSound
<1>6. ASSUME NEW e, Rooted(m, e) PROVE Rooted(n, e)
  <2>1. CASE e.cl = 0
    BY <1>6, <2>1 DEF Rooted
  <2>2. CASE e.cl # 0
    <3>1. First(m, e.cl) /\ Long(m, e.cl, e.sz)
      BY <1>6, <2>2 DEF Rooted
    <3>2. ASSUME NEW k \in Nat \ {0}, NEW p \in [1..k -> RealClusters], Path(m, p, k),
                 NEW i \in 1..k - 1
          PROVE  FatEntry(n, p[i]) = FatEntry(m, p[i])
      <4>1. p[i] \in RealClusters /\ p[i + 1] \in RealClusters /\ FatEntry(m, p[i]) = p[i + 1]
        BY <3>2 DEF Path
      <4> QED
        BY <4>1, <1>2
    <3>3. Long(n, e.cl, e.sz)
      BY <3>1, <3>2, LongSame
    <3> QED
      BY <2>2, <3>1, <3>3, <1>4 DEF Rooted
  <2> QED
    BY <2>1, <2>2
<1>7. EntriesSound(n, X)
  BY <1>1, <1>6 DEF EntriesSound, SameSlots
<1>8. \A a \in Places \ X : Claim(At(n, a)) # x
  <2>1. \A a \in Places \ X : Claim(At(m, a)) = 0 \/ First(m, Claim(At(m, a)))
    BY <1>1 DEF EntriesSound, Claim, Rooted
  <2> QED
    BY <2>1, <1>2, <1>4 DEF SameSlots
<1>9. \A c \in P \union Reserved : First(m, c) /\ \A a \in Places \ X : Claim(At(m, a)) # c
  BY <1>1 DEF Owned
<1>10. x \notin P \union Reserved
  BY <1>4, <1>9
<1>11. \A c \in P \union {x} \union Reserved :
          First(n, c) /\ \A a \in Places \ X : Claim(At(n, a)) # c
  BY <1>4, <1>5, <1>8, <1>9 DEF SameSlots
<1>12. Owned(n, P \union {x}, X)
  BY <1>1, <1>10, <1>11 DEF Owned
<1> QED
  BY <1>3, <1>7, <1>10, <1>12 DEF Kept

(* A chain's end that an unnamed chain is linked behind.                   *)
LEMMA KeptLink ==
  ASSUME NEW m, NEW n, NEW P, NEW X, Kept(m, P, X), SameSlots(m, n),
         NEW x \in P, NEW c \in RealClusters, c # x,
         FatEntry(m, c) # 0, FatEntry(m, c) \notin RealClusters, FatEntry(n, c) = x,
         \A d \in RealClusters \ {c} : FatEntry(n, d) = FatEntry(m, d)
  PROVE  Kept(n, P \ {x}, X)
<1>1. FatSound(m) /\ EntriesSound(m, X) /\ Owned(m, P, X)
  BY DEF Kept
<1>2. 0 \notin RealClusters
  BY LayoutIs DEF RealClusters
<1>3. First(m, x) /\ x \in RealClusters /\ x \notin Reserved
  BY <1>1 DEF Owned, First
<1>4. FatSound(n)
  BY <1>1, <1>2, <1>3 DEF FatSound, First
<1>5. \A d : First(m, d) /\ d # x => First(n, d)
  BY <1>2, <1>3 DEF First
<1>6. ASSUME NEW e, Rooted(m, e), e.cl # x PROVE Rooted(n, e)
  <2>1. CASE e.cl = 0
    BY <1>6, <2>1 DEF Rooted
  <2>2. CASE e.cl # 0
    <3>1. First(m, e.cl) /\ Long(m, e.cl, e.sz)
      BY <1>6, <2>2 DEF Rooted
    <3>2. ASSUME NEW k \in Nat \ {0}, NEW p \in [1..k -> RealClusters], Path(m, p, k),
                 NEW i \in 1..k - 1
          PROVE  FatEntry(n, p[i]) = FatEntry(m, p[i])
      <4>1. p[i] \in RealClusters /\ p[i + 1] \in RealClusters /\ FatEntry(m, p[i]) = p[i + 1]
        BY <3>2 DEF Path
      <4> QED
        BY <4>1
    <3>3. Long(n, e.cl, e.sz)
      BY <3>1, <3>2, LongSame
    <3> QED
      BY <1>6, <2>2, <3>1, <3>3, <1>5 DEF Rooted
  <2> QED
    BY <2>1, <2>2
<1>7. \A a \in Places \ X : Claim(At(m, a)) # x
  BY <1>1 DEF Owned
<1>8. EntriesSound(n, X)
  <2>1. ASSUME NEW a \in Places \ X, Named(At(m, a)) PROVE Rooted(n, At(m, a))
    <3>1. At(m, a).cl # x /\ Rooted(m, At(m, a))
      BY <1>1, <1>7, <2>1 DEF Claim, EntriesSound
    <3> QED
      BY <3>1, <1>6
  <2> QED
    BY <1>1, <2>1 DEF EntriesSound, SameSlots
<1>9. Owned(n, P \ {x}, X)
  BY <1>1, <1>3, <1>5 DEF Owned, SameSlots
<1> QED
  BY <1>4, <1>8, <1>9 DEF Kept

(* The clusters that an unnamed chain goes on with after its first.        *)
After(m, x) == IF FatEntry(m, x) \in RealClusters THEN {FatEntry(m, x)} ELSE {}

(* The first cluster of an unnamed chain is freed: the rest is one.        *)
LEMMA KeptFree ==
  ASSUME NEW m, NEW n, NEW P, NEW X, Kept(m, P, X), SameSlots(m, n),
         NEW x \in P, FatEntry(n, x) = 0,
         \A d \in RealClusters \ {x} : FatEntry(n, d) = FatEntry(m, d)
  PROVE  Kept(n, (P \ {x}) \union After(m, x), X)
<1>1. FatSound(m) /\ EntriesSound(m, X) /\ Owned(m, P, X)
  BY DEF Kept
<1>2. 0 \notin RealClusters
  BY LayoutIs DEF RealClusters
<1>3. First(m, x) /\ x \in RealClusters /\ x \notin Reserved
  BY <1>1 DEF Owned, First
<1>4. FatSound(n)
  BY <1>1, <1>2, <1>3 DEF FatSound, First
<1>5. \A d : First(m, d) /\ d # x => First(n, d)
  BY <1>2, <1>3 DEF First
<1>6. ASSUME NEW e, Rooted(m, e), e.cl # x PROVE Rooted(n, e)
  <2>1. CASE e.cl = 0
    BY <1>6, <2>1 DEF Rooted
  <2>2. CASE e.cl # 0
    <3>1. First(m, e.cl) /\ Long(m, e.cl, e.sz)
      BY <1>6, <2>2 DEF Rooted
    <3>2. \A k \in Nat \ {0} : \A p \in [1..k -> RealClusters] :
             Path(m, p, k) /\ p[1] = e.cl => \A i \in 1..k - 1 : FatEntry(n, p[i]) = FatEntry(m, p[i])
      <4>1. SUFFICES ASSUME NEW k \in Nat \ {0}, NEW p \in [1..k -> RealClusters], Path(m, p, k),
                            p[1] = e.cl, NEW i \in 1..k - 1
                     PROVE  FatEntry(n, p[i]) = FatEntry(m, p[i])
        OBVIOUS
      <4>2. p[i] # x
        <5>1. CASE i = 1
          BY <1>6, <4>1, <5>1
        <5>2. CASE i # 1
          <6> DEFINE j == i - 1
          <6>1. j \in 1..k - 1 /\ i = j + 1
            BY <5>2
          <6> HIDE DEF j
          <6>2. FatEntry(m, p[j]) = p[i] /\ p[j] \in RealClusters
            BY <4>1, <6>1 DEF Path
          <6> QED
            BY <6>2, <1>3 DEF First
        <5> QED
          BY <5>1, <5>2
      <4>3. p[i] \in RealClusters
        BY <4>1
      <4> QED
        BY <4>2, <4>3
    <3>3. Long(n, e.cl, e.sz)
      BY <3>1, <3>2, LongSame
    <3> QED
      BY <1>6, <2>2, <3>1, <3>3, <1>5 DEF Rooted
  <2> QED
    BY <2>1, <2>2
<1>7. \A a \in Places \ X : Claim(At(m, a)) # x
  BY <1>1 DEF Owned
<1>8. EntriesSound(n, X)
  <2>1. ASSUME NEW a \in Places \ X, Named(At(m, a)) PROVE Rooted(n, At(m, a))
    <3>1. At(m, a).cl # x /\ Rooted(m, At(m, a))
      BY <1>1, <1>7, <2>1 DEF Claim, EntriesSound
    <3> QED
      BY <3>1, <1>6
  <2> QED
    BY <1>1, <2>1 DEF EntriesSound, SameSlots
<1>9. ASSUME NEW y \in After(m, x)
      PROVE  First(n, y) /\ y \notin Reserved /\ \A a \in Places \ X : Claim(At(m, a)) # y
  <2>1. y = FatEntry(m, x) /\ y \in RealClusters
    BY DEF After
  <2>2. y # x
    BY <2>1, <1>3 DEF First
  <2>3. First(n, y)
    BY <1>1, <1>2, <1>3, <2>1, <2>2 DEF FatSound, First
  <2>4. ~First(m, y)
    BY <1>3, <2>1 DEF First
  <2>5. \A a \in Places \ X : Claim(At(m, a)) # y
    BY <1>1, <1>2, <2>1, <2>4 DEF EntriesSound, Claim, Rooted
  <2>6. y \notin Reserved
    BY <1>1, <2>4 DEF Owned
  <2> QED
    BY <2>3, <2>5, <2>6
<1>10. Owned(n, (P \ {x}) \union After(m, x), X)
  BY <1>1, <1>3, <1>5, <1>9 DEF Owned, SameSlots
<1> QED
  BY <1>4, <1>8, <1>10 DEF Kept

(* One slot gets the entry of an unnamed chain, or that of its own; the    *)
(* chain of the entry that was there may be the unnamed one from then on.  *)
LEMMA KeptSlot ==
  ASSUME NEW m, NEW n, NEW P, NEW X, Kept(m, P, X), SameFatIn(m, n), NEW a \in Places,
         \A b \in Places \ {a} : At(n, b) = At(m, b) \/ Harmless(At(n, b)),
         Named(At(n, a)) => /\ At(n, a).cl = 0 => At(n, a).sz = 0
                            /\ At(n, a).cl # 0 =>
                                 /\ Long(m, At(n, a).cl, At(n, a).sz)
                                 /\ \/ At(n, a).cl \in P
                                    \/ a \notin X /\ Claim(At(m, a)) = At(n, a).cl,
         NEW Q,
         \A c \in Q : c \in P \/ (c # 0 /\ a \notin X /\ c = Claim(At(m, a))),
         Claim(At(n, a)) \notin Q
  PROVE  Kept(n, Q, X)
<1> DEFINE e == At(n, a)
           o == At(m, a)
<1>1. FatSound(m) /\ EntriesSound(m, X) /\ Owned(m, P, X)
  BY DEF Kept
<1>2. 0 \notin RealClusters
  BY LayoutIs DEF RealClusters
<1>3. FatSound(n)
  BY <1>1 DEF SameFatIn, FatSound
<1>4. \A c : First(m, c) => First(n, c) /\ c # 0
  BY <1>2, FirstSame DEF First
<1>5. \A b \in Places \ {a} : Claim(At(n, b)) = 0 \/ At(n, b) = At(m, b)
  BY DEF Harmless, Claim
<1>6. ASSUME NEW b \in Places \ X, b # a, Named(At(n, b)) PROVE Rooted(n, At(n, b))
  <2>1. CASE At(n, b) = At(m, b)
    <3>1. Rooted(m, At(m, b))
      BY <1>1, <1>6, <2>1 DEF EntriesSound
    <3> QED
      BY <2>1, <3>1, RootedSame
  <2>2. CASE Harmless(At(n, b))
    BY <1>6, <2>2 DEF Harmless, Rooted
  <2> QED
    BY <1>6, <2>1, <2>2
<1>7. \A b \in Places \ X : Claim(At(m, b)) # 0 => First(m, Claim(At(m, b)))
  BY <1>1 DEF EntriesSound, Claim, Rooted
<1>8. Claim(e) # 0 => First(m, Claim(e)) /\ Claim(e) \notin Reserved
  BY <1>1, <1>7 DEF Owned, Claim
<1>9. Named(e) => Rooted(n, e)
  <2>1. CASE e.cl = 0
    BY <2>1 DEF Rooted
  <2>2. CASE e.cl # 0 /\ Named(e)
    <3>1. First(n, e.cl) /\ Long(m, e.cl, e.sz)
      BY <2>2, <1>8, <1>4 DEF Claim
    <3>2. \A k \in Nat \ {0} : \A p \in [1..k -> RealClusters] :
            Path(m, p, k) /\ p[1] = e.cl => \A i \in 1..k - 1 : FatEntry(n, p[i]) = FatEntry(m, p[i])
      BY DEF SameFatIn
    <3>3. Long(n, e.cl, e.sz)
      BY <3>1, <3>2, LongSame
    <3> QED
      BY <2>2, <3>1, <3>3 DEF Rooted
  <2> QED
    BY <2>1, <2>2
<1>10. ASSUME NEW b \in Places \ X, b # a, Claim(At(n, b)) = Claim(e), Claim(e) # 0, a \notin X
       PROVE  FALSE
  <2>1. At(n, b) = At(m, b)
    BY <1>5, <1>10
  <2>2. CASE Claim(e) \in P
    BY <1>1, <1>10, <2>1, <2>2 DEF Owned
  <2>3. CASE Claim(e) = Claim(o)
    BY <1>1, <1>10, <2>1, <2>3 DEF EntriesSound
  <2>4. Claim(e) = At(n, a).cl /\ Named(e)
    BY <1>10 DEF Claim
  <2> QED
    BY <1>10, <2>2, <2>3, <2>4
<1> HIDE DEF e, o
<1>11. EntriesSound(n, X)
  <2>1. \A b \in Places \ X : Named(At(n, b)) => Rooted(n, At(n, b))
    BY <1>6, <1>9 DEF e
  <2>2. ASSUME NEW b \in Places \ X, NEW d \in Places \ X,
               Claim(At(n, b)) = Claim(At(n, d)), Claim(At(n, b)) # 0
        PROVE  b = d
    <3>1. CASE b # a /\ d # a
      <4>1. At(n, b) = At(m, b) /\ At(n, d) = At(m, d)
        BY <1>5, <2>2, <3>1
      <4> QED
        BY <1>1, <2>2, <4>1 DEF EntriesSound
    <3>2. CASE b = a /\ d # a
      BY <1>10, <2>2, <3>2 DEF e
    <3>3. CASE b # a /\ d = a
      BY <1>10, <2>2, <3>3 DEF e
    <3> QED
      BY <3>1, <3>2, <3>3
  <2> QED
    BY <2>1, <2>2 DEF EntriesSound
<1>12. ASSUME NEW c \in Q \union Reserved
       PROVE  First(n, c) /\ c # 0 /\ \A b \in Places \ X : Claim(At(n, b)) # c
  <2>1. First(m, c)
    BY <1>1, <1>7, <1>12 DEF Owned
  <2>2. First(n, c) /\ c # 0
    BY <2>1, <1>4
  <2>3. ASSUME NEW b \in Places \ X, Claim(At(n, b)) = c PROVE FALSE
    <3>1. CASE b = a
      <4>1. c \in Reserved /\ Claim(e) = c
        BY <1>12, <2>3, <3>1 DEF e
      <4> QED
        BY <1>8, <2>2, <4>1
    <3>2. CASE b # a
      <4>1. At(n, b) = At(m, b)
        BY <1>5, <2>2, <2>3, <3>2
      <4>2. CASE c \in P \union Reserved
        BY <1>1, <2>3, <4>1, <4>2 DEF Owned
      <4>3. CASE a \notin X /\ c = Claim(At(m, a))
        BY <1>1, <2>2, <2>3, <3>2, <4>1, <4>3 DEF EntriesSound
      <4> QED
        BY <1>12, <4>2, <4>3
    <3> QED
      BY <3>1, <3>2
  <2> QED
    BY <2>2, <2>3
<1>13. Q \cap Reserved = {}
  BY <1>1 DEF Owned
<1>14. Owned(n, Q, X)
  BY <1>12, <1>13 DEF Owned
<1> QED
  BY <1>3, <1>11, <1>14 DEF Kept

(* An entry left out of account makes its chain an unnamed one.            *)
LEMMA KeptAside ==
  ASSUME NEW m, Kept(m, {}, {}), NEW a \in Places, Claim(At(m, a)) # 0
  PROVE  Kept(m, {Claim(At(m, a))}, {a})
<1>1. FatSound(m) /\ EntriesSound(m, {}) /\ Owned(m, {}, {})
  BY DEF Kept
<1>2. First(m, Claim(At(m, a))) /\ Claim(At(m, a)) \notin Reserved
  BY <1>1 DEF EntriesSound, Claim, Rooted, Owned
<1>3. EntriesSound(m, {a})
  BY <1>1 DEF EntriesSound
<1>4. Owned(m, {Claim(At(m, a))}, {a})
  BY <1>1, <1>2 DEF Owned, EntriesSound
<1> QED
  BY <1>1, <1>3, <1>4 DEF Kept

(* An empty entry need not be left out.                                    *)
LEMMA KeptBack ==
  ASSUME NEW m, NEW P, NEW a, Kept(m, P, {a}), Harmless(At(m, a))
  PROVE  Kept(m, P, {})
<1>1. FatSound(m) /\ EntriesSound(m, {a}) /\ Owned(m, P, {a})
  BY DEF Kept
<1>2. Claim(At(m, a)) = 0 /\ (Named(At(m, a)) => Rooted(m, At(m, a)))
  BY DEF Harmless, Claim, Rooted
<1>3. 0 \notin P \union Reserved
  BY <1>1, LayoutIs DEF Owned, First, RealClusters
<1>4. EntriesSound(m, {})
  BY <1>1, <1>2 DEF EntriesSound
<1>5. Owned(m, P, {})
  BY <1>1, <1>2, <1>3 DEF Owned
<1> QED
  BY <1>1, <1>4, <1>5 DEF Kept

(* What is kept with all slots is kept without some.                       *)
LEMMA KeptFewer ==
  ASSUME NEW m, NEW P, NEW X, NEW Y, X \subseteq Y, Kept(m, P, X)
  PROVE  Kept(m, P, Y)
BY DEF Kept, EntriesSound, Owned

-----------------------------------------------------------------------------
(* What a sound volume is, read along its chains and its tables.           *)

(* Two chains that meet have met from there back to the first cluster of   *)
(* the one that is shorter there.                                          *)
LEMMA WalkBack ==
  ASSUME NEW m, FatSound(m), NEW n \in Nat, NEW k \in Nat, NEW p, NEW q,
         Path(m, p, n), Path(m, q, k), NEW i \in 1..n, NEW j \in 1..k, i <= j, p[i] = q[j]
  PROVE  p[1] = q[j - i + 1]
<1> DEFINE S == {t \in 0..i - 1 : p[i - t] = q[j - t]}
<1>1. 0 \in S
  OBVIOUS
<1>2. ASSUME NEW t \in 1..i - 1, t - 1 \in S
      PROVE  t \in S
  <2> DEFINE a == i - t
             b == j - t
  <2>1. a \in 1..n - 1 /\ b \in 1..k - 1 /\ a + 1 = i - (t - 1) /\ b + 1 = j - (t - 1)
    OBVIOUS
  <2>2. p[a + 1] = q[b + 1]
    BY <1>2, <2>1
  <2> HIDE DEF a, b
  <2>3. /\ FatEntry(m, p[a]) = p[a + 1] /\ FatEntry(m, q[b]) = q[b + 1]
        /\ p[a] \in RealClusters /\ q[b] \in RealClusters /\ p[a + 1] \in RealClusters
    BY <2>1 DEF Path
  <2>4. p[a] = q[b]
    BY <2>2, <2>3 DEF FatSound
  <2> QED
    BY <2>4 DEF a, b
<1> HIDE DEF S
<1>3. i - 1 \in Nat
  OBVIOUS
<1>4. \A t \in 0..i - 1 : t \in S
  BY <1>1, <1>2, <1>3, BoundedInduction
<1>5. i - 1 \in S
  BY <1>3, <1>4
<1>6. p[i - (i - 1)] = q[j - (i - 1)]
  BY <1>5 DEF S
<1>7. i - (i - 1) = 1 /\ j - (i - 1) = j - i + 1
  OBVIOUS
<1> QED
  BY <1>6, <1>7

(* A chain from a first cluster meets no cluster twice, so it is no longer *)
(* than the volume.                                                        *)
LEMMA PathFits ==
  ASSUME NEW m, FatSound(m), NEW n \in Nat, NEW p, Path(m, p, n), n >= 1, First(m, p[1])
  PROVE  /\ \A i, j \in 1..n : p[i] = p[j] => i = j
         /\ n <= Clusters
<1>1. ASSUME NEW i \in 1..n, NEW j \in 1..n, i < j, p[i] = p[j]
      PROVE  FALSE
  <2>1. p[1] = p[j - i + 1]
    BY <1>1, WalkBack
  <2> DEFINE a == j - i
  <2>2. a \in 1..n - 1 /\ j - i + 1 = a + 1
    BY <1>1
  <2> HIDE DEF a
  <2>3. FatEntry(m, p[a]) = p[a + 1] /\ p[a] \in RealClusters
    BY <2>2 DEF Path
  <2> QED
    BY <2>1, <2>2, <2>3 DEF First
<1>2. \A i, j \in 1..n : p[i] = p[j] => i = j
  BY <1>1
<1>3. p \in Injection(1..n, RealClusters)
  BY <1>2 DEF Path, Injection, IsInjective
<1>4. IsFiniteSet(RealClusters) /\ Cardinality(RealClusters) = Clusters
  BY FS_Interval, LayoutIs, GeometryAssumption DEF RealClusters
<1>5. Cardinality(1..n) = n
  BY FS_Interval
<1>6. Cardinality(1..n) <= Cardinality(RealClusters)
  BY <1>3, <1>4, FS_Injection
<1> QED
  BY <1>2, <1>4, <1>5, <1>6

(* Two chains from different first clusters do not meet.                   *)
LEMMA PathsApart ==
  ASSUME NEW m, FatSound(m), NEW n \in Nat, NEW k \in Nat, NEW p, NEW q, n >= 1, k >= 1,
         Path(m, p, n), Path(m, q, k), First(m, p[1]), First(m, q[1]), p[1] # q[1],
         NEW i \in 1..n, NEW j \in 1..k
  PROVE  p[i] # q[j]
<1>1. SUFFICES ASSUME p[i] = q[j] PROVE FALSE
  OBVIOUS
<1>2. ASSUME NEW a \in Nat, NEW b \in Nat, NEW f, NEW g, Path(m, f, a), Path(m, g, b), First(m, f[1]),
             f[1] # g[1], NEW x \in 1..a, NEW y \in 1..b, x <= y, f[x] = g[y]
      PROVE  FALSE
  <2>1. f[1] = g[y - x + 1]
    BY <1>2, WalkBack
  <2> DEFINE z == y - x
  <2>2. z \in 1..b - 1 /\ y - x + 1 = z + 1
    BY <1>2, <2>1
  <2> HIDE DEF z
  <2>3. FatEntry(m, g[z]) = g[z + 1] /\ g[z] \in RealClusters
    BY <1>2, <2>2 DEF Path
  <2> QED
    BY <1>2, <2>1, <2>2, <2>3 DEF First
<1>3. i <= j \/ j <= i
  OBVIOUS
<1> QED
  BY <1>1, <1>2, <1>3

(* The entry of a cluster in the FAT of a card.                            *)
LEMMA FatEntryIs ==
  ASSUME NEW m \in Cards, NEW c \in ClusterNos
  PROVE  FatEntry(m, c) \in FatValues
<1> DEFINE s == FatBase + c \div FatEntriesPerSector
           i == c % FatEntriesPerSector
<1>1. s \in FatSects /\ i \in 0 .. FatEntriesPerSector - 1
  BY FatHasRoom
<1>2. FatEntry(m, c) = m[s].e[i]
  BY DEF FatEntry
<1> HIDE DEF s, i
<1>3. s \in Sectors /\ s >= FatBase /\ s < RootSect /\ s # 0
  BY <1>1, AreasApart, LayoutIs DEF FatSects
<1>4. m[s] \in Holds(s)
  BY <1>3 DEF Cards
<1>5. Holds(s) = FatSet
  <2>1. s \in Nat /\ FatBase \in Nat /\ RootSect \in Nat /\ ~(s < FatBase)
    BY <1>3, AreasApart, LayoutIs
  <2> QED
    BY <1>3, <2>1 DEF Holds
<1>6. m[s] \in FatSet
  BY <1>4, <1>5
<1> QED
  BY <1>1, <1>2, <1>6 DEF FatSet

(* ChainOf finds the chain from a first cluster to its end mark.           *)
ChainFrom(m, c, s) == /\ s \in Seq(RealClusters) /\ Len(s) >= 1 /\ s[1] = c /\ Path(m, s, Len(s))
                      /\ FatEntry(m, s[Len(s)]) # 0

(* A part of a chain grows by the next cluster, or is all of the chain. *)
LEMMA LinkedIs ==
  ASSUME NEW m \in Cards, FatSound(m), NEW c, NEW s, ChainFrom(m, c, s)
  PROVE  LET w == Linked(m, s)
         IN  /\ ChainFrom(m, c, w)
             /\ Len(w) = Len(s) + 1 \/ (w = s /\ FatEntry(m, s[Len(s)]) = EOC)
<1> DEFINE l == s[Len(s)]
           x == FatEntry(m, l)
<1>1. l \in RealClusters /\ s \in Seq(RealClusters) /\ Len(s) \in Nat /\ Len(s) >= 1
  BY DEF ChainFrom
<1>2. x \in FatValues /\ x # 0 /\ l # 0
  BY <1>1, FatEntryIs, NumbersApart DEF ChainFrom
<1>3. CASE x = EOC
  <2>1. Linked(m, s) = s
    BY <1>2, <1>3, LayoutIs DEF Linked, EOC
  <2> QED
    BY <1>3, <2>1
<1>4. CASE x # EOC
  <2>1. x \in RealClusters
    BY <1>2, <1>4 DEF FatValues
  <2>2. ~(x < 2 \/ x >= NFatEnt) /\ x < NFatEnt /\ x \in Nat
    BY <2>1, LayoutIs DEF RealClusters
  <2>3. FatEntry(m, x) # 0
    BY <1>1, <2>1 DEF FatSound
  <2>4. Link(m, x) = x
    BY <2>2, <2>3 DEF Link
  <2> DEFINE w == Append(s, x)
  <2>5. Linked(m, s) = w
    BY <1>2, <2>2, <2>4 DEF Linked
  <2>6. /\ w \in Seq(RealClusters) /\ Len(w) = Len(s) + 1 /\ w[Len(s) + 1] = x
        /\ \A i \in 1..Len(s) : w[i] = s[i]
    BY <1>1, <2>1
  <2>7. \A i \in 1..Len(s) - 1 : FatEntry(m, s[i]) = s[i + 1]
    BY DEF ChainFrom, Path
  <2> HIDE DEF w
  <2>8. \A i \in 1..Len(w) - 1 : FatEntry(m, w[i]) = w[i + 1]
    <3>1. ASSUME NEW i \in 1..Len(s) PROVE FatEntry(m, w[i]) = w[i + 1]
      <4>1. CASE i = Len(s)
        BY <1>1, <2>6, <4>1
      <4>2. CASE i # Len(s)
        BY <1>1, <2>6, <2>7, <4>2
      <4> QED
        BY <4>1, <4>2
    <3> QED
      BY <3>1, <2>6, <1>1
  <2>9. w \in [1..Len(w) -> RealClusters]
    BY <2>6
  <2>10. w[1] = c /\ Len(w) >= 1
    BY <2>6, <1>1 DEF ChainFrom
  <2>11. ChainFrom(m, c, w)
    BY <2>3, <2>6, <2>8, <2>9, <2>10 DEF ChainFrom, Path
  <2> QED
    BY <2>5, <2>6, <2>11
<1> QED
  BY <1>3, <1>4

(* In a sound FAT, the chain from a first cluster runs to an end of chain. *)
LEMMA ChainIs ==
  ASSUME NEW m \in Cards, FatSound(m), NEW c, First(m, c)
  PROVE  ChainFrom(m, c, ChainOf(m, c)) /\ FatEntry(m, ChainOf(m, c)[Len(ChainOf(m, c))]) = EOC
<1> DEFINE n == Clusters
           a == <<Link(m, c)>>
           V == {s \in Seq(RealClusters) : ChainFrom(m, c, s)}
           B(s) == Linked(m, s)
           F(h) == [k \in 0..n |-> IF k = 0 THEN a ELSE B(h[k - 1])]
           at == CHOOSE h : h = F(h)
           G == [p \in V \X (1..n) |-> B(p[1])]
<1>0. c \in RealClusters /\ FatEntry(m, c) # 0 /\ c # 0
  BY NumbersApart DEF First
<1>1. n \in Nat /\ a \in V /\ Len(a) = 1
  <2>1. Link(m, c) = c
    BY <1>0, LayoutIs DEF Link, RealClusters
  <2>2. a = <<c>>
    BY <2>1
  <2>3. ChainFrom(m, c, <<c>>)
    <3> DEFINE s == <<c>>
    <3>1. s \in Seq(RealClusters) /\ Len(s) = 1 /\ s[1] = c
      BY <1>0
    <3> HIDE DEF s
    <3> QED
      BY <3>1, <1>0 DEF ChainFrom, Path
  <2> QED
    BY <2>2, <2>3, <1>0, GeometryAssumption
<1>2. \A s \in V : B(s) \in V /\ (Len(B(s)) = Len(s) + 1 \/ (B(s) = s /\ FatEntry(m, s[Len(s)]) = EOC))
  BY LinkedIs DEF ChainFrom
<1>3. ChainOf(m, c) = at[n]
  BY <1>0, Zenon DEF ChainOf, With
<1> HIDE DEF a, V, B, n
<1>4. G \in [V \X (1..n) -> V] /\ \A s \in V, k \in 1..n : G[<<s, k>>] = B(s)
  BY <1>2
<1> HIDE DEF G
<1>5. PICK g \in [0..n -> V] : Runs(g, V, a, G, n)
  BY <1>1, <1>4, LoopRuns, Zenon
<1>6. g = F(g)
  <2>1. \A k \in 1..n : g[k] = B(g[k - 1])
    BY <1>4, <1>5, Zenon DEF Runs
  <2>2. \A k \in 0..n : g[k] = IF k = 0 THEN a ELSE B(g[k - 1])
    BY <1>5, <2>1 DEF Runs
  <2> QED
    BY <2>2
<1>7. at = F(at)
  BY <1>6
<1> HIDE DEF at
<1>8. at[0] = a /\ \A k \in 1..n : at[k] = B(at[k - 1])
  BY <1>1, <1>7
<1>9. at[n] \in V /\ (Len(at[n]) = n + 1 \/ FatEntry(m, at[n][Len(at[n])]) = EOC)
  <2> DEFINE S == {k \in 0..n : at[k] \in V /\ (\/ Len(at[k]) = k + 1
                                               \/ FatEntry(m, at[k][Len(at[k])]) = EOC)}
  <2>1. 0 \in S
    BY <1>1, <1>8
  <2>2. \A k \in 1..n : k - 1 \in S => k \in S
    <3>1. ASSUME NEW k \in 1..n, k - 1 \in S PROVE k \in S
      <4> DEFINE s == at[k - 1]
                 t == at[k]
      <4>1. s \in V /\ (Len(s) = k \/ FatEntry(m, s[Len(s)]) = EOC) /\ t = B(s)
        BY <3>1, <1>8
      <4>2. \A u \in V : Len(u) \in Nat
        BY DEF V
      <4>3. B(s) \in V /\ (Len(B(s)) = Len(s) + 1 \/ (B(s) = s /\ FatEntry(m, s[Len(s)]) = EOC))
        BY <4>1, <1>2
      <4>4. FatEntry(m, s[Len(s)]) = EOC => B(s) = s
        <5>1. ASSUME FatEntry(m, s[Len(s)]) = EOC PROVE B(s) = s
          <6> HIDE DEF s
          <6> QED
            BY <5>1, LayoutIs DEF B, Linked, EOC
        <5> QED
          BY <5>1
      <4> HIDE DEF s
      <4>5. t \in V /\ (Len(t) = k + 1 \/ FatEntry(m, t[Len(t)]) = EOC)
        BY <4>1, <4>2, <4>3, <4>4
      <4> QED
        BY <4>5
    <3> QED
      BY <3>1
  <2> HIDE DEF S
  <2>3. \A k \in 0..n : k \in S
    BY <1>1, <2>1, <2>2, BoundedInduction
  <2>4. n \in S
    BY <2>3, <1>1
  <2> QED
    BY <2>4 DEF S
<1> DEFINE e == at[n]
<1>10. ChainFrom(m, c, e) /\ (Len(e) = n + 1 \/ FatEntry(m, e[Len(e)]) = EOC)
  BY <1>9 DEF V
<1>11. ChainOf(m, c) = e
  BY <1>3
<1> HIDE DEF e
<1>12. Len(e) \in Nat /\ Len(e) >= 1 /\ Path(m, e, Len(e)) /\ e[1] = c
  BY <1>10 DEF ChainFrom
<1>13. Len(e) <= Clusters
  BY <1>12, PathFits
<1>14. Len(e) # n + 1
  BY <1>13, <1>12, GeometryAssumption DEF n
<1> QED
  BY <1>10, <1>11, <1>14

(* A number below n blocks of d is in one of them.                         *)
LEMMA BelowProduct ==
  ASSUME NEW d \in Nat \ {0}, NEW n \in Nat, NEW a \in Nat, a < n * d
  PROVE  a \div d \in 0 .. n - 1
<1> DEFINE b == a \div d
           r == a % d
<1>1. b \in Nat /\ r \in 0 .. d - 1 /\ a = d * b + r
  OBVIOUS
<1> HIDE DEF b, r
<1>2. \A x \in Nat : b >= x => d * b >= d * x
  BY <1>1
<1>3. d * n = n * d /\ d * b \in Int /\ n * d \in Int
  BY <1>1
<1>4. ~(b >= n)
  BY <1>1, <1>2, <1>3
<1>5. b \in 0 .. n - 1
  BY <1>1, <1>4
<1> QED
  BY <1>5 DEF b

(* The sectors of a chain, and those of a table, are in the area of the    *)
(* tables and the files.                                                   *)
LEMMA SectsAre ==
  ASSUME NEW m, NEW c, NEW s, ChainFrom(m, c, s)
  PROVE  SectsOf(s) \in Seq(TableArea)
<1>1. /\ s \in Seq(RealClusters) /\ Len(s) \in Nat /\ Len(s) >= 1 /\ s # <<>>
      /\ ClusterSectors \in Nat \ {0}
  BY GeometryAssumption DEF ChainFrom
<1>2. s[Len(s)] \in RealClusters
  BY <1>1
<1> DEFINE N == Len(s) * ClusterSectors
<1>3. ~(s # <<>> /\ s[Len(s)] = 0)
  BY <1>2, NumbersApart
<1>4. N \in Nat
  BY <1>1
<1> HIDE DEF N
<1>5. ASSUME NEW i \in 1..N
      PROVE  clst2sect(s[1 + (i - 1) \div ClusterSectors]) + ((i - 1) % ClusterSectors) \in TableArea
  <2> DEFINE j == 1 + (i - 1) \div ClusterSectors
  <2>1. i - 1 \in Nat /\ i - 1 < Len(s) * ClusterSectors
    BY <1>4 DEF N
  <2>2. (i - 1) \div ClusterSectors \in 0 .. Len(s) - 1
    BY <1>1, <2>1, BelowProduct
  <2>3. j \in 1..Len(s)
    BY <2>2, <1>1
  <2>4. (i - 1) % ClusterSectors \in 0 .. ClusterSectors - 1
    BY <1>1, <2>1
  <2> HIDE DEF j
  <2>5. s[j] \in RealClusters /\ s[j] \in Int
    <3>1. s[j] \in RealClusters
      BY <1>1, <2>3
    <3> QED
      BY <3>1, LayoutIs DEF RealClusters
  <2> QED
    BY <2>4, <2>5, ClusterIsThere DEF j
<1>6. SectsOf(s) = [i \in 1..N |-> clst2sect(s[1 + (i - 1) \div ClusterSectors])
                                     + ((i - 1) % ClusterSectors)]
  BY <1>3, Zenon DEF SectsOf, N
<1>7. SectsOf(s) \in [1..N -> TableArea]
  BY <1>5, <1>6
<1> QED
  BY <1>4, <1>7

(* The sectors of a directory hold tables. *)
LEMMA TableSectsAre ==
  ASSUME NEW m \in Cards, Kept(m, {}, {}), NEW c, c = 0 \/ First(m, c)
  PROVE  TableSects(m, c) \in Seq(TableArea)
<1>1. CASE c = 0 /\ FatType = 2
  <2> DEFINE N == DataBase - RootSect
  <2>1. N \in Nat
    BY LayoutIs
  <2>2. \A i \in 1..N : RootSect + i - 1 \in TableArea
    BY LayoutIs, GeometryAssumption DEF TableArea
  <2>3. TableSects(m, c) = [i \in 1..N |-> RootSect + i - 1]
    BY <1>1 DEF TableSects
  <2> HIDE DEF N
  <2>4. TableSects(m, c) \in [1..N -> TableArea]
    BY <2>2, <2>3
  <2> QED
    BY <2>1, <2>4
<1>2. CASE ~(c = 0 /\ FatType = 2)
  <2> DEFINE d == IF c = 0 THEN RootClust ELSE c
  <2>1. First(m, d)
    BY <1>2, GeometryAssumption DEF Kept, Owned, Reserved
  <2>2. FatSound(m)
    BY DEF Kept
  <2>2a. TableSects(m, c) = SectsOf(ChainOf(m, d))
    BY <1>2, Zenon DEF TableSects
  <2> HIDE DEF d
  <2>3. ChainFrom(m, d, ChainOf(m, d))
    BY <2>1, <2>2, ChainIs
  <2> QED
    BY <2>2a, <2>3, SectsAre
<1> QED
  BY <1>1, <1>2

(* The objects that a card can have: the entry in a slot, with the number  *)
(* of the slot in its table.                                               *)
Object(m, p) == [at |-> p[1], k |-> p[2], nm |-> At(m, p[1]).nm, dir |-> At(m, p[1]).dir,
                 cl |-> At(m, p[1]).cl, sz |-> At(m, p[1]).sz]
Spots(m) == {p \in Places \X Nat : Named(At(m, p[1]))}
ObjectsIn(m) == {Object(m, p) : p \in Spots(m)}

(* What a directory holds stands in slots of the volume. *)
LEMMA ObjectsAre ==
  ASSUME NEW m \in Cards, Kept(m, {}, {}), NEW c, c = 0 \/ First(m, c)
  PROVE  Objects(m, {}, c) \subseteq ObjectsIn(m)
<1> DEFINE ss == TableSects(m, c)
           N == Len(ss) * DirEntriesPerSector
           at == Slots(m, {}, ss)
<1>1. ss \in Seq(TableArea) /\ DirEntriesPerSector \in Nat \ {0} /\ Len(ss) \in Nat
  BY TableSectsAre, GeometryAssumption
<1>2. Objects(m, {}, c) = {at[k] : k \in {j \in DOMAIN at : /\ at[j].nm \notin {Deleted, ".", ".."}
                                                            /\ \A i \in 1..j : at[i].nm # ""}}
  BY Zenon DEF Objects, With
<1> HIDE DEF ss
<1>3. N \in Nat
  BY <1>1
<1>4. at = [k \in 1..N |-> ObjectIn(m, {}, k, ss[1 + (k - 1) \div DirEntriesPerSector],
                                    (k - 1) % DirEntriesPerSector)]
  BY Zenon DEF Slots
<1> HIDE DEF N, at
<1>5. DOMAIN at = 1..N
  BY <1>4
<1>6. ASSUME NEW k \in 1..N
      PROVE  \E a \in Places : at[k] = Object(m, <<a, k>>)
  <2> DEFINE s == ss[1 + (k - 1) \div DirEntriesPerSector]
             i == (k - 1) % DirEntriesPerSector
             a == <<s, i>>
  <2>1. k - 1 \in Nat /\ k - 1 < Len(ss) * DirEntriesPerSector
    BY <1>3 DEF N
  <2>2. (k - 1) \div DirEntriesPerSector \in 0 .. Len(ss) - 1
    BY <1>1, <2>1, BelowProduct
  <2>3. s \in TableArea
    BY <1>1, <2>2
  <2>4. i \in SlotNos
    BY <1>1, <2>1 DEF SlotNos
  <2>5. at[k] = ObjectIn(m, {}, k, s, i)
    BY <1>4
  <2> HIDE DEF s, i
  <2>6. a \in Places /\ a[1] = s /\ a[2] = i
    BY <2>3, <2>4 DEF Places
  <2>7. ObjectIn(m, {}, k, s, i) = [at |-> <<s, i>>, k |-> k, nm |-> EntriesOf(m[s])[i].nm,
            dir |-> EntriesOf(m[s])[i].dir, cl |-> EntriesOf(m[s])[i].cl,
            sz |-> EntriesOf(m[s])[i].sz]
    <3>1. {x \in {} : x.dsect = s /\ x.dptr = i} = {}
      OBVIOUS
    <3> QED
      BY <3>1 DEF ObjectIn
  <2>8. at[k] = Object(m, <<a, k>>)
    BY <2>5, <2>6, <2>7 DEF Object, At
  <2> QED
    BY <2>6, <2>8
<1>7. ASSUME NEW j \in 1..N, at[j].nm \notin {Deleted, ".", ".."}, \A i \in 1..j : at[i].nm # ""
      PROVE  at[j] \in ObjectsIn(m)
  <2>1. PICK a \in Places : at[j] = Object(m, <<a, j>>)
    BY <1>6
  <2>2. j \in 1..j
    BY <1>3
  <2>2a. at[j].nm = At(m, a).nm
    BY <2>1 DEF Object
  <2>3. Named(At(m, a))
    BY <1>7, <2>2, <2>2a, Zenon DEF Named
  <2>4. j \in Nat
    BY <1>3
  <2>5. <<a, j>> \in Spots(m)
    BY <2>3, <2>4 DEF Spots
  <2> QED
    BY <2>1, <2>5 DEF ObjectsIn
<1>8. ASSUME NEW j \in DOMAIN at, at[j].nm \notin {Deleted, ".", ".."}, \A i \in 1..j : at[i].nm # ""
      PROVE  at[j] \in ObjectsIn(m)
  BY <1>5, <1>7, <1>8, Zenon
<1> QED
  BY <1>2, <1>8, Zenon

(* So the tree has no others, however deep it is read.                     *)
LEMMA ObjectSound ==
  ASSUME NEW m, Kept(m, {}, {}), NEW o \in ObjectsIn(m)
  PROVE  /\ o.cl = 0 => o.sz = 0
         /\ o.cl # 0 => First(m, o.cl) /\ o.cl \notin Reserved /\ Long(m, o.cl, o.sz)
         /\ o.at \in Places /\ o.cl = Claim(At(m, o.at))
<1>1. PICK p \in Spots(m) : o = Object(m, p)
  BY DEF ObjectsIn
<1>2. p[1] \in Places /\ Named(At(m, p[1]))
  BY DEF Spots
<1>3. o.at = p[1] /\ o.cl = At(m, p[1]).cl /\ o.sz = At(m, p[1]).sz
  BY <1>1 DEF Object
<1>4. Rooted(m, At(m, p[1]))
  BY <1>2 DEF Kept, EntriesSound
<1>5. o.cl = Claim(At(m, o.at))
  BY <1>2, <1>3 DEF Claim
<1>6. o.cl \notin Reserved
  BY <1>2, <1>3, <1>5 DEF Kept, Owned
<1> QED
  BY <1>2, <1>3, <1>4, <1>5, <1>6 DEF Rooted

(* So does everything below it. *)
LEMMA AllObjectsAre ==
  ASSUME NEW m \in Cards, Kept(m, {}, {}), NEW depth \in Nat
  PROVE  AllObjects(m, {}, depth) \subseteq ObjectsIn(m)
<1> DEFINE n == depth
           a == Objects(m, {}, 0)
           V == SUBSET ObjectsIn(m)
           B(l) == UNION {Objects(m, {}, e.cl) : e \in {x \in l : x.dir}}
           F(h) == [k \in 0..n |-> IF k = 0 THEN a ELSE B(h[k - 1])]
           at == CHOOSE h : h = F(h)
           G == [p \in V \X (1..n) |-> B(p[1])]
<1>1. a \in V
  BY ObjectsAre
<1>2. ASSUME NEW l \in V PROVE B(l) \in V
  <2>1. ASSUME NEW e \in l PROVE Objects(m, {}, e.cl) \subseteq ObjectsIn(m)
    <3>1. e.cl = 0 \/ First(m, e.cl)
      BY <2>1, <1>2, ObjectSound
    <3> QED
      BY <3>1, ObjectsAre
  <2> QED
    BY <2>1
<1>3. AllObjects(m, {}, depth) = UNION {at[k] : k \in 0..n}
  BY Zenon DEF AllObjects
<1> HIDE DEF a, V, B, n
<1>4. G \in [V \X (1..n) -> V] /\ \A l \in V, k \in 1..n : G[<<l, k>>] = B(l)
  BY <1>2
<1> HIDE DEF G
<1>4a. n \in Nat
  BY DEF n
<1>5. PICK g \in [0..n -> V] : Runs(g, V, a, G, n)
  BY <1>1, <1>4, <1>4a, LoopRuns, Zenon
<1>6. g = F(g)
  <2>1. \A k \in 1..n : g[k] = B(g[k - 1])
    BY <1>4, <1>5, Zenon DEF Runs
  <2>2. \A k \in 0..n : g[k] = IF k = 0 THEN a ELSE B(g[k - 1])
    BY <1>5, <2>1 DEF Runs
  <2> QED
    BY <2>2
<1>7. at = F(at)
  BY <1>6
<1> HIDE DEF at
<1>8. at[0] = a /\ \A k \in 1..n : at[k] = B(at[k - 1])
  BY <1>4a, <1>7
<1>9. \A k \in 0..n : at[k] \in V
  <2> DEFINE S == {k \in 0..n : at[k] \in V}
  <2>1. 0 \in S
    BY <1>1, <1>8, <1>4a
  <2>2. \A k \in 1..n : k - 1 \in S => k \in S
    BY <1>2, <1>8
  <2> HIDE DEF S
  <2>3. \A k \in 0..n : k \in S
    BY <1>4a, <2>1, <2>2, BoundedInduction
  <2> QED
    BY <2>3 DEF S
<1> QED
  BY <1>3, <1>9 DEF V

(* An entry's chain holds its bytes.                                       *)
LEMMA LongCovers ==
  ASSUME NEW m \in Cards, Kept(m, {}, {}), NEW o \in ObjectsIn(m), o.sz \in Nat
  PROVE  Covers(m, o)
<1> DEFINE ch == ChainOf(m, o.cl)
<1>0. Covers(m, o) = (0 \notin SetOf(ch) /\ o.sz <= Len(ch) * ClusterBytes)
  BY Zenon DEF Covers, With
<1>1. CASE o.cl = 0
  <2>1. ch = <<>> /\ o.sz = 0
    BY <1>1, ObjectSound DEF ChainOf
  <2>2. DOMAIN ch = {} /\ Len(ch) = 0
    BY <2>1
  <2> HIDE DEF ch
  <2>3. 0 \notin SetOf(ch)
    BY <2>2 DEF SetOf
  <2>4. o.sz <= Len(ch) * ClusterBytes
    BY <2>1, <2>2, LayoutIs
  <2> QED
    BY <1>0, <2>3, <2>4
<1>2. CASE o.cl # 0
  <2>1. First(m, o.cl) /\ Long(m, o.cl, o.sz) /\ FatSound(m)
    BY <1>2, ObjectSound DEF Kept
  <2>2. ChainFrom(m, o.cl, ch) /\ FatEntry(m, ch[Len(ch)]) = EOC
    BY <2>1, ChainIs
  <2> HIDE DEF ch
  <2>3. /\ ch \in Seq(RealClusters) /\ Len(ch) \in Nat /\ Len(ch) >= 1 /\ ch[1] = o.cl
        /\ Path(m, ch, Len(ch))
    BY <2>2 DEF ChainFrom
  <2>4. 0 \notin SetOf(ch)
    BY <2>3, NumbersApart DEF SetOf
  <2>5. o.sz <= Len(ch) * ClusterBytes
    <3>1. CASE o.sz = 0
      BY <3>1, <2>3, LayoutIs
    <3>2. CASE o.sz # 0
      <4>1. PICK n \in Nat \ {0} : \E p \in [1..n -> RealClusters] :
                    Path(m, p, n) /\ p[1] = o.cl /\ o.sz <= n * ClusterBytes
        BY <2>1, <3>2 DEF Long
      <4>2. PICK p \in [1..n -> RealClusters] : Path(m, p, n) /\ p[1] = o.cl /\ o.sz <= n * ClusterBytes
        BY <4>1
      <4>3. n <= Len(ch)
        <5>1. SUFFICES ASSUME Len(ch) < n PROVE FALSE
          BY <2>3
        <5> DEFINE S == {i \in 0 .. Len(ch) : i >= 1 => p[i] = ch[i]}
        <5>2. 0 \in S
          BY <2>3
        <5>3. ASSUME NEW i \in 1..Len(ch), i - 1 \in S PROVE i \in S
          <6>1. CASE i = 1
            BY <6>1, <4>2, <2>3
          <6>2. CASE i # 1
            <7> DEFINE j == i - 1
            <7>1. j \in 1..Len(ch) - 1 /\ j \in 1..n - 1 /\ i = j + 1 /\ j >= 1
              BY <6>2, <5>1, <2>3
            <7>2. p[j] = ch[j]
              BY <5>3, <7>1
            <7> HIDE DEF j
            <7>3. FatEntry(m, p[j]) = p[j + 1] /\ FatEntry(m, ch[j]) = ch[j + 1]
              BY <7>1, <4>2, <2>3 DEF Path
            <7> QED
              BY <7>1, <7>2, <7>3
          <6> QED
            BY <6>1, <6>2
        <5> HIDE DEF S
        <5>4. \A i \in 0..Len(ch) : i \in S
          BY <2>3, <5>2, <5>3, BoundedInduction
        <5>5. p[Len(ch)] = ch[Len(ch)]
          BY <5>4, <2>3 DEF S
        <5>6. Len(ch) \in 1..n - 1
          BY <5>1, <2>3
        <5>7. FatEntry(m, p[Len(ch)]) = p[Len(ch) + 1] /\ p[Len(ch) + 1] \in RealClusters
          BY <5>6, <4>2 DEF Path
        <5>8. EOC \notin RealClusters
          BY LayoutIs DEF EOC, RealClusters
        <5> QED
          BY <5>5, <5>7, <5>8, <2>2
      <4>4. n * ClusterBytes <= Len(ch) * ClusterBytes
        BY <4>3, <2>3, LayoutIs
      <4>5. n * ClusterBytes \in Nat /\ Len(ch) * ClusterBytes \in Nat
        BY <2>3, LayoutIs
      <4> QED
        BY <4>2, <4>4, <4>5
    <3> QED
      BY <3>1, <3>2
  <2> QED
    BY <1>0, <2>4, <2>5
<1> QED
  BY <1>1, <1>2

(* A chain that ends well, and a volume kept so is sound.                  *)
LEMMA ChainEndsWell ==
  ASSUME NEW m \in Cards, FatSound(m), NEW c, First(m, c)
  PROVE  WellFormed(m, c)
<1> DEFINE ch == ChainOf(m, c)
<1>1. ChainFrom(m, c, ch) /\ FatEntry(m, ch[Len(ch)]) = EOC
  BY ChainIs
<1>2. WellFormed(m, c) = (/\ 0 \notin SetOf(ch)
                          /\ Cardinality(SetOf(ch)) = Len(ch)
                          /\ FatEntry(m, ch[Len(ch)]) >= NFatEnt)
  BY Zenon DEF WellFormed, With
<1> HIDE DEF ch
<1>3. /\ ch \in Seq(RealClusters) /\ Len(ch) \in Nat /\ Len(ch) >= 1 /\ ch[1] = c
      /\ Path(m, ch, Len(ch))
  BY <1>1 DEF ChainFrom
<1>4. 0 \notin SetOf(ch)
  BY <1>3, NumbersApart DEF SetOf
<1>5. \A i, j \in 1..Len(ch) : ch[i] = ch[j] => i = j
  BY <1>3, PathFits
<1> DEFINE I == 1..Len(ch)
<1>6. ch \in Bijection(I, SetOf(ch))
  <2>1. DOMAIN ch = I /\ ch \in [I -> SetOf(ch)]
    BY <1>3 DEF SetOf
  <2>2. ch \in Injection(I, SetOf(ch))
    BY <2>1, <1>5 DEF Injection, IsInjective
  <2>3. ch \in Surjection(I, SetOf(ch))
    BY <2>1 DEF Surjection, SetOf
  <2> QED
    BY <2>2, <2>3 DEF Bijection
<1>7. IsFiniteSet(I) /\ Cardinality(I) = Len(ch)
  BY <1>3, FS_Interval
<1> HIDE DEF I
<1>8. Cardinality(SetOf(ch)) = Len(ch)
  <2>1. ExistsBijection(I, SetOf(ch))
    BY <1>6, Zenon DEF ExistsBijection
  <2>2. Cardinality(SetOf(ch)) = Cardinality(I)
    BY <1>7, <2>1, FS_Bijection, Zenon
  <2> QED
    BY <1>7, <2>2
<1>9. FatEntry(m, ch[Len(ch)]) >= NFatEnt
  BY <1>1, LayoutIs DEF EOC
<1> QED
  BY <1>2, <1>4, <1>8, <1>9

(* Two chains with different first clusters share no cluster. *)
LEMMA ChainsApart ==
  ASSUME NEW m \in Cards, FatSound(m), NEW c, NEW d, First(m, c), First(m, d), c # d
  PROVE  SetOf(ChainOf(m, c)) \cap SetOf(ChainOf(m, d)) = {}
<1> DEFINE p == ChainOf(m, c)
           q == ChainOf(m, d)
<1>1. ChainFrom(m, c, p) /\ ChainFrom(m, d, q)
  BY ChainIs
<1> HIDE DEF p, q
<1>2. /\ p \in Seq(RealClusters) /\ Len(p) \in Nat /\ Len(p) >= 1 /\ p[1] = c /\ Path(m, p, Len(p))
      /\ q \in Seq(RealClusters) /\ Len(q) \in Nat /\ Len(q) >= 1 /\ q[1] = d /\ Path(m, q, Len(q))
  BY <1>1 DEF ChainFrom
<1>3. DOMAIN p = 1..Len(p) /\ DOMAIN q = 1..Len(q)
  BY <1>2
<1>4. \A i \in 1..Len(p), j \in 1..Len(q) : p[i] # q[j]
  BY <1>2, PathsApart
<1>5. SetOf(p) \cap SetOf(q) = {}
  BY <1>3, <1>4 DEF SetOf
<1> QED
  BY <1>5 DEF p, q

(* What is said slot by slot makes the volume sound: no cluster belongs to *)
(* two files or directories, and no entry claims more bytes than its chain *)
(* of clusters has.                                                        *)
LEMMA KeptIsSound ==
  ASSUME NEW m \in Cards, Kept(m, {}, {}), NEW depth \in Nat
  PROVE  NoCrossLinks(m, {}, depth) /\ SizesCovered(m, {}, depth)
<1> DEFINE all == AllObjects(m, {}, depth)
           objs == Allocated(m, {}, depth)
           heads == Heads(objs)
           chains == [c \in heads |-> SetOf(ChainOf(m, c))]
<1>1. all \subseteq ObjectsIn(m)
  BY AllObjectsAre
<1>2. objs = {o \in all : o.cl # 0}
  BY DEF Allocated
<1>3. FatSound(m)
  BY DEF Kept
<1>4. SizesCovered(m, {}, depth) = \A e \in all : e.dir \/ Covers(m, e)
  BY Zenon DEF SizesCovered
<1> HIDE DEF all, objs
<1>5. \A e \in all : e.sz \in Nat
  <2>1. ASSUME NEW e \in all PROVE e.sz \in Nat
    <3>1. PICK p \in Spots(m) : e = Object(m, p)
      BY <1>1 DEF ObjectsIn
    <3>2. e.sz = EntriesOf(m[p[1][1]])[p[1][2]].sz /\ p[1] \in Places
      BY <3>1 DEF Object, At, Spots
    <3>3. p[1][1] \in Sectors /\ p[1][2] \in 0 .. DirEntriesPerSector - 1
      BY <3>2, AreasApart DEF Places, SlotNos
    <3>4. m[p[1][1]] \in SectorSet
      BY <3>3 DEF Cards
    <3>5. EntriesOf(m[p[1][1]])[p[1][2]] \in EntrySet
      BY <3>3, <3>4, EntriesAre
    <3> QED
      BY <3>2, <3>5 DEF EntrySet
  <2> QED
    BY <2>1
<1>6. SizesCovered(m, {}, depth)
  BY <1>1, <1>4, <1>5, LongCovers
<1>7. \A c \in heads : First(m, c)
  <2>1. \A o \in objs : First(m, o.cl)
    BY <1>1, <1>2, ObjectSound
  <2>2. FatType = 3 => First(m, RootClust)
    BY DEF Kept, Owned, Reserved
  <2> QED
    BY <2>1, <2>2 DEF Heads
<1>8. ASSUME NEW a \in objs, NEW b \in objs, a.cl = b.cl PROVE a.at = b.at
  <2>1. /\ a.cl # 0 /\ a.at \in Places /\ a.cl = Claim(At(m, a.at))
        /\ b.at \in Places /\ b.cl = Claim(At(m, b.at))
    BY <1>1, <1>2, ObjectSound
  <2> QED
    BY <1>8, <2>1 DEF Kept, EntriesSound
<1> HIDE DEF heads
<1>9. \A c \in DOMAIN chains : WellFormed(m, c)
  BY <1>3, <1>7, ChainEndsWell
<1>10. \A a, b \in DOMAIN chains : a # b => chains[a] \cap chains[b] = {}
  BY <1>3, <1>7, ChainsApart
<1>11. NoCrossLinks(m, {}, depth)
  <2>1. heads = Heads(Allocated(m, {}, depth)) /\ objs = Allocated(m, {}, depth)
    BY DEF heads, objs
  <2>2. chains \in {[c \in Heads(objs) |-> SetOf(ChainOf(m, c))]}
    BY <2>1
  <2>3. \A a, b \in objs : a.cl = b.cl => a.at = b.at
    BY <1>8
  <2> HIDE DEF chains
  <2> QED
    BY <1>9, <1>10, <2>1, <2>2, <2>3, Zenon DEF NoCrossLinks
<1> QED
  BY <1>6, <1>11

-----------------------------------------------------------------------------
(* What the program sees of the card while a call runs, and the card that  *)
(* a power loss would leave.                                               *)
Sees(v) == Seen(v.disk, v.fs)
SameHere(m, n) == \A s \in FatSects \union TableArea : n[s] = m[s]
(* The window holds the sector it says, or an empty one that a failed write*)
(* has not put on the card.                                                *)
WinTrue(v) ==
  /\ v.fs.winsect \in FatSects => v.fs.win = Sees(v)[v.fs.winsect]
  /\ v.fs.winsect \in TableArea =>
       \A i \in SlotNos : \/ EntriesOf(v.fs.win)[i] = At(Sees(v), <<v.fs.winsect, i>>)
                          \/ Blank(EntriesOf(v.fs.win)[i])
(* The volume is sound as it is seen, on the card, and on every card that  *)
(* the call has left so far.                                               *)
Sane(v, P, X) == /\ Kept(Sees(v), P, X) /\ Kept(v.disk, {}, X)
                 /\ \A d \in v.media : Kept(d, {}, X)
                 /\ WinTrue(v)
(* A step that at most writes what was seen, *)
Looks(v, w) == /\ w.to = v.to /\ SameHere(Sees(v), Sees(w))
               /\ w.disk = v.disk \/ SameHere(Sees(v), w.disk)
               /\ \A d \in w.media : d \in v.media \/ SameHere(Sees(v), d)
               /\ WinTrue(v) => WinTrue(w)
(* And one that keeps the volume sound, whatever chains are unnamed, and   *)
(* every link between clusters.                                            *)
LinksKept(m, n) == \A d \in RealClusters : FatEntry(m, d) \in RealClusters =>
                                              FatEntry(n, d) = FatEntry(m, d)
Works(v, w) == \A P \in SUBSET RealClusters : \A X \in SUBSET Places :
                  Sane(v, P, X) =>
                    Sane(w, P, X) /\ LinksKept(Sees(v), Sees(w)) /\ w.to = v.to
SameStore(v, w) == /\ w.disk = v.disk /\ w.fs = v.fs /\ w.media = v.media /\ w.to = v.to
                   /\ w.from = v.from
Live == Good(FALSE)

(* What every call may rely on. *)
LEMMA LiveIs ==
  ASSUME NEW v \in Live
  PROVE  /\ v \in CallSet /\ v \in Steady(FALSE) /\ v \in Good(FALSE) /\ v.disk \in Cards
         /\ v.fs \in Volumes /\ v.media \subseteq Cards /\ v.fs.type # 0 /\ v.fs.reg
         /\ v.fs.wflag \in BOOLEAN /\ v.fs.win \in SectorSet /\ v.dp \in DirSet /\ v.fp \in FilSet
         /\ v.ret \in Nat /\ v.res \in Results /\ v.to \in Int /\ v.n \in Nat /\ v.cnt \in Nat
         /\ v.ret \in Int /\ FALSE \in BOOLEAN
<1>1. v \in CallSet /\ v.fs.type # 0 /\ v.fs.reg /\ v \in Steady(FALSE)
  BY DEF Live, Good, Steady
<1>2. v.fs \in Volumes
  BY <1>1 DEF CallSet
<1>3. v.fs.wflag \in BOOLEAN /\ v.fs.win \in SectorSet
  BY <1>2 DEF Volumes, FsSet
<1>4. v.ret \in Nat
  BY <1>1 DEF CallSet
<1>5. v.ret \in Int
  BY <1>4
<1> QED
  BY <1>1, <1>2, <1>3, <1>4, <1>5 DEF CallSet, Live

(* The volume need not be whole for that. *)
LEMMA GoodLives ==
  ASSUME NEW v, v \in Good(FALSE) \/ v \in Steady(FALSE)
  PROVE  v \in Live
<1>1. v \in Steady(FALSE)
  BY Zenon DEF Good
<1>2. v \in Good(FALSE)
  BY <1>1, Zenon DEF Good
<1> QED
  BY <1>2, Zenon DEF Live

(* What is seen of a sector.                                               *)
LEMMA SeesIs ==
  ASSUME NEW v \in CallSet
  PROVE  /\ \A s \in Sectors : Sees(v)[s] = IF v.fs.wflag /\ s = v.fs.winsect THEN v.fs.win
                                           ELSE v.disk[s]
         /\ ~v.fs.wflag => Sees(v) = v.disk
         /\ Sees(v) \in Cards
<1>1. \A s \in Sectors : Sees(v)[s] = IF v.fs.wflag /\ s = v.fs.winsect THEN v.fs.win
                                           ELSE v.disk[s]
  BY SeenIs DEF Sees
<1>2. ~v.fs.wflag => Sees(v) = v.disk
  BY DEF Sees, Seen
<1>3. v.fs \in Volumes /\ v.disk \in Cards
  BY DEF CallSet
<1>4. Sees(v) \in Cards
  <2>1. CASE v.fs.type # 0 /\ v.fs.wflag
    <3> DEFINE s == v.fs.winsect
               c == v.fs.win
               m == v.disk
    <3>1. s \in WinSects /\ c \in Holds(s)
      BY <1>3, <2>1 DEF Volumes, WindowHolds
    <3>2. s \in Sectors /\ c \in SectorSet
      BY <1>3, <3>1, AreasApart DEF Volumes, FsSet
    <3>3. Sees(v) = [m EXCEPT ![s] = c]
      BY <2>1 DEF Sees, Seen
    <3>4. m \in [Sectors -> SectorSet] /\ \A t \in Sectors : m[t] \in Holds(t)
      BY <1>3 DEF Cards
    <3> HIDE DEF s, c, m
    <3>5. [m EXCEPT ![s] = c] \in Cards
      BY <3>1, <3>2, <3>4 DEF Cards
    <3> QED
      BY <3>3, <3>5
  <2>2. CASE ~(v.fs.type # 0 /\ v.fs.wflag)
    BY <1>3, <2>2 DEF Sees, Seen
  <2> QED
    BY <2>1, <2>2
<1> QED
  BY <1>1, <1>2, <1>4

(* A card with the same FAT and tables keeps what the other does.          *)
LEMMA HereSame ==
  ASSUME NEW m, NEW n, SameHere(m, n)
  PROVE  /\ SameFatIn(m, n) /\ SameSlots(m, n) /\ Under(m, n)
         /\ \A P : \A Q \in SUBSET P : \A X : Kept(m, P, X) => Kept(n, Q, X)
<1>1. SameFatIn(m, n)
  <2>1. ASSUME NEW c \in RealClusters PROVE FatEntry(n, c) = FatEntry(m, c)
    <3>1. FatBase + c \div FatEntriesPerSector \in FatSects
      BY NumbersApart, FatHasRoom
    <3> QED
      BY <3>1 DEF FatEntry, SameHere
  <2> QED
    BY <2>1 DEF SameFatIn
<1>2. SameSlots(m, n)
  BY DEF SameSlots, At, Places, SameHere
<1>3. Under(m, n)
  BY <1>1, <1>2 DEF Under, SameSlots
<1>4. ASSUME NEW P, NEW Q \in SUBSET P, NEW X, Kept(m, P, X) PROVE Kept(n, Q, X)
  BY <1>3, <1>4, KeptUnder
<1> QED
  BY <1>1, <1>2, <1>3, <1>4

(* Reading keeps the volume as sound as it is,                             *)
LEMMA LooksWorks ==
  ASSUME NEW v, NEW w, Looks(v, w)
  PROVE  Works(v, w)
<1> SUFFICES ASSUME NEW P \in SUBSET RealClusters, NEW X \in SUBSET Places, Sane(v, P, X)
             PROVE  Sane(w, P, X)
  <2>1. SameFatIn(Sees(v), Sees(w))
    BY HereSame DEF Looks
  <2>2. LinksKept(Sees(v), Sees(w)) /\ w.to = v.to
    BY <2>1 DEF Looks, LinksKept, SameFatIn
  <2> QED
    BY <2>2, Zenon DEF Works
<1>1. Kept(Sees(v), P, X) /\ Kept(v.disk, {}, X) /\ \A d \in v.media : Kept(d, {}, X)
  BY DEF Sane
<1>2. Kept(Sees(w), P, X)
  BY <1>1, HereSame DEF Looks
<1>3. \A d : SameHere(Sees(v), d) => Kept(d, {}, X)
  BY <1>1, HereSame
<1>4. Kept(w.disk, {}, X) /\ \A d \in w.media : Kept(d, {}, X)
  BY <1>1, <1>3 DEF Looks
<1> QED
  BY <1>2, <1>4 DEF Sane, Looks

(* And so do two such steps.                                               *)
LEMMA LooksOn ==
  ASSUME NEW v, NEW w, NEW u, Looks(v, w), Looks(w, u)
  PROVE  Looks(v, u)
BY DEF Looks, SameHere

(* Two steps that keep the volume sound are one. *)
LEMMA WorksOn ==
  ASSUME NEW v, NEW w, NEW u, Works(v, w), Works(w, u)
  PROVE  Works(v, u)
<1>1. \A l, m, n : LinksKept(l, m) /\ LinksKept(m, n) => LinksKept(l, n)
  BY DEF LinksKept
<1> QED
  BY <1>1, Zenon DEF Works

(* A step that leaves the card and the FATFS object alone is one. *)
LEMMA StoreLooks ==
  ASSUME NEW v, NEW w, SameStore(v, w)
  PROVE  Looks(v, w) /\ Works(v, w)
<1>1. Sees(w) = Sees(v)
  BY DEF SameStore, Sees
<1>2. WinTrue(w) = WinTrue(v)
  BY <1>1, Zenon DEF SameStore, WinTrue
<1>3. Looks(v, w)
  BY <1>1, <1>2 DEF Looks, SameStore, SameHere
<1> QED
  BY <1>3, LooksWorks

(* Two of them are one. *)
LEMMA StoreOn ==
  ASSUME NEW v, NEW w, NEW u, SameStore(v, w), SameStore(w, u)
  PROVE  SameStore(v, u)
BY DEF SameStore

(* Every field of a call but the card's and the window's may be changed.   *)
LEMMA FieldsStore ==
  ASSUME NEW v \in CallSet
  PROVE  /\ \A x : SameStore(v, [v EXCEPT !.res = x])
         /\ \A x : SameStore(v, [v EXCEPT !.ret = x])
         /\ \A x : SameStore(v, [v EXCEPT !.n = x])
         /\ \A x : SameStore(v, [v EXCEPT !.fp = x])
         /\ \A x : SameStore(v, [v EXCEPT !.dp = x])
         /\ \A x : SameStore(v, [v EXCEPT !.buf = x])
         /\ \A x : SameStore(v, [v EXCEPT !.cnt = x])
BY DEF SameStore, CallSet

(* Setting the result, *)
LEMMA ResStore ==
  ASSUME NEW v \in CallSet, NEW r
  PROVE  SameStore(v, Res(v, r)) /\ SameStore(v, OK(v)) /\ SameStore(v, Again(v))
BY FieldsStore DEF Res, OK, Again

(* or what is returned, *)
LEMMA RetStore ==
  ASSUME NEW v \in CallSet, NEW c \in Nat
  PROVE  SameStore(v, Ret(v, c))
<1> DEFINE u == [v EXCEPT !.ret = c]
           w == [u EXCEPT !.res = "OK"]
<1>1. Ret(v, c) = w
  BY Zenon DEF Ret
<1>2. u \in CallSet /\ SameStore(v, u)
  BY SetRet, FieldsStore
<1> HIDE DEF u
<1>3. SameStore(u, w)
  BY <1>2, FieldsStore
<1> QED
  BY <1>1, <1>2, <1>3, StoreOn

(* or reading a sector is such a step. *)
LEMMA DiskReadStore ==
  ASSUME NEW v \in CallSet, NEW s
  PROVE  SameStore(v, DiskRead(v, s))
<1> DEFINE r == IF Fails(v) THEN "DISK_ERR" ELSE "OK"
           u == [v EXCEPT !.n = v.n + 1]
           w == [u EXCEPT !.res = r]
<1>1. DiskRead(v, s) = w
  BY Zenon DEF DiskRead
<1>2. v.n + 1 \in Nat
  BY DEF CallSet
<1>3. u \in CallSet /\ SameStore(v, u)
  BY <1>2, SetN, FieldsStore
<1> HIDE DEF u, r
<1>4. SameStore(u, w)
  BY <1>3, FieldsStore
<1> QED
  BY <1>1, <1>3, <1>4, StoreOn

(* A write of a sector puts one card more among those that a power loss    *)
(* can leave.                                                              *)
LEMMA DiskWriteMedia ==
  ASSUME NEW v \in CallSet, NEW s \in Sectors, NEW c \in Holds(s)
  PROVE  LET w == DiskWrite(v, s, c)
         IN  /\ w.res # "OK" => SameStore(v, w)
             /\ w.res = "OK" => w.media = v.media \union {w.disk}
<1> DEFINE d == [v.disk EXCEPT ![s] = c]
           u == [v EXCEPT !.n = v.n + 1]
           x == [[u EXCEPT !.disk = d] EXCEPT !.media = u.media \union {d}]
           f == [u EXCEPT !.res = "DISK_ERR"]
           g == [x EXCEPT !.res = "OK"]
<1>0. v.n + 1 \in Nat /\ v.media \in SUBSET Cards
  BY DEF CallSet
<1>1. u \in CallSet /\ SameStore(v, u) /\ u.media = v.media
  BY <1>0, SetN, FieldsStore
<1>2. DiskWrite(v, s, c) = IF Fails(v) THEN f ELSE g
  <2>1. CASE Fails(v)
    BY <2>1, Zenon DEF DiskWrite
  <2>2. CASE ~Fails(v)
    <3>1. DiskWrite(v, s, c) = [v EXCEPT !.n = v.n + 1, !.res = "OK", !.disk = d, !.media = v.media \union {d}]
      BY <2>2, Zenon DEF DiskWrite
    <3> HIDE DEF d
    <3>2. g = [v EXCEPT !.n = v.n + 1, !.res = "OK", !.disk = d, !.media = v.media \union {d}]
      BY DEF CallSet
    <3> QED
      BY <2>2, <3>1, <3>2
  <2> QED
    BY <2>1, <2>2
<1> HIDE DEF u, d
<1>3. f.res = "DISK_ERR" /\ SameStore(u, f)
  BY <1>1, FieldsStore DEF CallSet
<1>4. g.res = "OK" /\ g.disk = d /\ g.media = u.media \union {d}
  BY <1>1 DEF CallSet
<1> HIDE DEF f, g
<1> QED
  BY <1>1, <1>2, <1>3, <1>4, StoreOn

-----------------------------------------------------------------------------
(* The window.                                                             *)

(* Sync_window writes what is seen, and what it had written if it fails.   *)
LEMMA SyncWindowLooks ==
  ASSUME NEW v \in Live
  PROVE  LET w == sync_window(v)
         IN  /\ Looks(v, w) /\ w \in Live
             /\ w.res = "OK" => /\ ~w.fs.wflag /\ w.fs.win = v.fs.win /\ w.fs.winsect = v.fs.winsect
                                /\ SameHere(Sees(v), w.disk)
<1> DEFINE w == sync_window(v)
           x == v.fs.winsect
           f == [v.fs EXCEPT !.wflag = FALSE]
<1>0. /\ v \in CallSet /\ v.fs \in Volumes /\ v.disk \in Cards /\ v.fs.wflag \in BOOLEAN
      /\ v \in Steady(FALSE)
  BY LiveIs
<1>1. w \in Live /\ (w.res = "OK" => w.fs = f)
  BY <1>0, SyncWindowKeeps, GoodLives
<1>2. ~f.wflag /\ f.win = v.fs.win /\ f.winsect = x /\ f \in Volumes
  BY <1>0, WflagCleared
<1>3. CASE ~v.fs.wflag
  <2>1. w = OK(v)
    BY <1>3, Zenon DEF sync_window
  <2>2. SameStore(v, w)
    BY <1>0, <2>1, ResStore
  <2>3. Looks(v, w)
    BY <2>2, StoreLooks
  <2>4. SameHere(Sees(v), w.disk)
    BY <1>0, <1>3, <2>2, SeesIs DEF SameStore, SameHere
  <2> QED
    BY <1>1, <1>2, <2>3, <2>4
<1>4. CASE v.fs.wflag
  <2> DEFINE u == DiskWrite(v, x, v.fs.win)
             c == [u EXCEPT !.fs.wflag = FALSE]
  <2>1. x \in WinSects /\ x \in Sectors /\ v.fs.win \in Holds(x)
    BY <1>0, <1>4, AreasApart DEF Volumes, WindowHolds
  <2>2. /\ u \in CallSet /\ u.fs = v.fs /\ u.to = v.to /\ u.from = v.from /\ u.res \in {"OK", "DISK_ERR"}
        /\ u.res = "OK" => u.disk = [v.disk EXCEPT ![x] = v.fs.win]
    BY <1>0, <2>1, DiskWriteKeeps
  <2>3. /\ u.res # "OK" => SameStore(v, u)
        /\ u.res = "OK" => u.media = v.media \union {u.disk}
    BY <1>0, <2>1, DiskWriteMedia
  <2>4. CASE u.res # "OK"
    <3>1. w = u
      BY <1>4, <2>4, Zenon DEF sync_window, Then
    <3> QED
      BY <1>1, <2>3, <2>4, <3>1, StoreLooks
  <2>5. CASE u.res = "OK"
    <3>1. \A s \in Sectors : u.disk[s] = Sees(v)[s]
      BY <1>0, <1>4, <2>2, <2>5, SeesIs DEF Cards
    <3>2. SameHere(Sees(v), u.disk)
      BY <3>1, AreasApart DEF SameHere
    <3>3. c = [u EXCEPT !.fs = f]
      BY <2>2, Zenon
    <3> HIDE DEF u, f
    <3>4. c \in CallSet /\ c.fs = f /\ c.disk = u.disk /\ c.to = u.to /\ c.media = u.media
      BY <2>2, <3>3, <1>2 DEF CallSet
    <3> HIDE DEF c
    <3>5. /\ SameHere(Sees(v), w.disk) /\ w.to = v.to /\ w.fs = f
          /\ \A d \in w.media : d \in v.media \/ SameHere(Sees(v), d)
      <4>1. CASE ~(InFat1(x) /\ FatCopies = 2)
        <5>1. w = c
          BY <1>4, <2>5, <3>4, <1>2, <4>1, Zenon DEF sync_window, Then, u, c, f
        <5> QED
          BY <5>1, <3>2, <3>4, <2>2, <2>3, <2>5
      <4>2. CASE InFat1(x) /\ FatCopies = 2
        <5> DEFINE k == DiskWrite(c, x + FatSize, c.fs.win)
        <5>1. w = OK(k)
          BY <1>4, <2>5, <3>4, <1>2, <4>2, Zenon DEF sync_window, Then, u, c, f
        <5>2. x \in FatSects /\ x \in Nat
          <6>1. x \in Nat
            BY <2>1, AreasApart
          <6> HIDE DEF x
          <6> QED
            BY <6>1, <4>2, LayoutIs DEF InFat1, FatSects
        <5>3. x + FatSize \in Sectors \ WinSects
          BY <4>2, <5>2, AreasApart
        <5>4. c.fs.win \in Holds(x + FatSize)
          <6>1. Holds(x) = FatSet /\ Holds(x + FatSize) = FatSet
            <7>1. x + FatSize < RootSect /\ x >= FatBase /\ x < RootSect
              BY <4>2, <5>2, LayoutIs DEF FatSects
            <7> QED
              BY <7>1, <5>2, LayoutIs DEF Holds
          <6> QED
            BY <6>1, <2>1, <3>4, <1>2
        <5>5. /\ k \in CallSet /\ k.fs = c.fs /\ k.to = c.to /\ k.from = c.from /\ k.res \in {"OK", "DISK_ERR"}
              /\ k.res # "OK" => Fails(c) /\ k.disk = c.disk
              /\ k.res = "OK" => k.disk = [c.disk EXCEPT ![x + FatSize] = c.fs.win]
          BY <3>4, <5>3, <5>4, DiskWriteKeeps
        <5>6. /\ k.res # "OK" => SameStore(c, k)
              /\ k.res = "OK" => k.media = c.media \union {k.disk}
          BY <3>4, <5>3, <5>4, DiskWriteMedia
        <5> HIDE DEF k
        <5>7. SameHere(Sees(v), k.disk)
          <6>1. x + FatSize \notin FatSects \union TableArea
            BY <5>3, AreasApart
          <6>2. \A s \in FatSects \union TableArea : k.disk[s] = c.disk[s]
            <7>1. CASE k.res = "OK"
              <8>1. c.disk \in [Sectors -> SectorSet]
                BY <3>4 DEF CallSet, Cards
              <8> DEFINE e == [c.disk EXCEPT ![x + FatSize] = c.fs.win]
              <8>2. \A s \in Sectors : s # x + FatSize => e[s] = c.disk[s]
                BY <8>1
              <8>3. k.disk = e
                BY <7>1, <5>5
              <8>4. \A s \in FatSects \union TableArea : s \in Sectors /\ s # x + FatSize
                BY <6>1, AreasApart
              <8> HIDE DEF e
              <8> QED
                BY <8>2, <8>3, <8>4
            <7>2. CASE k.res # "OK"
              BY <7>2, <5>5
            <7> QED
              BY <7>1, <7>2
          <6> QED
            BY <3>2, <3>4, <6>2 DEF SameHere
        <5>8. SameStore(k, w)
          BY <5>1, <5>5, ResStore
        <5>9. \A d \in k.media : d \in v.media \/ SameHere(Sees(v), d)
          <6>1. CASE k.res = "OK"
            BY <6>1, <5>6, <5>7, <3>4, <2>3, <2>5, <3>2
          <6>2. CASE k.res # "OK"
            BY <6>2, <5>6, <3>4, <2>3, <2>5, <3>2 DEF SameStore
          <6> QED
            BY <6>1, <6>2
        <5> QED
          BY <5>5, <5>7, <5>8, <5>9, <3>4, <2>2 DEF SameStore
      <4> QED
        BY <4>1, <4>2
    <3>6. Sees(w) = w.disk /\ w \in CallSet
      BY <1>1, <1>2, <3>5, LiveIs, SeesIs
    <3>7. WinTrue(v) => WinTrue(w)
      <4>1. w.fs.winsect = x /\ w.fs.win = v.fs.win
        BY <3>5, <1>2
      <4>2. \A s \in FatSects \union TableArea : Sees(w)[s] = Sees(v)[s]
        BY <3>5, <3>6 DEF SameHere
      <4> QED
        BY <4>1, <4>2 DEF WinTrue, At
    <3>8. Looks(v, w)
      BY <3>5, <3>6, <3>7 DEF Looks
    <3> QED
      BY <1>1, <1>2, <3>5, <3>8
  <2> QED
    BY <2>2, <2>4, <2>5
<1> QED
  BY <1>3, <1>4

(* Move_window shows the sector that is asked for.                         *)
LEMMA MoveWindowLooks ==
  ASSUME NEW v \in Live, NEW s \in WinSects
  PROVE  LET w == move_window(v, s)
         IN  /\ Looks(v, w) /\ w \in Live
             /\ s = v.fs.winsect => SameStore(v, w)
             /\ w.res = "OK" /\ s # v.fs.winsect => w.fs.win = Sees(v)[s] \/ s \notin FatSects \union TableArea
<1> DEFINE w == sync_window(v)
           r == DiskRead(w, s)
<1>0. v \in CallSet /\ v \in Steady(FALSE)
  BY LiveIs
<1>1. move_window(v, s) \in Live
  BY <1>0, MoveWindowKeeps, GoodLives DEF Calm
<1>2. CASE s = v.fs.winsect
  <2>1. move_window(v, s) = OK(v)
    BY <1>2, Zenon DEF move_window
  <2> QED
    BY <1>0, <1>1, <1>2, <2>1, ResStore, StoreLooks
<1>3. CASE s # v.fs.winsect
  <2>1. /\ Looks(v, w) /\ w \in Live
        /\ w.res = "OK" => ~w.fs.wflag /\ SameHere(Sees(v), w.disk)
    BY SyncWindowLooks
  <2> HIDE DEF w
  <2>2. CASE w.res # "OK"
    <3>1. move_window(v, s) = w
      BY <1>3, <2>2, Zenon DEF move_window, Then, w
    <3> QED
      BY <1>3, <2>1, <2>2, <3>1
  <2>3. CASE w.res = "OK"
    <3>1. w \in CallSet /\ w.fs \in Volumes /\ w.disk \in Cards
      BY <2>1, LiveIs
    <3>2. r \in CallSet /\ r.res \in {"OK", "DISK_ERR"} /\ SameStore(w, r)
      BY <3>1, DiskReadKeeps, DiskReadStore
    <3> DEFINE x == r.fs
               u == IF r.res = "OK" THEN [[x EXCEPT !.win = r.disk[s]] EXCEPT !.winsect = s]
                    ELSE [x EXCEPT !.winsect = NOSECT]
               z == [r EXCEPT !.fs = u]
    <3>3. move_window(v, s) = z
      <4>1. move_window(v, s) = IF r.res = "OK"
                THEN [r EXCEPT !.fs.win = r.disk[s], !.fs.winsect = s]
                ELSE [r EXCEPT !.fs.winsect = NOSECT]
        BY <1>3, <2>3, Zenon DEF move_window, Then, With, w
      <4>2. [r EXCEPT !.fs.win = r.disk[s], !.fs.winsect = s]
               = [r EXCEPT !.fs = [[x EXCEPT !.win = r.disk[s]] EXCEPT !.winsect = s]]
        BY <3>2 DEF CallSet
      <4>3. [r EXCEPT !.fs.winsect = NOSECT] = [r EXCEPT !.fs = [x EXCEPT !.winsect = NOSECT]]
        BY Zenon
      <4> QED
        BY <4>1, <4>2, <4>3
    <3>4. x = w.fs /\ r.disk = w.disk /\ r.media = w.media /\ r.to = w.to
      BY <3>2 DEF SameStore
    <3>5. /\ u.wflag = w.fs.wflag
          /\ r.res = "OK" => u.win = w.disk[s] /\ u.winsect = s
          /\ r.res # "OK" => u.winsect = NOSECT
      <4>1. x \in FsSet
        BY <3>1, <3>4 DEF Volumes
      <4>2. u.wflag = x.wflag
        BY <4>1 DEF FsSet
      <4>3. r.res = "OK" => u.win = r.disk[s] /\ u.winsect = s
        BY <4>1 DEF FsSet
      <4>4. r.res # "OK" => u.winsect = NOSECT
        BY <4>1 DEF FsSet
      <4> QED
        BY <3>4, <4>2, <4>3, <4>4
    <3> HIDE DEF r, u
    <3>6. z.fs = u /\ z.disk = w.disk /\ z.media = w.media /\ z.to = w.to /\ z.res = r.res
      BY <3>2, <3>4 DEF CallSet
    <3> HIDE DEF z
    <3>7. Sees(z) = w.disk
      <4>1. ~z.fs.wflag
        BY <2>1, <2>3, <3>5, <3>6
      <4>2. z \in CallSet
        BY <1>1, <3>3, LiveIs
      <4> QED
        BY <3>6, <4>1, <4>2, SeesIs
    <3>8. Sees(w) = w.disk
      BY <2>1, <2>3, <3>1, SeesIs
    <3>9. WinTrue(z)
      <4>1. CASE r.res = "OK"
        BY <4>1, <3>5, <3>6, <3>7 DEF WinTrue, At
      <4>2. CASE r.res # "OK"
        <5>1. NOSECT \notin FatSects /\ NOSECT \notin TableArea
          BY AreasApart, LayoutIs DEF NOSECT, FatSects, TableArea
        <5> QED
          BY <4>2, <5>1, <3>5, <3>6, Zenon DEF WinTrue
      <4> QED
        BY <4>1, <4>2
    <3>10. Looks(w, z)
      BY <3>6, <3>7, <3>8, <3>9 DEF Looks, SameHere
    <3>11. Looks(v, z)
      BY <2>1, <3>10, LooksOn
    <3>12. z.res = "OK" => z.fs.win = Sees(v)[s] \/ s \notin FatSects \union TableArea
      BY <2>1, <2>3, <3>5, <3>6 DEF SameHere
    <3> QED
      BY <1>1, <1>3, <3>3, <3>11, <3>12
  <2> QED
    BY <2>2, <2>3
<1> QED
  BY <1>2, <1>3

(* A new content of the window is what is seen of its sector.              *)
LEMMA SetWinSees ==
  ASSUME NEW v \in Live, v.fs.winsect \in WinSects, NEW c \in Holds(v.fs.winsect)
  PROVE  LET w == SetWin(v, c)
         IN  /\ w \in CallSet /\ w \in Live /\ w.disk = v.disk /\ w.media = v.media /\ w.to = v.to
             /\ w.fs.win = c /\ w.fs.winsect = v.fs.winsect /\ w.fs.wflag /\ w.res = v.res
             /\ Sees(w)[v.fs.winsect] = c
             /\ \A s \in Sectors : s # v.fs.winsect => Sees(w)[s] = Sees(v)[s]
             /\ WinTrue(w)
<1> DEFINE w == SetWin(v, c)
           s0 == v.fs.winsect
<1>1. v \in CallSet /\ v.fs.type # 0 /\ v.fs \in Volumes /\ v.fs.reg
  BY LiveIs
<1>2. /\ w \in CallSet /\ w.disk = v.disk /\ w.res = v.res /\ w.to = v.to /\ w.from = v.from
      /\ SameFs(v.fs, w.fs) /\ w.fs.win = c /\ w.fs.winsect = s0 /\ w.fs.wflag
  BY <1>1, SetWinIs
<1>3. w.media = v.media
  <2>1. w = [v EXCEPT !.fs = [[v.fs EXCEPT !.win = c] EXCEPT !.wflag = TRUE]]
    <3>1. w = [v EXCEPT !.fs.win = c, !.fs.wflag = TRUE]
      BY Zenon DEF SetWin
    <3>2. [v EXCEPT !.fs.win = c, !.fs.wflag = TRUE]
            = [v EXCEPT !.fs = [[v.fs EXCEPT !.win = c] EXCEPT !.wflag = TRUE]]
      BY <1>1 DEF CallSet
    <3> QED
      BY <3>1, <3>2
  <2> DEFINE g == [[v.fs EXCEPT !.win = c] EXCEPT !.wflag = TRUE]
  <2> HIDE DEF g
  <2>2. w = [v EXCEPT !.fs = g]
    BY <2>1 DEF g
  <2> QED
    BY <1>1, <2>2 DEF CallSet
<1> HIDE DEF w
<1>4. w \in Live
  <2>1. w \in Steady(FALSE)
    BY <1>1, <1>2, Zenon DEF Steady, SameFs
  <2> QED
    BY <2>1, GoodLives
<1>5. s0 \in Sectors
  BY AreasApart
<1>6. \A s \in Sectors : Sees(w)[s] = IF s = s0 THEN c ELSE v.disk[s]
  BY <1>2, SeesIs
<1>7. \A s \in Sectors : s # s0 => Sees(v)[s] = v.disk[s]
  BY <1>1, SeesIs
<1>8. Sees(w)[s0] = c
  BY <1>5, <1>6
<1>9. WinTrue(w)
  BY <1>2, <1>8 DEF WinTrue, At
<1>10. \A s \in Sectors : s # s0 => Sees(w)[s] = Sees(v)[s]
  <2> HIDE DEF s0
  <2> QED
    BY <1>6, <1>7
<1> HIDE DEF s0
<1>11. /\ w \in CallSet /\ w \in Live /\ w.disk = v.disk /\ w.media = v.media /\ w.to = v.to
       /\ w.fs.win = c /\ w.fs.winsect = s0 /\ w.fs.wflag /\ w.res = v.res
       /\ Sees(w)[s0] = c /\ WinTrue(w)
  BY <1>2, <1>3, <1>4, <1>8, <1>9
<1> QED
  BY <1>10, <1>11 DEF w, s0

(* A table's sector in the window that gets other entries.                 *)
LEMMA TableSet1 ==
  ASSUME NEW f \in [SlotNos -> EntrySet]
  PROVE  DirSector(f) \in TableSet /\ EntriesOf(DirSector(f)) = f
BY DEF DirSector, TableSet, EntriesOf, SlotNos

(* A sector of entries is put into the window. *)
LEMMA SetTable ==
  ASSUME NEW v \in Live, v.fs.winsect \in TableArea, NEW f \in [SlotNos -> EntrySet]
  PROVE  LET w == SetWin(v, DirSector(f))
         IN  /\ w \in Live /\ w.disk = v.disk /\ w.media = v.media /\ w.to = v.to /\ w.res = v.res
             /\ w.fs.winsect = v.fs.winsect /\ EntriesOf(w.fs.win) = f
             /\ SameFatIn(Sees(v), Sees(w))
             /\ \A i \in SlotNos : At(Sees(w), <<v.fs.winsect, i>>) = f[i]
             /\ \A b \in Places : b[1] # v.fs.winsect => At(Sees(w), b) = At(Sees(v), b)
             /\ WinTrue(w)
<1> DEFINE c == DirSector(f)
           w == SetWin(v, c)
           s0 == v.fs.winsect
<1>1. s0 \in WinSects /\ s0 \notin FatSects /\ s0 >= RootSect /\ s0 \in Sectors /\ s0 \in Nat
  BY AreasApart
<1>2. c \in TableSet /\ EntriesOf(c) = f
  BY TableSet1
<1>3. c \in Holds(s0)
  <2>1. ~(s0 = 0) /\ ~(s0 < FatBase) /\ ~(s0 < RootSect)
    BY <1>1, LayoutIs
  <2> QED
    BY <1>2, <2>1 DEF Holds
<1> HIDE DEF c
<1>4. /\ w \in CallSet /\ w \in Live /\ w.disk = v.disk /\ w.media = v.media /\ w.to = v.to
      /\ w.fs.win = c /\ w.fs.winsect = s0 /\ w.fs.wflag /\ w.res = v.res
      /\ Sees(w)[s0] = c
      /\ \A s \in Sectors : s # s0 => Sees(w)[s] = Sees(v)[s]
      /\ WinTrue(w)
  BY <1>1, <1>3, SetWinSees
<1> HIDE DEF w
<1>5. SameFatIn(Sees(v), Sees(w))
  <2>1. ASSUME NEW d \in RealClusters PROVE FatEntry(Sees(w), d) = FatEntry(Sees(v), d)
    <3> DEFINE t == FatBase + d \div FatEntriesPerSector
    <3>1. t \in FatSects
      BY NumbersApart, FatHasRoom
    <3>2. t \in Sectors /\ t # s0
      BY <3>1, <1>1, AreasApart
    <3>3. Sees(w)[t] = Sees(v)[t]
      BY <3>2, <1>4
    <3> QED
      BY <3>3 DEF FatEntry
  <2> QED
    BY <2>1 DEF SameFatIn
<1>6. \A i \in SlotNos : At(Sees(w), <<s0, i>>) = f[i]
  BY <1>2, <1>4 DEF At
<1>7. \A b \in Places : b[1] # s0 => At(Sees(w), b) = At(Sees(v), b)
  BY <1>4, AreasApart DEF At, Places
<1> QED
  BY <1>2, <1>4, <1>5, <1>6, <1>7 DEF w, c

(* The entry of the FAT that get_fat returns is the one that is seen.      *)
LEMMA GetFatLooks ==
  ASSUME NEW v \in Live, NEW c \in Int
  PROVE  LET w == get_fat(v, c)
         IN  /\ Looks(v, w) /\ w \in Live /\ w.res = "OK"
             /\ w.ret \in FatValues \union {1, DISKERR}
             /\ c \notin RealClusters => w.ret = 1 /\ SameStore(v, w)
             /\ c \in RealClusters => w.ret # 1
             /\ c \in RealClusters /\ w.ret # DISKERR =>
                   /\ WinTrue(v) => w.ret = FatEntry(Sees(v), c)
                   /\ w.fs.winsect \in FatSects
<1> DEFINE w == get_fat(v, c)
           s == FatBase + c \div FatEntriesPerSector
           m == move_window(v, s)
           x == IF m.res = "OK" THEN m.fs.win.e[c % FatEntriesPerSector] ELSE DISKERR
<1>0. v \in Steady(FALSE) /\ v \in CallSet /\ FALSE \in BOOLEAN
  BY LiveIs
<1>1. /\ Calm(FALSE, v, w) /\ w.res = "OK"
      /\ w.ret \in FatValues \union {1, DISKERR}
      /\ c \notin RealClusters => w.ret = 1
      /\ c \in RealClusters => w.ret # 1
  BY <1>0, GetFatKeeps
<1>2. w \in Live
  BY <1>1, GoodLives, Zenon DEF Calm
<1>3. CASE c \notin RealClusters
  <2>1. w = Ret(v, 1)
    BY <1>3, LayoutIs DEF get_fat, RealClusters
  <2>2. SameStore(v, w)
    BY <1>0, <2>1, RetStore
  <2> QED
    BY <1>1, <1>2, <1>3, <2>2, StoreLooks
<1>4. CASE c \in RealClusters
  <2>1. c \in ClusterNos /\ ~(c < 2 \/ c >= NFatEnt)
    BY <1>4, LayoutIs DEF RealClusters, ClusterNos
  <2>2. s \in FatSects /\ s \in WinSects
    BY <2>1, FatHasRoom, AreasApart
  <2>3. w = Ret(m, x)
    BY <2>1, Zenon DEF get_fat, With
  <2>4. /\ Looks(v, m) /\ m \in Live
        /\ s = v.fs.winsect => SameStore(v, m)
        /\ m.res = "OK" /\ s # v.fs.winsect => m.fs.win = Sees(v)[s]
    BY <2>2, MoveWindowLooks
  <2>5. m.res = "OK" => m.fs.winsect = s
    BY <1>0, <2>2, MoveWindowKeeps
  <2>6. m \in CallSet /\ m.fs \in Volumes
    BY <2>4, LiveIs
  <2>7. x \in Nat
    <3>1. CASE m.res = "OK"
      <4>1. m.fs.win \in FatSet
        <5>1. m.fs.type # 0
          BY <2>4, LiveIs
        <5>2. s \in WinSects \ TableArea /\ Holds(s) = FatSet
          <6>1. s \notin TableArea /\ s \in Nat
            BY <2>2, AreasApart
          <6>2. s >= FatBase /\ s < RootSect
            BY <2>2, LayoutIs DEF FatSects
          <6> HIDE DEF s
          <6>3. Holds(s) = FatSet
            BY <6>1, <6>2, LayoutIs DEF Holds
          <6> QED
            BY <2>2, <6>1, <6>3
        <5> QED
          BY <3>1, <2>5, <2>6, <5>1, <5>2 DEF Volumes, WindowHolds
      <4>2. c % FatEntriesPerSector \in 0 .. FatEntriesPerSector - 1
        BY <2>1, FatHasRoom
      <4> HIDE DEF m
      <4>3. m.fs.win.e[c % FatEntriesPerSector] \in FatValues
        BY <4>1, <4>2 DEF FatSet
      <4> QED
        BY <3>1, <4>3, NumbersApart
    <3>2. CASE m.res # "OK"
      BY <3>2, NumbersApart
    <3> QED
      BY <3>1, <3>2
  <2> HIDE DEF x
  <2>8. SameStore(m, w) /\ w.ret = x
    BY <2>3, <2>6, <2>7, RetStore, RetKeeps
  <2>9. Looks(v, w)
    BY <2>4, <2>8, StoreLooks, LooksOn
  <2>10. ASSUME w.ret # DISKERR
         PROVE  (WinTrue(v) => w.ret = FatEntry(Sees(v), c)) /\ w.fs.winsect \in FatSects
    <3>1. m.res = "OK"
      BY <2>8, <2>10 DEF x
    <3>2. w.fs.winsect = s
      BY <2>5, <2>8, <3>1 DEF SameStore
    <3>3. WinTrue(v) => m.fs.win = Sees(v)[s]
      BY <2>2, <2>4, <3>1 DEF SameStore, WinTrue
    <3>4. w.ret = m.fs.win.e[c % FatEntriesPerSector]
      BY <2>8, <3>1 DEF x
    <3> QED
      BY <2>2, <3>2, <3>3, <3>4 DEF FatEntry
  <2> QED
    BY <1>1, <1>2, <1>4, <2>9, <2>10
<1> QED
  BY <1>3, <1>4

-----------------------------------------------------------------------------
(* The FAT.                                                                *)

(* A step that writes the card only with what was seen, and changes the    *)
(* window with care.                                                       *)
Writes(v, w) == /\ w.to = v.to
                /\ w.disk = v.disk \/ SameHere(Sees(v), w.disk)
                /\ \A d \in w.media : d \in v.media \/ SameHere(Sees(v), d)
                /\ WinTrue(w)

(* After it the volume is sound if what is seen of it is.                  *)
LEMMA WritesSane ==
  ASSUME NEW v, NEW w, Writes(v, w), NEW P, NEW X, Sane(v, P, X), NEW Q, Kept(Sees(w), Q, X)
  PROVE  Sane(w, Q, X)
<1>1. Kept(Sees(v), P, X) /\ Kept(v.disk, {}, X) /\ \A d \in v.media : Kept(d, {}, X)
  BY DEF Sane
<1>2. \A d : SameHere(Sees(v), d) => Kept(d, {}, X)
  BY <1>1, HereSame
<1>3. Kept(w.disk, {}, X) /\ \A d \in w.media : Kept(d, {}, X)
  BY <1>1, <1>2 DEF Writes
<1> QED
  BY <1>3 DEF Sane, Writes

(* Each of the three kinds of step keeps the volume sound. *)
LEMMA WorksSane ==
  ASSUME NEW v, NEW w, Looks(v, w) \/ Works(v, w) \/ SameStore(v, w),
         NEW P, P \subseteq RealClusters, NEW X, X \subseteq Places, Sane(v, P, X)
  PROVE  Sane(w, P, X)
<1>1. Works(v, w)
  BY LooksWorks, StoreLooks
<1> QED
  BY <1>1 DEF Works

(* Chains that no entry names may be forgotten: their clusters are lost. *)
LEMMA SaneFewer ==
  ASSUME NEW v, NEW P, NEW Q, Q \subseteq P, NEW X, Sane(v, P, X)
  PROVE  Sane(v, Q, X)
<1>1. Kept(Sees(v), Q, X)
  <2>1. SameHere(Sees(v), Sees(v)) /\ Kept(Sees(v), P, X)
    BY DEF SameHere, Sane
  <2> QED
    BY <2>1, HereSame
<1> QED
  BY <1>1 DEF Sane

(* An unnamed chain begins in the volume.                                  *)
LEMMA SanePending ==
  ASSUME NEW v, NEW P, NEW X, Sane(v, P, X)
  PROVE  P \subseteq RealClusters /\ WinTrue(v)
         /\ \A c \in P : First(Sees(v), c)
BY DEF Sane, Kept, Owned, First

(* A window with other numbers in the FATFS object is the same.            *)
LEMMA NumbersLook ==
  ASSUME NEW v \in CallSet, NEW g \in Volumes, g.type = v.fs.type, g.win = v.fs.win,
         g.winsect = v.fs.winsect, g.wflag = v.fs.wflag
  PROVE  LET w == [v EXCEPT !.fs = g]
         IN  Looks(v, w) /\ Sees(w) = Sees(v) /\ w.fs = g /\ w.disk = v.disk
<1> DEFINE w == [v EXCEPT !.fs = g]
<1>1. w.fs = g /\ w.disk = v.disk /\ w.media = v.media /\ w.to = v.to
  BY DEF CallSet
<1> HIDE DEF w
<1>2. Sees(w) = Sees(v)
  BY <1>1 DEF Sees, Seen
<1>3. WinTrue(v) => WinTrue(w)
  BY <1>1, <1>2, Zenon DEF WinTrue
<1>4. Looks(v, w)
  BY <1>1, <1>2, <1>3 DEF Looks, SameHere
<1> QED
  BY <1>1, <1>2, <1>4 DEF w

(* The count of free clusters is not part of what is sound. *)
LEMMA CountLooks ==
  ASSUME NEW v \in CallSet, NEW x \in Int, NEW y \in Nat, NEW z \in Nat
  PROVE  LET w == [v EXCEPT !.fs = [[[v.fs EXCEPT !.last = y] EXCEPT !.fsi = z] EXCEPT !.free = x]]
         IN  Looks(v, w) /\ Sees(w) = Sees(v) /\ w.fs.winsect = v.fs.winsect
<1> DEFINE a == [v.fs EXCEPT !.last = y]
           b == [a EXCEPT !.fsi = z]
           c == [b EXCEPT !.free = x]
           w == [v EXCEPT !.fs = c]
<1>0. v.fs \in Volumes
  BY DEF CallSet
<1>1. /\ a \in Volumes /\ a.type = v.fs.type /\ a.win = v.fs.win
      /\ a.winsect = v.fs.winsect /\ a.wflag = v.fs.wflag
  BY <1>0, SetNumber
<1> HIDE DEF a
<1>2. /\ b \in Volumes /\ b.type = v.fs.type /\ b.win = v.fs.win
      /\ b.winsect = v.fs.winsect /\ b.wflag = v.fs.wflag
  BY <1>1, SetNumber
<1> HIDE DEF b
<1>3. /\ c \in Volumes /\ c.type = v.fs.type /\ c.win = v.fs.win
      /\ c.winsect = v.fs.winsect /\ c.wflag = v.fs.wflag
  BY <1>2, SetNumber
<1> HIDE DEF c
<1>4. Looks(v, w) /\ Sees(w) = Sees(v) /\ w.fs = c
  BY <1>3, NumbersLook
<1> QED
  BY <1>3, <1>4 DEF w, c, b, a

(* Nor is it when a cluster is freed. *)
LEMMA CountFreedLooks ==
  ASSUME NEW v \in Live
  PROVE  LET w == CountFreed(v)
         IN  Looks(v, w) /\ Sees(w) = Sees(v) /\ w \in Live /\ w.res = v.res /\ w.ret = v.ret
<1>0. /\ v \in CallSet /\ v.fs \in Volumes /\ v.fs.free \in Int /\ v.fs.fsi \in Nat /\ v.fs.last \in Nat
      /\ v \in Steady(FALSE)
  <2>1. v.fs \in FsSet
    BY LiveIs DEF Volumes
  <2> QED
    BY <2>1, LiveIs DEF FsSet
<1>1. CountFreed(v) \in Live /\ CountFreed(v).res = v.res /\ CountFreed(v).ret = v.ret
  BY <1>0, CountFreedKeeps, GoodLives
<1>2. CASE v.fs.free < NFatEnt - 2
  <2> DEFINE f == v.fs
             x == v.fs.free + 1
             z == SetDirty(v.fs.fsi)
             y == v.fs.last
             h == [f EXCEPT !.last = y]
             w == [v EXCEPT !.fs = [[h EXCEPT !.fsi = z] EXCEPT !.free = x]]
  <2>1. x \in Int /\ z \in Nat
    BY <1>0, DirtyIs
  <2>2. CountFreed(v) = w
    <3>1. CountFreed(v) = [v EXCEPT !.fs.free = x, !.fs.fsi = z]
      BY <1>2, Zenon DEF CountFreed
    <3>2. h = f
      BY <1>0 DEF Volumes, FsSet
    <3>3. [v EXCEPT !.fs.free = x, !.fs.fsi = z]
            = [v EXCEPT !.fs = [[f EXCEPT !.fsi = z] EXCEPT !.free = x]]
      <4> HIDE DEF x, z
      <4> QED
        BY <1>0, <2>1 DEF CallSet, Volumes, FsSet
    <3> HIDE DEF h
    <3> QED
      BY <3>1, <3>2, <3>3, Zenon
  <2>4. y \in Nat
    BY <1>0
  <2> HIDE DEF x, y, z
  <2>3. Looks(v, w) /\ Sees(w) = Sees(v)
    <3>1. \A a \in Int : \A b \in Nat : \A c \in Nat :
            LET u == [v EXCEPT !.fs = [[[v.fs EXCEPT !.last = b] EXCEPT !.fsi = c] EXCEPT !.free = a]]
            IN  Looks(v, u) /\ Sees(u) = Sees(v)
      BY <1>0, CountLooks, Zenon
    <3> QED
      BY <2>1, <2>4, <3>1, Zenon
  <2> HIDE DEF w
  <2> QED
    BY <1>1, <2>2, <2>3
<1>3. CASE ~(v.fs.free < NFatEnt - 2)
  <2>1. CountFreed(v) = v
    BY <1>3, Zenon DEF CountFreed
  <2>2. SameStore(v, v)
    BY DEF SameStore
  <2> QED
    BY <1>1, <2>1, <2>2, StoreLooks
<1> QED
  BY <1>2, <1>3

(* Put_fat changes the one entry of what is seen of the FAT.               *)
PutAt(v, w, c, x) ==
  /\ Writes(v, w) /\ SameSlots(Sees(v), Sees(w)) /\ FatEntry(Sees(w), c) = x
  /\ \A d \in RealClusters \ {c} : FatEntry(Sees(w), d) = FatEntry(Sees(v), d)
  /\ w.fs.winsect \in FatSects

(* Put_fat changes the entry of one cluster, or fails and changes none. *)
LEMMA PutFatSees ==
  ASSUME NEW v \in Live, WinTrue(v), NEW c \in Int, NEW x \in FatValues
  PROVE  LET w == put_fat(v, c, x)
         IN  /\ w \in Live /\ w.ret = v.ret
             /\ w.res \in {"OK", "DISK_ERR", "INT_ERR"}
             /\ w.res # "OK" => Looks(v, w)
             /\ w.res = "OK" => c \in RealClusters /\ PutAt(v, w, c, x)
<1>0. v \in CallSet /\ v \in Steady(FALSE) /\ FALSE \in BOOLEAN
  BY LiveIs
<1>1. /\ Entered(FALSE, v, put_fat(v, c, x)) /\ put_fat(v, c, x).ret = v.ret
      /\ put_fat(v, c, x).res \in {"OK", "DISK_ERR", "INT_ERR"}
  BY <1>0, PutFatKeeps DEF SameRest
<1>2. put_fat(v, c, x) \in Live
  BY <1>1, GoodLives, Zenon DEF Entered
<1>3. CASE c \notin RealClusters
  <2> DEFINE w == Res(v, "INT_ERR")
  <2>1. put_fat(v, c, x) = w
    BY <1>3, LayoutIs DEF put_fat, RealClusters
  <2>2. w.res = "INT_ERR" /\ SameStore(v, w)
    BY <1>0, ResKeeps, ResultsAre, ResStore
  <2> HIDE DEF w
  <2> QED
    BY <1>1, <1>2, <2>1, <2>2, StoreLooks
<1>4. CASE c \in RealClusters
  <2> DEFINE s == FatBase + c \div FatEntriesPerSector
             i == c % FatEntriesPerSector
             m == move_window(v, s)
             y == [m.fs.win EXCEPT !.e[i] = x]
             w == SetWin(m, y)
  <2>0. c \in ClusterNos
    BY <1>4, LayoutIs DEF RealClusters, ClusterNos
  <2>1. s \in FatSects /\ s \in WinSects /\ s \in Sectors /\ i \in 0 .. FatEntriesPerSector - 1
    BY <2>0, FatHasRoom, AreasApart
  <2>2. put_fat(v, c, x) = IF m.res = "OK" THEN w ELSE m
    <3>1. ~(c < 2 \/ c >= NFatEnt)
      BY <1>4, LayoutIs DEF RealClusters
    <3> QED
      BY <3>1, Zenon DEF put_fat, Then
  <2>3. m.res = "OK" => m.fs.winsect = s
    BY <1>0, <2>1, MoveWindowKeeps
  <2>4. /\ Looks(v, m) /\ m \in Live
        /\ s = v.fs.winsect => SameStore(v, m)
        /\ m.res = "OK" /\ s # v.fs.winsect => m.fs.win = Sees(v)[s]
    BY <2>1, MoveWindowLooks
  <2> HIDE DEF m
  <2>5. CASE m.res # "OK"
    BY <1>1, <1>2, <2>2, <2>4, <2>5
  <2>6. CASE m.res = "OK"
    <3>1. m.fs.win \in FatSet /\ m.fs.win = Sees(v)[s]
      <4>1. m.fs.win \in FatSet
        <5>1. m \in Steady(FALSE)
          BY <2>4, LiveIs
        <5> QED
          BY <1>0, <2>1, <2>3, <2>6, <5>1, SeenInWindow
      <4>2. m.fs.win = Sees(v)[s]
        <5>1. CASE s = v.fs.winsect
          BY <2>1, <2>4, <5>1 DEF SameStore, WinTrue
        <5>2. CASE s # v.fs.winsect
          BY <2>4, <2>6, <5>2
        <5> QED
          BY <5>1, <5>2
      <4> QED
        BY <4>1, <4>2
    <3>2. y \in FatSet /\ \A j \in 0 .. FatEntriesPerSector - 1 :
                             y.e[j] = IF j = i THEN x ELSE m.fs.win.e[j]
      <4> DEFINE b == m.fs.win
      <4>1. b \in FatSet
        BY <3>1
      <4> HIDE DEF b, i
      <4>2. [b EXCEPT !.e[i] = x] \in FatSet /\ \A j \in 0 .. FatEntriesPerSector - 1 :
                             [b EXCEPT !.e[i] = x].e[j] = IF j = i THEN x ELSE b.e[j]
        BY <2>1, <4>1 DEF FatSet
      <4> QED
        BY <4>2 DEF b
    <3>3. Holds(s) = FatSet
      <4> HIDE DEF s
      <4>1. s \in Nat /\ s # 0 /\ s >= FatBase /\ s < RootSect
        BY <2>1, LayoutIs DEF FatSects
      <4> QED
        BY <4>1, LayoutIs DEF Holds
    <3> HIDE DEF y
    <3>4. /\ w \in Live /\ w.disk = m.disk /\ w.media = m.media /\ w.to = m.to
          /\ w.fs.winsect = s /\ Sees(w)[s] = y
          /\ \A t \in Sectors : t # s => Sees(w)[t] = Sees(m)[t]
          /\ WinTrue(w) /\ w.res = m.res
      <4>1. m.fs.winsect \in WinSects /\ y \in Holds(m.fs.winsect) /\ m.fs.winsect = s
        BY <2>1, <2>3, <2>6, <3>2, <3>3
      <4> HIDE DEF s, w
      <4> QED
        BY <2>4, <4>1, SetWinSees DEF w
    <3> HIDE DEF w
    <3>5. Writes(v, w)
      BY <2>4, <3>4 DEF Writes, Looks
    <3>6. \A t \in FatSects \union TableArea : t # s => Sees(w)[t] = Sees(v)[t]
      <4>1. \A t \in FatSects \union TableArea : t \in Sectors /\ Sees(m)[t] = Sees(v)[t]
        BY <2>4, AreasApart DEF Looks, SameHere
      <4> HIDE DEF s
      <4> QED
        BY <3>4, <4>1
    <3>7. SameSlots(Sees(v), Sees(w))
      <4>1. \A t \in TableArea : t # s
        BY <2>1, AreasApart
      <4>2. \A a \in Places : a[1] \in TableArea
        BY DEF Places
      <4> HIDE DEF s
      <4> QED
        BY <3>6, <4>1, <4>2 DEF SameSlots, At
    <3>8. ASSUME NEW d \in RealClusters
          PROVE  FatEntry(Sees(w), d) = IF d = c THEN x ELSE FatEntry(Sees(v), d)
      <4> DEFINE t == FatBase + d \div FatEntriesPerSector
                 j == d % FatEntriesPerSector
      <4>0. d \in ClusterNos
        BY LayoutIs DEF RealClusters, ClusterNos
      <4>1. t \in FatSects /\ j \in 0 .. FatEntriesPerSector - 1
        BY <4>0, FatHasRoom
      <4>2. FatEntry(Sees(w), d) = Sees(w)[t].e[j] /\ FatEntry(Sees(v), d) = Sees(v)[t].e[j]
        BY DEF FatEntry
      <4>3. t = s /\ j = i => d = c
        <5>1. d \in Nat /\ c \in Nat /\ c \div FatEntriesPerSector \in Int /\ d \div FatEntriesPerSector \in Int
          BY <1>4, <4>0, LayoutIs, GeometryAssumption DEF RealClusters, ClusterNos
        <5>2. t = s => c \div FatEntriesPerSector = d \div FatEntriesPerSector
          BY <5>1, LayoutIs
        <5> QED
          BY <5>1, <5>2, EntryPlace
      <4>4. d = c => t = s /\ j = i
        OBVIOUS
      <4> HIDE DEF t, j, s, i
      <4>5. CASE t # s
        BY <3>6, <4>1, <4>2, <4>4, <4>5
      <4>6. CASE t = s
        BY <3>1, <3>2, <3>4, <4>1, <4>2, <4>3, <4>4, <4>6
      <4> QED
        BY <4>5, <4>6
    <3>9. PutAt(v, w, c, x)
      BY <1>4, <2>1, <3>4, <3>5, <3>7, <3>8 DEF PutAt
    <3> QED
      BY <1>1, <1>2, <1>4, <2>2, <2>6, <3>4, <3>9
  <2> QED
    BY <2>5, <2>6
<1> QED
  BY <1>3, <1>4

(* A result on a live call.                                                *)
LEMMA ResLive ==
  ASSUME NEW v \in Live, NEW r \in Results
  PROVE  /\ Res(v, r) \in Live /\ Res(v, r).res = r /\ SameStore(v, Res(v, r))
         /\ Res(v, r).ret = v.ret /\ Res(v, r).dp = v.dp /\ Res(v, r).fp = v.fp
         /\ Res(v, r).cnt = v.cnt /\ Res(v, r).buf = v.buf /\ Res(v, r).n = v.n
<1>1. v \in CallSet /\ v \in Steady(FALSE) /\ FALSE \in BOOLEAN
  BY LiveIs
<1>2. Res(v, r) \in CallSet /\ SameCard(v, Res(v, r)) /\ SameRest(v, Res(v, r)) /\ Res(v, r).res = r
  BY <1>1, ResKeeps
<1>3. Res(v, r) \in Steady(FALSE)
  BY <1>1, <1>2, SameCardKeeps
<1>4. Res(v, r).n = v.n
  BY <1>1 DEF Res, CallSet
<1> QED
  BY <1>1, <1>2, <1>3, <1>4, GoodLives, ResStore DEF SameRest, SameWork

(* A result that is returned, *)
LEMMA RetLive ==
  ASSUME NEW v \in Live, NEW c \in Nat
  PROVE  /\ Ret(v, c) \in Live /\ Ret(v, c).res = "OK" /\ SameStore(v, Ret(v, c))
         /\ Ret(v, c).ret = c /\ Ret(v, c).dp = v.dp /\ Ret(v, c).fp = v.fp
         /\ Ret(v, c).cnt = v.cnt /\ Ret(v, c).buf = v.buf
<1>1. v \in CallSet /\ v \in Steady(FALSE) /\ FALSE \in BOOLEAN
  BY LiveIs
<1>2. /\ Ret(v, c) \in CallSet /\ SameCard(v, Ret(v, c)) /\ SameWork(v, Ret(v, c))
      /\ Ret(v, c).res = "OK" /\ Ret(v, c).ret = c
  BY <1>1, RetKeeps
<1>3. Ret(v, c) \in Steady(FALSE)
  BY <1>1, <1>2, SameCardKeeps
<1> QED
  BY <1>1, <1>2, <1>3, GoodLives, RetStore DEF SameWork

(* and a loop that goes on. *)
LEMMA AgainLive ==
  ASSUME NEW v \in Live
  PROVE  /\ Again(v) \in Live /\ Again(v).res = GO /\ SameStore(v, Again(v))
         /\ Again(v).ret = v.ret /\ Again(v).dp = v.dp /\ Again(v).fp = v.fp
         /\ Again(v).cnt = v.cnt /\ Again(v).buf = v.buf
BY ResLive, ResultsAre DEF Again

(* Steps that only look leave every slot as it is seen.                    *)
LEMMA LooksSlots ==
  ASSUME NEW v, NEW w, Looks(v, w) \/ SameStore(v, w)
  PROVE  SameSlots(Sees(v), Sees(w)) /\ SameFatIn(Sees(v), Sees(w))
<1>1. Looks(v, w)
  BY StoreLooks
<1> QED
  BY <1>1, HereSame DEF Looks

(* What two steps leave in the tables, both leave. *)
LEMMA SlotsOn ==
  ASSUME NEW m, NEW n, NEW o, SameSlots(m, n), SameSlots(n, o)
  PROVE  SameSlots(m, o)
BY DEF SameSlots

(* To free the first cluster of an unnamed chain leaves the rest of it.    *)
Rest(w) == IF w.res = GO THEN {w.ret} ELSE {}

(* One cluster of a chain is freed; the rest of it begins at the next one. *)
LEMMA FreeOneSane ==
  ASSUME NEW v \in Live, NEW X, X \subseteq Places, Sane(v, {v.ret}, X)
  PROVE  LET w == FreeOne(v)
         IN  w \in Live /\ Sane(w, Rest(w), X) /\ SameSlots(Sees(v), Sees(w))
<1> DEFINE c == v.ret
           g == get_fat(v, c)
           p == put_fat(g, c, 0)
           k == CountFreed(p)
<1>0. c \in RealClusters /\ c \in Int /\ WinTrue(v)
  <2>1. c \in RealClusters /\ WinTrue(v)
    BY SanePending
  <2> QED
    BY <2>1, LayoutIs DEF RealClusters
<1>1. /\ Looks(v, g) /\ g \in Live /\ g.res = "OK" /\ g.ret \in FatValues \union {1, DISKERR}
      /\ g.ret # 1
      /\ g.ret # DISKERR => g.ret = FatEntry(Sees(v), c)
  BY <1>0, GetFatLooks
<1>2. FreeOne(v) = IF g.ret = 0 THEN g
                   ELSE IF g.ret = 1 THEN Res(g, "INT_ERR")
                   ELSE IF g.ret = DISKERR THEN Res(g, "DISK_ERR")
                   ELSE IF p.res = "OK" THEN (IF p.ret < NFatEnt THEN Again(k) ELSE k) ELSE p
  BY Zenon DEF FreeOne, With, Then
<1>3. Sane(g, {c}, X) /\ WinTrue(g) /\ FatEntry(Sees(g), c) = FatEntry(Sees(v), c)
  <2>1. Sane(g, {c}, X)
    BY <1>0, <1>1, WorksSane
  <2>2. SameFatIn(Sees(v), Sees(g))
    BY <1>1, HereSame DEF Looks
  <2> QED
    BY <1>0, <2>1, <2>2 DEF SameFatIn, Sane
<1> HIDE DEF g, c
<1>4. Sane(g, {}, X) /\ SameSlots(Sees(v), Sees(g))
  BY <1>1, <1>3, SaneFewer, LooksSlots
<1>5. CASE g.ret \in {0, 1, DISKERR}
  <2>1. CASE g.ret = 0
    BY <1>1, <1>2, <1>4, <2>1, ResultsAre DEF Rest
  <2>2. CASE g.ret = DISKERR
    <3>1. FreeOne(v) = Res(g, "DISK_ERR")
      BY <1>1, <1>2, <2>2, NumbersApart
    <3>2. Res(g, "DISK_ERR") \in Live /\ Res(g, "DISK_ERR").res = "DISK_ERR" /\ SameStore(g, Res(g, "DISK_ERR"))
      BY <1>1, ResLive, ResultsAre
    <3>3. Sane(Res(g, "DISK_ERR"), {}, X) /\ SameSlots(Sees(v), Sees(Res(g, "DISK_ERR")))
      BY <1>4, <3>2, WorksSane, LooksSlots, SlotsOn
    <3> QED
      BY <3>1, <3>2, <3>3 DEF Rest, GO
  <2> QED
    BY <1>1, <1>5, <2>1, <2>2
<1>6. CASE g.ret \notin {0, 1, DISKERR}
  <2>1. /\ p \in Live /\ p.ret = g.ret /\ p.res \in {"OK", "DISK_ERR", "INT_ERR"}
        /\ p.res # "OK" => Looks(g, p)
        /\ p.res = "OK" => PutAt(g, p, c, 0)
    BY <1>0, <1>1, <1>3, PutFatSees, NumbersApart
  <2> HIDE DEF p
  <2>2. CASE p.res # "OK"
    <3>1. Sane(p, {}, X) /\ SameSlots(Sees(v), Sees(p))
      BY <1>4, <2>1, <2>2, WorksSane, LooksSlots, SlotsOn
    <3>2. FreeOne(v) = p /\ p.res # GO
      BY <1>2, <1>6, <2>1, <2>2 DEF GO
    <3> QED
      BY <2>1, <3>1, <3>2 DEF Rest
  <2>3. CASE p.res = "OK"
    <3>1. Kept(Sees(p), ({c} \ {c}) \union After(Sees(g), c), X)
      BY <1>3, <2>1, <2>3, KeptFree DEF PutAt, Sane
    <3>2. Sane(p, After(Sees(g), c), X)
      <4>1. ({c} \ {c}) \union After(Sees(g), c) = After(Sees(g), c)
        OBVIOUS
      <4> QED
        BY <1>3, <2>1, <2>3, <3>1, <4>1, WritesSane DEF PutAt
    <3>3. Looks(p, k) /\ k \in Live /\ k.res = "OK" /\ k.ret = p.ret
      BY <2>1, <2>3, CountFreedLooks
    <3> HIDE DEF k
    <3>4. After(Sees(g), c) \subseteq RealClusters
      BY DEF After
    <3>5. Sane(k, After(Sees(g), c), X) /\ SameSlots(Sees(v), Sees(k))
      <4>1. SameSlots(Sees(v), Sees(p))
        BY <1>4, <2>1, <2>3, SlotsOn DEF PutAt
      <4> QED
        BY <3>2, <3>3, <3>4, <4>1, WorksSane, LooksSlots, SlotsOn
    <3>6. g.ret = FatEntry(Sees(g), c) /\ g.ret \in FatValues /\ g.ret # 0
      BY <1>1, <1>3, <1>6
    <3>7. CASE p.ret < NFatEnt
      <4>1. After(Sees(g), c) = {g.ret}
        BY <2>1, <3>6, <3>7, NumbersApart DEF After, FatValues
      <4>2. Again(k) \in Live /\ Again(k).res = GO /\ Again(k).ret = g.ret /\ SameStore(k, Again(k))
        BY <2>1, <3>3, AgainLive
      <4>3. Sane(Again(k), After(Sees(g), c), X) /\ SameSlots(Sees(v), Sees(Again(k)))
        BY <3>4, <3>5, <4>2, WorksSane, LooksSlots, SlotsOn
      <4>4. FreeOne(v) = Again(k)
        BY <1>2, <1>6, <2>3, <3>7
      <4> QED
        BY <4>1, <4>2, <4>3, <4>4 DEF Rest
    <3>8. CASE ~(p.ret < NFatEnt)
      <4>1. FreeOne(v) = k
        BY <1>2, <1>6, <2>3, <3>8
      <4>2. Sane(k, {}, X)
        BY <3>5, SaneFewer
      <4> QED
        BY <3>3, <3>5, <4>1, <4>2, ResultsAre DEF Rest
    <3> QED
      BY <3>7, <3>8
  <2> QED
    BY <2>2, <2>3
<1> QED
  BY <1>5, <1>6

(* The rule for the loop of remove_chain.                                   *)
LEMMA FreeFromLoop ==
  ASSUME NEW v, NEW c, NEW V, Again(Ret(v, c)) \in V,
         \A u \in V : \A k \in 1..NFatEnt : u.res = GO => FreeOne(u) \in V
  PROVE  \E e \in V : FreeFrom(v, c) = IF e.res = GO THEN Res(e, "ENDLESS") ELSE e
<1> DEFINE n == NFatEnt
           a == Again(Ret(v, c))
           B(u, k) == IF u.res = GO THEN FreeOne(u) ELSE u
           F(h) == [k \in 0..n |-> IF k = 0 THEN a ELSE B(h[k - 1], k)]
           at == CHOOSE h : h = F(h)
           G == [p \in V \X (1..n) |-> B(p[1], p[2])]
<1>1. n \in Nat /\ a \in V
  BY LayoutIs
<1>2. \A u \in V : \A k \in 1..n : B(u, k) \in V
  OBVIOUS
<1>3. FreeFrom(v, c) = IF at[n].res = GO THEN Res(at[n], "ENDLESS") ELSE at[n]
  BY Zenon DEF FreeFrom, Rounds, With
<1> HIDE DEF a, B, n
<1>4. G \in [V \X (1..n) -> V] /\ \A u \in V : \A k \in 1..n : G[<<u, k>>] = B(u, k)
  BY <1>2
<1> HIDE DEF G
<1>5. PICK g \in [0..n -> V] : Runs(g, V, a, G, n)
  BY <1>1, <1>4, LoopRuns, Zenon
<1>6. g = F(g)
  <2>1. \A k \in 1..n : g[k] = B(g[k - 1], k)
    BY <1>4, <1>5, Zenon DEF Runs
  <2>2. \A k \in 0..n : g[k] = IF k = 0 THEN a ELSE B(g[k - 1], k)
    BY <1>5, <2>1 DEF Runs
  <2> QED
    BY <2>2
<1>7. at = F(at)
  BY <1>6
<1> HIDE DEF at
<1>8. at[0] = a /\ \A k \in 1..n : at[k] = B(at[k - 1], k)
  BY <1>1, <1>7
<1>9. at[n] \in V
  <2>1. \A k \in 1..n : at[k - 1] \in V => at[k] \in V
    BY <1>2, <1>8, Zenon
  <2> QED
    BY <1>1, <1>8, <2>1, LoopStays, Zenon
<1> QED
  BY <1>3, <1>9, Zenon
(* All of it is freed, or as much as there is no error for.                *)
LEMMA FreeFromSane ==
  ASSUME NEW v \in Live, NEW c \in RealClusters, NEW X, X \subseteq Places, Sane(v, {c}, X)
  PROVE  LET w == FreeFrom(v, c)
         IN  w \in Live /\ Sane(w, {}, X) /\ SameSlots(Sees(v), Sees(w))
<1> DEFINE V == {u \in Live : Sane(u, Rest(u), X) /\ SameSlots(Sees(v), Sees(u))}
<1>1. c \in Nat
  BY NumbersApart
<1>2. Again(Ret(v, c)) \in V
  <2>1. Ret(v, c) \in Live /\ SameStore(v, Ret(v, c)) /\ Ret(v, c).ret = c
    BY <1>1, RetLive
  <2> DEFINE r == Ret(v, c)
  <2> HIDE DEF r
  <2>2. Again(r) \in Live /\ Again(r).res = GO /\ SameStore(v, Again(r)) /\ Again(r).ret = c
    BY <2>1, AgainLive, StoreOn DEF r
  <2>3. Sane(Again(r), {c}, X)
    BY <2>2, WorksSane
  <2> QED
    BY <2>2, <2>3, LooksSlots DEF r, Rest
<1>3. ASSUME NEW u \in V, u.res = GO PROVE FreeOne(u) \in V
  <2>1. u \in Live /\ Sane(u, {u.ret}, X) /\ SameSlots(Sees(v), Sees(u))
    BY <1>3 DEF Rest
  <2>2. FreeOne(u) \in Live /\ Sane(FreeOne(u), Rest(FreeOne(u)), X) /\ SameSlots(Sees(u), Sees(FreeOne(u)))
    BY <2>1, FreeOneSane
  <2> QED
    BY <2>1, <2>2, SlotsOn
<1> HIDE DEF V
<1>4. PICK e \in V : FreeFrom(v, c) = IF e.res = GO THEN Res(e, "ENDLESS") ELSE e
  <2>1. \A u \in V : \A k \in 1..NFatEnt : u.res = GO => FreeOne(u) \in V
    BY <1>3
  <2> QED
    BY <1>2, <2>1, FreeFromLoop
<1>5. e \in Live /\ Sane(e, Rest(e), X) /\ SameSlots(Sees(v), Sees(e))
  BY DEF V
<1>6. Sane(e, {}, X)
  BY <1>5, SaneFewer
<1>7. Res(e, "ENDLESS") \in Live /\ SameStore(e, Res(e, "ENDLESS"))
  BY <1>5, ResLive, ResultsAre
<1>8. Sane(Res(e, "ENDLESS"), {}, X) /\ SameSlots(Sees(v), Sees(Res(e, "ENDLESS")))
  BY <1>5, <1>6, <1>7, WorksSane, LooksSlots, SlotsOn
<1> QED
  BY <1>4, <1>5, <1>6, <1>7, <1>8

(* Remove_chain frees an unnamed chain.                                    *)
LEMMA RemoveChainSane ==
  ASSUME NEW v \in Live, NEW c \in Nat, NEW X, X \subseteq Places,
         NEW P, P \subseteq {c}, Sane(v, P, X), c \in RealClusters => c \in P
  PROVE  LET w == remove_chain(v, c, 0)
         IN  w \in Live /\ Sane(w, {}, X) /\ SameSlots(Sees(v), Sees(w))
<1>1. CASE c \notin RealClusters
  <2>1. remove_chain(v, c, 0) = Res(v, "INT_ERR")
    BY <1>1, LayoutIs DEF remove_chain, RealClusters
  <2>2. Res(v, "INT_ERR") \in Live /\ SameStore(v, Res(v, "INT_ERR"))
    BY ResLive, ResultsAre
  <2>3. Sane(v, {}, X)
    BY SaneFewer
  <2> QED
    BY <2>1, <2>2, <2>3, WorksSane, LooksSlots
<1>2. CASE c \in RealClusters
  <2>1a. ~(c < 2 \/ c >= NFatEnt)
    BY <1>2, LayoutIs DEF RealClusters
  <2>1b. P = {c}
    BY <1>2
  <2>1. ~(c < 2 \/ c >= NFatEnt) /\ P = {c}
    BY <2>1a, <2>1b
  <2>2. OK(v) \in Live /\ OK(v).res = "OK" /\ SameStore(v, OK(v))
    BY ResLive, ResultsAre DEF OK
  <2>3. remove_chain(v, c, 0) = FreeFrom(OK(v), c)
    BY <2>1, <2>2, Zenon DEF remove_chain, Then
  <2>4. Sane(OK(v), {c}, X)
    BY <1>2, <2>1, <2>2, WorksSane
  <2>5. SameSlots(Sees(v), Sees(OK(v)))
    BY <2>2, LooksSlots
  <2> QED
    BY <1>2, <2>2, <2>3, <2>4, <2>5, FreeFromSane, SlotsOn
<1> QED
  BY <1>1, <1>2

(* A cluster that the search of create_chain stops at is free.             *)
LEMMA TryClusterLooks ==
  ASSUME NEW v \in Live, WinTrue(v), NEW c \in Nat
  PROVE  LET w == TryCluster(v, c)
         IN  /\ Looks(v, w) /\ w \in Live
             /\ w.ret \in {0, 1, DISKERR} \union RealClusters
             /\ w.ret \in RealClusters => FatEntry(Sees(w), w.ret) = 0
<1> DEFINE g == get_fat(v, c)
           x == Ret(g, c)
           y == Ret(g, 0)
           z == Again(y)
<1>0. TryCluster(v, c) = IF g.ret = 0 THEN x ELSE IF g.ret \in {1, DISKERR} THEN g ELSE z
  BY Zenon DEF TryCluster, With
<1>1. /\ Looks(v, g) /\ g \in Live /\ g.res = "OK"
      /\ c \notin RealClusters => g.ret = 1
      /\ c \in RealClusters /\ g.ret # DISKERR => g.ret = FatEntry(Sees(v), c)
  BY GetFatLooks
<1>2. FatEntry(Sees(g), c) = FatEntry(Sees(v), c) \/ c \notin RealClusters
  BY <1>1, LooksSlots DEF SameFatIn
<1> HIDE DEF g
<1>3. /\ x \in Live /\ x.ret = c /\ SameStore(g, x)
      /\ y \in Live /\ y.ret = 0 /\ SameStore(g, y)
  BY <1>1, RetLive
<1>4. Sees(x) = Sees(g)
  BY <1>3 DEF SameStore, Sees
<1> HIDE DEF x, y
<1>5. z \in Live /\ SameStore(y, z) /\ z.ret = 0
  BY <1>3, AgainLive
<1> HIDE DEF z
<1>6. Looks(v, x) /\ Looks(v, z)
  BY <1>1, <1>3, <1>5, StoreLooks, LooksOn
<1>7. CASE g.ret = 0
  <2>1. c \in RealClusters
    BY <1>1, <1>7
  <2>2. FatEntry(Sees(x), c) = 0
    BY <1>1, <1>2, <1>4, <1>7, <2>1, NumbersApart
  <2> QED
    BY <1>0, <1>3, <1>6, <1>7, <2>1, <2>2
<1>8. CASE g.ret \in {1, DISKERR}
  BY <1>0, <1>1, <1>8, NumbersApart
<1>9. CASE g.ret \notin {0, 1, DISKERR}
  BY <1>0, <1>5, <1>6, <1>9, NumbersApart
<1> QED
  BY <1>7, <1>8, <1>9

(* The rule for the loop that looks for a free cluster.                     *)
LEMMA FindFreeLoop ==
  ASSUME NEW v, NEW scl, NEW V, Again(Ret(v, 0)) \in V,
         \A u \in V : \A k \in 1..Clusters : u.res = GO => TryCluster(u, IF scl + k < NFatEnt THEN scl + k ELSE scl + k - NFatEnt + 2) \in V
  PROVE  \E e \in V : FindFree(v, scl) = IF e.res = GO THEN Res(e, "OK") ELSE e
<1> DEFINE n == Clusters
           a == Again(Ret(v, 0))
           B(u, k) == IF u.res = GO THEN TryCluster(u, IF scl + k < NFatEnt THEN scl + k ELSE scl + k - NFatEnt + 2) ELSE u
           F(h) == [k \in 0..n |-> IF k = 0 THEN a ELSE B(h[k - 1], k)]
           at == CHOOSE h : h = F(h)
           G == [p \in V \X (1..n) |-> B(p[1], p[2])]
<1>1. n \in Nat /\ a \in V
  BY GeometryAssumption
<1>2. \A u \in V : \A k \in 1..n : B(u, k) \in V
  OBVIOUS
<1>3. FindFree(v, scl) = IF at[n].res = GO THEN Res(at[n], "OK") ELSE at[n]
  BY Zenon DEF FindFree, Rounds, With
<1> HIDE DEF a, B, n
<1>4. G \in [V \X (1..n) -> V] /\ \A u \in V : \A k \in 1..n : G[<<u, k>>] = B(u, k)
  BY <1>2
<1> HIDE DEF G
<1>5. PICK g \in [0..n -> V] : Runs(g, V, a, G, n)
  BY <1>1, <1>4, LoopRuns, Zenon
<1>6. g = F(g)
  <2>1. \A k \in 1..n : g[k] = B(g[k - 1], k)
    BY <1>4, <1>5, Zenon DEF Runs
  <2>2. \A k \in 0..n : g[k] = IF k = 0 THEN a ELSE B(g[k - 1], k)
    BY <1>5, <2>1 DEF Runs
  <2> QED
    BY <2>2
<1>7. at = F(at)
  BY <1>6
<1> HIDE DEF at
<1>8. at[0] = a /\ \A k \in 1..n : at[k] = B(at[k - 1], k)
  BY <1>1, <1>7
<1>9. at[n] \in V
  <2>1. \A k \in 1..n : at[k - 1] \in V => at[k] \in V
    BY <1>2, <1>8, Zenon
  <2> QED
    BY <1>1, <1>8, <2>1, LoopStays, Zenon
<1> QED
  BY <1>3, <1>9, Zenon

(* A free cluster is looked for, and the one that is found is free. *)
LEMMA FindFreeLooks ==
  ASSUME NEW v \in Live, WinTrue(v), NEW scl \in Nat
  PROVE  LET w == FindFree(v, scl)
         IN  /\ Looks(v, w) /\ w \in Live /\ w.res = "OK" /\ SameWork(v, w)
             /\ w.ret \in {0, 1, DISKERR} \union RealClusters
             /\ w.ret \in RealClusters => FatEntry(Sees(w), w.ret) = 0
<1> DEFINE V == {u \in Live : /\ Looks(v, u) /\ u.ret \in {0, 1, DISKERR} \union RealClusters
                              /\ u.ret \in RealClusters => FatEntry(Sees(u), u.ret) = 0}
           next(k) == IF scl + k < NFatEnt THEN scl + k ELSE scl + k - NFatEnt + 2
<1>1. Again(Ret(v, 0)) \in V
  <2>1. Ret(v, 0) \in Live /\ SameStore(v, Ret(v, 0)) /\ Ret(v, 0).ret = 0
    BY RetLive
  <2> DEFINE r == Ret(v, 0)
  <2> HIDE DEF r
  <2>2. Again(r) \in Live /\ SameStore(v, Again(r)) /\ Again(r).ret = 0
    BY <2>1, AgainLive, StoreOn DEF r
  <2> QED
    BY <2>2, StoreLooks, NumbersApart DEF r
<1>2. ASSUME NEW u \in V, NEW k \in 1..Clusters PROVE TryCluster(u, next(k)) \in V
  <2>1. u \in Live /\ Looks(v, u) /\ WinTrue(u)
    BY DEF Looks
  <2>2. next(k) \in Nat
    BY LayoutIs, GeometryAssumption
  <2> HIDE DEF next
  <2> DEFINE w == TryCluster(u, next(k))
  <2>3. /\ Looks(u, w) /\ w \in Live
        /\ w.ret \in {0, 1, DISKERR} \union RealClusters
        /\ w.ret \in RealClusters => FatEntry(Sees(w), w.ret) = 0
    BY <2>1, <2>2, TryClusterLooks
  <2> HIDE DEF w
  <2>4. Looks(v, w)
    BY <2>1, <2>3, LooksOn
  <2> QED
    BY <2>3, <2>4 DEF w
<1> HIDE DEF V
<1>3. PICK e \in V : FindFree(v, scl) = IF e.res = GO THEN Res(e, "OK") ELSE e
  <2>1. \A u \in V : \A k \in 1..Clusters : u.res = GO =>
           TryCluster(u, IF scl + k < NFatEnt THEN scl + k ELSE scl + k - NFatEnt + 2) \in V
    BY <1>2
  <2> QED
    BY <1>1, <2>1, FindFreeLoop
<1>4. /\ e \in Live /\ Looks(v, e) /\ e.ret \in {0, 1, DISKERR} \union RealClusters
      /\ e.ret \in RealClusters => FatEntry(Sees(e), e.ret) = 0
  BY DEF V
<1>5. /\ Res(e, "OK") \in Live /\ SameStore(e, Res(e, "OK")) /\ Res(e, "OK").ret = e.ret
      /\ Sees(Res(e, "OK")) = Sees(e)
  <2>1. Res(e, "OK") \in Live /\ SameStore(e, Res(e, "OK")) /\ Res(e, "OK").ret = e.ret
    BY <1>4, ResLive, ResultsAre
  <2> QED
    BY <2>1 DEF SameStore, Sees
<1>6. Looks(v, Res(e, "OK"))
  BY <1>4, <1>5, StoreLooks, LooksOn
<1>7. FindFree(v, scl).res = "OK" /\ SameWork(v, FindFree(v, scl))
  <2>1. v \in Steady(FALSE) /\ FALSE \in BOOLEAN
    BY LiveIs
  <2> QED
    BY <2>1, FindFreeKeeps
<1> QED
  BY <1>3, <1>4, <1>5, <1>6, <1>7

-----------------------------------------------------------------------------
(* What create_chain answers: the cluster w.ret follows c, or begins a     *)
(* chain that no entry names; every link that there was is there.          *)
Chained(v, w, c, P, X) ==
  /\ Created(FALSE, v, w) /\ w.to = v.to
  /\ Sane(w, IF c = 0 /\ w.ret \in RealClusters THEN P \union {w.ret} ELSE P, X)
  /\ SameSlots(Sees(v), Sees(w)) /\ LinksKept(Sees(v), Sees(w))
  /\ w.ret \in RealClusters => /\ w.fs.winsect \in FatSects
                               /\ c # 0 => FatEntry(Sees(w), c) = w.ret

(* A step before it that only looks makes no difference,                   *)
LEMMA ChainedAfter ==
  ASSUME NEW v, NEW g, NEW w, NEW c, NEW P, NEW X, Looks(v, g) \/ SameStore(v, g),
         SameWork(v, g), Chained(g, w, c, P, X)
  PROVE  Chained(v, w, c, P, X)
<1>1. SameSlots(Sees(v), Sees(g)) /\ SameFatIn(Sees(v), Sees(g))
  BY LooksSlots
<1>2. SameSlots(Sees(v), Sees(w)) /\ LinksKept(Sees(v), Sees(w))
  BY <1>1 DEF Chained, SameSlots, LinksKept, SameFatIn
<1>3. Created(FALSE, v, w)
  BY CreatedAfter DEF Chained
<1>4. w.to = v.to
  BY DEF Chained, Looks, SameStore
<1> QED
  BY <1>2, <1>3, <1>4 DEF Chained

(* And one that finds no cluster gives none.                               *)
LEMMA ChainedNot ==
  ASSUME NEW v \in Live, NEW g \in Live, SameWork(v, g), Looks(v, g) \/ SameStore(v, g),
         NEW c, NEW P, P \subseteq RealClusters, NEW X, X \subseteq Places, Sane(v, P, X),
         NEW r \in {0, 1, DISKERR}
  PROVE  /\ Chained(v, Ret(g, r), c, P, X)
         /\ g.ret = r /\ g.res = "OK" => Chained(v, g, c, P, X)
<1>1. r \in Nat /\ r \notin RealClusters
  BY NumbersApart
<1>2. /\ Ret(g, r) \in Live /\ Ret(g, r).res = "OK" /\ SameStore(g, Ret(g, r)) /\ Ret(g, r).ret = r
      /\ SameWork(g, Ret(g, r))
  <2>1. SameWork(g, Ret(g, r))
    BY <1>1, RetLive DEF SameWork
  <2> QED
    BY <1>1, <2>1, RetLive
<1>3. ASSUME NEW w \in Live, w.res = "OK", w.ret = r, SameWork(v, w), Looks(v, w)
      PROVE  Chained(v, w, c, P, X)
  <2>1. Sane(w, P, X)
    BY <1>3, WorksSane
  <2>2. SameSlots(Sees(v), Sees(w)) /\ LinksKept(Sees(v), Sees(w))
    BY <1>3, LooksSlots DEF LinksKept, SameFatIn
  <2>3. w \in Good(FALSE)
    BY LiveIs
  <2>4. Created(FALSE, v, w)
    BY <1>3, <2>3 DEF Created
  <2>5. w.to = v.to
    BY <1>3 DEF Looks
  <2> QED
    BY <1>1, <1>3, <2>1, <2>2, <2>4, <2>5 DEF Chained
<1>4. Looks(v, g) /\ Looks(v, Ret(g, r)) /\ SameWork(v, Ret(g, r))
  <2>1. Looks(v, g)
    BY StoreLooks
  <2>2. Looks(g, Ret(g, r))
    BY <1>2, StoreLooks
  <2> QED
    BY <1>2, <2>1, <2>2, LooksOn DEF SameWork
<1> QED
  BY <1>2, <1>3, <1>4

(* The new cluster x is marked and linked behind c.                        *)
NewLink(v, c, x) == Then(put_fat(v, x, EOC), LAMBDA u : IF c # 0 THEN put_fat(u, c, x) ELSE u)

(* A free cluster becomes the end of a chain before the last cluster of the *)
(* chain points to it: the volume is sound between the two.                *)
LEMMA LinkedSane ==
  ASSUME NEW v \in Live, NEW c \in Nat, NEW x \in RealClusters,
         NEW P, P \subseteq RealClusters, NEW X, X \subseteq Places,
         Sane(v, P, X), FatEntry(Sees(v), x) = 0,
         c # 0 => c \in RealClusters /\ FatEntry(Sees(v), c) \notin RealClusters \union {0}
  PROVE  LET w == NewLink(v, c, x)
         IN  /\ w \in Live /\ SameSlots(Sees(v), Sees(w)) /\ LinksKept(Sees(v), Sees(w))
             /\ w.to = v.to
             /\ w.res = "OK" => /\ w.fs.winsect \in FatSects
                                /\ Sane(w, IF c = 0 THEN P \union {x} ELSE P, X)
                                /\ c # 0 => FatEntry(Sees(w), c) = x
             /\ w.res # "OK" => Sane(w, P, X)
<1> DEFINE p == put_fat(v, x, EOC)
           r == put_fat(p, c, x)
<1>0. NewLink(v, c, x) = IF p.res = "OK" /\ c # 0 THEN r ELSE p
  BY Zenon DEF NewLink, Then
<1>1. WinTrue(v) /\ x \in Int /\ x \in Nat /\ x \in FatValues /\ EOC \in FatValues /\ c \in Int
  BY NumbersApart DEF Sane
<1>2. /\ p \in Live
      /\ p.res # "OK" => Looks(v, p)
      /\ p.res = "OK" => PutAt(v, p, x, EOC)
  BY <1>1, PutFatSees
<1> HIDE DEF p
<1>3. CASE p.res # "OK"
  <2>1. Sane(p, P, X)
    BY <1>2, <1>3, WorksSane
  <2>2. SameSlots(Sees(v), Sees(p)) /\ SameFatIn(Sees(v), Sees(p))
    BY <1>2, <1>3, LooksSlots
  <2>3. p.to = v.to
    BY <1>2, <1>3 DEF Looks
  <2> QED
    BY <1>0, <1>2, <1>3, <2>1, <2>2, <2>3 DEF LinksKept, SameFatIn
<1>4. CASE p.res = "OK"
  <2>1. /\ Writes(v, p) /\ SameSlots(Sees(v), Sees(p)) /\ FatEntry(Sees(p), x) = EOC
        /\ \A d \in RealClusters \ {x} : FatEntry(Sees(p), d) = FatEntry(Sees(v), d)
        /\ p.fs.winsect \in FatSects
    BY <1>2, <1>4 DEF PutAt
  <2>2. Kept(Sees(p), P \union {x}, X) /\ x \notin P \union Reserved
    BY <2>1, KeptTake DEF Sane
  <2>3. Sane(p, P \union {x}, X)
    BY <2>1, <2>2, WritesSane
  <2>4. LinksKept(Sees(v), Sees(p)) /\ p.to = v.to
    BY <2>1, NumbersApart DEF LinksKept, Writes
  <2>5. CASE c = 0
    BY <1>0, <1>2, <1>4, <2>1, <2>3, <2>4, <2>5
  <2>6. CASE c # 0
    <3>1. /\ c \in RealClusters /\ c # x
          /\ FatEntry(Sees(p), c) # 0 /\ FatEntry(Sees(p), c) \notin RealClusters
      BY <2>1, <2>6
    <3>2. WinTrue(p)
      BY <2>3 DEF Sane
    <3>3. /\ r \in Live
          /\ r.res # "OK" => Looks(p, r)
          /\ r.res = "OK" => PutAt(p, r, c, x)
      BY <1>1, <1>2, <3>2, PutFatSees
    <3> HIDE DEF r
    <3>4. CASE r.res # "OK"
      <4>1. Sane(r, P \union {x}, X)
        BY <2>3, <3>3, <3>4, WorksSane
      <4>2. Sane(r, P, X)
        BY <4>1, SaneFewer
      <4>3. SameSlots(Sees(p), Sees(r)) /\ SameFatIn(Sees(p), Sees(r))
        BY <3>3, <3>4, LooksSlots
      <4>4. SameSlots(Sees(v), Sees(r))
        BY <2>1, <4>3, SlotsOn
      <4>5. LinksKept(Sees(v), Sees(r)) /\ r.to = v.to
        BY <2>4, <3>3, <3>4, <4>3 DEF LinksKept, SameFatIn, Looks
      <4> QED
        BY <1>0, <1>4, <2>6, <3>3, <3>4, <4>2, <4>4, <4>5
    <3>5. CASE r.res = "OK"
      <4>1. /\ Writes(p, r) /\ SameSlots(Sees(p), Sees(r)) /\ FatEntry(Sees(r), c) = x
            /\ \A d \in RealClusters \ {c} : FatEntry(Sees(r), d) = FatEntry(Sees(p), d)
            /\ r.fs.winsect \in FatSects
        BY <3>3, <3>5 DEF PutAt
      <4>2. Kept(Sees(r), (P \union {x}) \ {x}, X)
        BY <2>2, <3>1, <4>1, KeptLink
      <4>3. (P \union {x}) \ {x} = P
        BY <2>2
      <4>4. Sane(r, P, X)
        BY <2>3, <4>1, <4>2, <4>3, WritesSane
      <4>5. SameSlots(Sees(v), Sees(r))
        BY <2>1, <4>1, SlotsOn
      <4>6. LinksKept(Sees(v), Sees(r)) /\ r.to = v.to
        BY <2>1, <2>4, <3>1, <4>1 DEF LinksKept, Writes
      <4> QED
        BY <1>0, <1>4, <2>6, <3>3, <3>5, <4>1, <4>4, <4>5, <4>6
    <3> QED
      BY <3>4, <3>5
  <2> QED
    BY <2>5, <2>6
<1> QED
  BY <1>3, <1>4

(* To read the FAT leaves what the call works on alone.                    *)
LEMMA GetFatWork ==
  ASSUME NEW v \in Live, NEW c \in Int
  PROVE  SameWork(v, get_fat(v, c))
<1>1. v \in Steady(FALSE) /\ FALSE \in BOOLEAN
  BY LiveIs
<1>2. \A q \in BOOLEAN : \A u \in Steady(q) : SameWork(u, get_fat(u, c))
  BY GetFatKeeps
<1> QED
  BY <1>1, <1>2, Zenon

(* The cluster that was found is linked, *)
LEMMA LinkNewSane ==
  ASSUME NEW v \in Live, NEW c \in Nat, v.ret \in RealClusters,
         NEW P, P \subseteq RealClusters, NEW X, X \subseteq Places,
         Sane(v, P, X), FatEntry(Sees(v), v.ret) = 0,
         c # 0 => c \in RealClusters /\ FatEntry(Sees(v), c) \notin RealClusters \union {0}
  PROVE  Chained(v, LinkNew(v, c), c, P, X)
<1> DEFINE d == v.ret
           p == NewLink(v, c, d)
           x == IF p.fs.free <= NFatEnt - 2 THEN p.fs.free - 1 ELSE p.fs.free
           z == SetDirty(p.fs.fsi)
           k == [p EXCEPT !.fs = [[[p.fs EXCEPT !.last = d] EXCEPT !.fsi = z] EXCEPT !.free = x]]
           e == IF p.res = "DISK_ERR" THEN DISKERR ELSE 1
<1>0. /\ v \in Good(FALSE) /\ FALSE \in BOOLEAN /\ v \in CallSet /\ d \in Nat /\ d \in RealClusters
      /\ v \in Steady(FALSE)
  BY LiveIs
<1>a. LinkNew(v, c) \in Good(FALSE) /\ SameWork(v, LinkNew(v, c)) /\ LinkNew(v, c).res = "OK"
  <2>1. \A q \in BOOLEAN : \A y \in Good(q) : \A a \in Nat :
           y.ret \in RealClusters /\ ~q =>
              LinkNew(y, a) \in Good(q) /\ SameWork(y, LinkNew(y, a)) /\ LinkNew(y, a).res = "OK"
    BY LinkNewKeeps
  <2> QED
    BY <1>0, <2>1
<1>1. /\ p \in Live /\ SameSlots(Sees(v), Sees(p)) /\ LinksKept(Sees(v), Sees(p)) /\ p.to = v.to
      /\ p.res = "OK" => /\ p.fs.winsect \in FatSects
                         /\ Sane(p, IF c = 0 THEN P \union {d} ELSE P, X)
                         /\ c # 0 => FatEntry(Sees(p), c) = d
      /\ p.res # "OK" => Sane(p, P, X)
  <2>1. FatEntry(Sees(v), d) = 0
    OBVIOUS
  <2> HIDE DEF d
  <2> QED
    BY <1>0, <2>1, LinkedSane
<1>2. LinkNew(v, c) = IF p.res # "OK" THEN Ret(p, e)
                      ELSE Ret([p EXCEPT !.fs.last = d, !.fs.fsi = SetDirty(@),
                                  !.fs.free = IF @ <= NFatEnt - 2 THEN @ - 1 ELSE @], d)
  BY Zenon DEF LinkNew, With, NewLink
<1> HIDE DEF p
<1>3. p \in CallSet /\ p.fs \in Volumes /\ p.fs.fsi \in Nat /\ p.fs.free \in Int
  <2>1. p \in CallSet /\ p.fs \in Volumes
    BY <1>1, LiveIs
  <2> QED
    BY <2>1 DEF Volumes, FsSet
<1>4. [p EXCEPT !.fs.last = d, !.fs.fsi = SetDirty(@), !.fs.free = IF @ <= NFatEnt - 2 THEN @ - 1 ELSE @] = k
  <2>1. [p EXCEPT !.fs.last = d, !.fs.fsi = SetDirty(@), !.fs.free = IF @ <= NFatEnt - 2 THEN @ - 1 ELSE @]
          = [p EXCEPT !.fs.last = d, !.fs.fsi = z, !.fs.free = x]
    BY <1>3 DEF CallSet, Volumes, FsSet
  <2> HIDE DEF x, z
  <2>2. [p EXCEPT !.fs.last = d, !.fs.fsi = z, !.fs.free = x] = k
    BY <1>3 DEF CallSet, Volumes, FsSet
  <2> QED
    BY <2>1, <2>2
<1>5. x \in Int /\ z \in Nat /\ e \in {1, DISKERR}
  BY <1>3, DirtyIs
<1>6. Looks(p, k) /\ Sees(k) = Sees(p) /\ k.fs.winsect = p.fs.winsect /\ k \in Steady(FALSE)
  <2>0. p \in CallSet /\ x \in Int /\ z \in Nat /\ d \in Nat /\ p \in Steady(FALSE) /\ FALSE \in BOOLEAN
    BY <1>0, <1>1, <1>3, <1>5, LiveIs
  <2> HIDE DEF x, z, d
  <2>1. \A aa \in Int : \A bb \in Nat : \A cc \in Nat :
          LET u == [p EXCEPT !.fs = [[[p.fs EXCEPT !.last = bb] EXCEPT !.fsi = cc] EXCEPT !.free = aa]]
          IN  Looks(p, u) /\ Sees(u) = Sees(p) /\ u.fs.winsect = p.fs.winsect
    BY <2>0, CountLooks, Zenon
  <2>2. \A aa \in Int : \A bb \in Nat : \A cc \in Nat :
          [p EXCEPT !.fs = [[[p.fs EXCEPT !.last = bb] EXCEPT !.fsi = cc] EXCEPT !.free = aa]] \in Steady(FALSE)
    <3>1. \A q \in BOOLEAN : \A pp \in Steady(q) : \A aa \in Int : \A bb \in Nat : \A cc \in Nat :
          [pp EXCEPT !.fs = [[[pp.fs EXCEPT !.last = bb] EXCEPT !.fsi = cc] EXCEPT !.free = aa]] \in Steady(q)
      BY CountSet, Zenon
    <3> QED
      BY <2>0, <3>1, Zenon
  <2> QED
    BY <2>0, <2>1, <2>2, Zenon
<1> HIDE DEF k, e
<1>7. CASE p.res # "OK"
  <2> DEFINE w == Ret(p, e)
  <2>1. e \in Nat /\ e \notin RealClusters
    BY <1>5, NumbersApart
  <2>2. w \in Live /\ w.ret = e /\ SameStore(p, w)
    BY <1>1, <2>1, RetLive
  <2>3. LinkNew(v, c) = w
    BY <1>2, <1>7
  <2> HIDE DEF w
  <2>4. Sane(w, P, X) /\ SameSlots(Sees(v), Sees(w))
    BY <1>1, <1>7, <2>2, WorksSane, LooksSlots, SlotsOn
  <2>5. Sees(w) = Sees(p) /\ w.to = p.to
    BY <2>2 DEF SameStore, Sees
  <2>6. Created(FALSE, v, w)
    BY <1>5, <1>a, <2>2, <2>3 DEF Created
  <2> QED
    BY <1>1, <2>1, <2>2, <2>3, <2>4, <2>5, <2>6 DEF Chained
<1>8. CASE p.res = "OK"
  <2> DEFINE w == Ret(k, d)
             Q == IF c = 0 THEN P \union {d} ELSE P
  <2>1. LinkNew(v, c) = w
    BY <1>2, <1>4, <1>8
  <2>2. k \in Live
    BY <1>6, GoodLives, Zenon
  <2>3. w \in Live /\ w.ret = d /\ SameStore(k, w)
    BY <1>0, <2>2, RetLive
  <2> HIDE DEF w
  <2>4. Sees(w) = Sees(p) /\ w.fs.winsect = p.fs.winsect /\ w.to = p.to
    BY <1>6, <2>3 DEF SameStore, Sees, Looks
  <2>5. Q \subseteq RealClusters
    BY <1>0
  <2>6. Sane(p, Q, X)
    BY <1>1, <1>8
  <2> HIDE DEF Q
  <2>7. Sane(k, Q, X)
    BY <1>6, <2>5, <2>6, WorksSane
  <2>8. Sane(w, Q, X)
    BY <2>3, <2>5, <2>7, WorksSane
  <2>9. Created(FALSE, v, w)
    BY <1>0, <1>a, <2>1, <2>3 DEF Created
  <2>10. Q = IF c = 0 /\ w.ret \in RealClusters THEN P \union {w.ret} ELSE P
    BY <1>0, <2>3 DEF Q
  <2> QED
    BY <1>1, <1>8, <2>1, <2>3, <2>4, <2>8, <2>9, <2>10 DEF Chained
<1> QED
  BY <1>7, <1>8

(* looked for and linked, *)
LEMMA FindAndLinkSane ==
  ASSUME NEW v \in Live, NEW scl \in Nat, NEW c \in Nat,
         NEW P, P \subseteq RealClusters, NEW X, X \subseteq Places, Sane(v, P, X),
         c # 0 => c \in RealClusters /\ FatEntry(Sees(v), c) \notin RealClusters \union {0}
  PROVE  Chained(v, FindAndLink(v, scl, c), c, P, X)
<1> DEFINE f == FindFree(v, scl)
           w == LinkNew(f, c)
<1>1. FindAndLink(v, scl, c) = IF f.ret \in {0, 1, DISKERR} THEN f ELSE w
  BY Zenon DEF FindAndLink, With
<1>2. /\ Looks(v, f) /\ f \in Live /\ f.res = "OK" /\ SameWork(v, f)
      /\ f.ret \in {0, 1, DISKERR} \union RealClusters
      /\ f.ret \in RealClusters => FatEntry(Sees(f), f.ret) = 0
  BY FindFreeLooks DEF Sane
<1> HIDE DEF f
<1>3. Sane(f, P, X) /\ SameFatIn(Sees(v), Sees(f))
  BY <1>2, WorksSane, LooksSlots
<1>4. CASE f.ret \in {0, 1, DISKERR}
  <2>1. \A r \in {0, 1, DISKERR} : f.ret = r => Chained(v, f, c, P, X)
    BY <1>2, ChainedNot
  <2> QED
    BY <1>1, <1>4, <2>1
<1>5. CASE f.ret \notin {0, 1, DISKERR}
  <2>1. c # 0 => c \in RealClusters /\ FatEntry(Sees(f), c) \notin RealClusters \union {0}
    BY <1>3 DEF SameFatIn
  <2>2. Chained(f, w, c, P, X)
    BY <1>2, <1>3, <1>5, <2>1, LinkNewSane
  <2> HIDE DEF w
  <2> QED
    BY <1>1, <1>2, <1>5, <2>2, ChainedAfter
<1> QED
  BY <1>4, <1>5

(* next to the last one if that is free. *)
LEMMA StretchChainSane ==
  ASSUME NEW v \in Live, NEW c \in RealClusters,
         NEW P, P \subseteq RealClusters, NEW X, X \subseteq Places, Sane(v, P, X),
         FatEntry(Sees(v), c) \notin RealClusters \union {0}
  PROVE  Chained(v, StretchChain(v, c), c, P, X)
<1> DEFINE last == v.fs.last
           beside == IF c + 1 >= NFatEnt THEN 2 ELSE c + 1
           g == get_fat(v, beside)
           r == Ret(g, beside)
           x == LinkNew(r, c)
           scl == IF last >= 2 /\ last < NFatEnt THEN last ELSE c
           y == FindAndLink(g, scl, c)
<1>1. StretchChain(v, c) = IF g.ret \in {1, DISKERR} THEN g ELSE IF g.ret = 0 THEN x ELSE y
  BY Zenon DEF StretchChain, With
<1>0. v \in Steady(FALSE) /\ FALSE \in BOOLEAN /\ v.fs \in Volumes /\ WinTrue(v)
  BY LiveIs DEF Sane
<1>2. c \in Nat /\ scl \in Nat /\ beside \in RealClusters /\ beside \in Nat /\ c # 0 /\ beside \in Int
  <2>1. v.fs.last \in Nat
    BY <1>0 DEF Volumes, FsSet
  <2> QED
    BY <2>1, LayoutIs DEF RealClusters
<1> HIDE DEF beside, scl
<1>3. /\ Looks(v, g) /\ g \in Live /\ g.res = "OK" /\ SameWork(v, g)
      /\ g.ret \in FatValues \union {1, DISKERR}
      /\ g.ret # DISKERR => g.ret = FatEntry(Sees(v), beside)
  <2>1. SameWork(v, g)
    BY <1>0, <1>2, GetFatKeeps
  <2> QED
    BY <1>0, <1>2, <2>1, GetFatLooks
<1> HIDE DEF g
<1>4. Sane(g, P, X) /\ SameFatIn(Sees(v), Sees(g))
  BY <1>3, WorksSane, LooksSlots
<1>5. FatEntry(Sees(g), c) \notin RealClusters \union {0}
  BY <1>4 DEF SameFatIn
<1>6. CASE g.ret \in {1, DISKERR}
  <2>1. \A a \in {0, 1, DISKERR} : g.ret = a => Chained(v, g, c, P, X)
    BY <1>3, ChainedNot
  <2> QED
    BY <1>1, <1>6, <2>1
<1>7. CASE g.ret = 0
  <2>1. r \in Live /\ r.ret = beside /\ SameStore(g, r) /\ SameWork(g, r)
    BY <1>2, <1>3, RetLive DEF SameWork
  <2> HIDE DEF r
  <2>2. Sees(r) = Sees(g) /\ Sane(r, P, X)
    BY <1>4, <2>1, WorksSane DEF SameStore, Sees
  <2>3. FatEntry(Sees(r), r.ret) = 0
    <3>1. FatEntry(Sees(g), beside) = 0
      BY <1>2, <1>3, <1>4, <1>7, NumbersApart DEF SameFatIn
    <3> QED
      BY <2>1, <2>2, <3>1
  <2>4. Chained(r, x, c, P, X)
    BY <1>2, <1>5, <2>1, <2>2, <2>3, LinkNewSane
  <2>5. StretchChain(v, c) = x
    BY <1>1, <1>7, NumbersApart
  <2> HIDE DEF x
  <2>6. Chained(g, x, c, P, X)
    BY <2>1, <2>4, ChainedAfter
  <2> QED
    BY <1>3, <2>5, <2>6, ChainedAfter
<1>8. CASE g.ret \notin {0, 1, DISKERR}
  <2>1. Chained(g, y, c, P, X)
    BY <1>2, <1>3, <1>4, <1>5, FindAndLinkSane
  <2> HIDE DEF y
  <2> QED
    BY <1>1, <1>3, <1>8, <2>1, ChainedAfter
<1> QED
  BY <1>6, <1>7, <1>8

(* Create_chain keeps the volume sound: the cluster it takes belongs to    *)
(* the chain that is stretched, or begins one that no entry names yet.     *)
LEMMA CreateChainSane ==
  ASSUME NEW v \in Live, NEW c \in Nat,
         NEW P, P \subseteq RealClusters, NEW X, X \subseteq Places, Sane(v, P, X)
  PROVE  Chained(v, create_chain(v, c), c, P, X)
<1> DEFINE last == v.fs.last
           scl == IF last = 0 \/ last >= NFatEnt THEN 1 ELSE last
           g == get_fat(v, c)
           x == FindAndLink(v, scl, 0)
           y == StretchChain(g, c)
<1>1. create_chain(v, c) =
        IF c = 0 THEN (IF v.fs.free = 0 THEN Ret(v, 0) ELSE x)
        ELSE IF g.ret < 2 THEN Ret(g, 1)
        ELSE IF g.ret = DISKERR \/ g.ret < NFatEnt THEN g
        ELSE IF g.fs.free = 0 THEN Ret(g, 0) ELSE y
  BY Zenon DEF create_chain, With
<1>0. v \in Steady(FALSE) /\ FALSE \in BOOLEAN /\ v.fs \in Volumes /\ WinTrue(v)
  BY LiveIs DEF Sane
<1>2. scl \in Nat
  BY <1>0 DEF Volumes, FsSet
<1> HIDE DEF scl
<1>3. CASE c = 0
  <2>1. Chained(v, x, c, P, X)
    BY <1>2, <1>3, FindAndLinkSane
  <2>2. Chained(v, Ret(v, 0), c, P, X)
    <3>1. SameWork(v, v) /\ SameStore(v, v)
      BY DEF SameWork, SameStore
    <3> QED
      BY <3>1, ChainedNot
  <2> HIDE DEF x
  <2> QED
    BY <1>1, <1>3, <2>1, <2>2
<1>4. CASE c # 0
  <2>1. /\ Looks(v, g) /\ g \in Live /\ g.res = "OK" /\ SameWork(v, g)
        /\ g.ret \in FatValues \union {1, DISKERR}
        /\ c \notin RealClusters => g.ret = 1
        /\ c \in RealClusters => g.ret # 1
        /\ c \in RealClusters /\ g.ret # DISKERR =>
                g.ret = FatEntry(Sees(v), c) /\ g.fs.winsect \in FatSects
    <3>2. c \in Int
      OBVIOUS
    <3>1. SameWork(v, g)
      BY <3>2, GetFatWork
    <3> QED
      BY <1>0, <3>1, <3>2, GetFatLooks
  <2> HIDE DEF g
  <2>2. Sane(g, P, X) /\ SameFatIn(Sees(v), Sees(g)) /\ SameSlots(Sees(v), Sees(g)) /\ g.ret \in Nat
    <3>1. Sane(g, P, X) /\ SameFatIn(Sees(v), Sees(g)) /\ SameSlots(Sees(v), Sees(g))
      BY <2>1, WorksSane, LooksSlots
    <3> QED
      BY <2>1, <3>1, LiveIs
  <2>3. Chained(v, Ret(g, 1), c, P, X) /\ Chained(v, Ret(g, 0), c, P, X)
    BY <2>1, ChainedNot
  <2>4. CASE g.ret < 2
    BY <1>1, <1>4, <2>3, <2>4
  <2>5. CASE g.ret = DISKERR
    <3>1. Chained(v, g, c, P, X)
      BY <2>1, <2>5, ChainedNot
    <3>2. ~(g.ret < 2)
      BY <2>2, <2>5, NumbersApart
    <3> QED
      BY <1>1, <1>4, <2>5, <3>1, <3>2
  <2>6. CASE ~(g.ret < 2) /\ g.ret # DISKERR /\ g.ret < NFatEnt
    <3>1. g.ret \in RealClusters /\ c \in RealClusters
      BY <2>1, <2>2, <2>6, LayoutIs DEF RealClusters
    <3>2. g \in Good(FALSE)
      BY <2>1, LiveIs
    <3>3. Created(FALSE, v, g)
      BY <2>1, <3>1, <3>2 DEF Created
    <3>4. LinksKept(Sees(v), Sees(g)) /\ FatEntry(Sees(g), c) = g.ret
      BY <2>1, <2>2, <2>6, <3>1 DEF LinksKept, SameFatIn
    <3>5a. g.to = v.to
      BY <2>1 DEF Looks
    <3>5. Chained(v, g, c, P, X)
      BY <1>4, <2>1, <2>2, <2>6, <3>1, <3>3, <3>4, <3>5a DEF Chained
    <3> QED
      BY <1>1, <1>4, <2>6, <3>5
  <2>7. CASE ~(g.ret < 2) /\ g.ret # DISKERR /\ ~(g.ret < NFatEnt)
    <3>1. c \in RealClusters /\ g.ret # 0 /\ g.ret \notin RealClusters
      <4>1. c \in RealClusters
        BY <2>1, <2>7
      <4> QED
        BY <2>2, <2>7, <4>1, LayoutIs DEF RealClusters
    <3>2. FatEntry(Sees(g), c) \notin RealClusters \union {0}
      BY <2>1, <2>2, <2>7, <3>1 DEF SameFatIn
    <3>3. Chained(g, y, c, P, X)
      BY <2>1, <2>2, <3>1, <3>2, StretchChainSane
    <3> HIDE DEF y
    <3>4. Chained(v, y, c, P, X)
      BY <2>1, <3>3, ChainedAfter
    <3> QED
      BY <1>1, <1>4, <2>3, <2>7, <3>4
  <2> QED
    BY <2>4, <2>5, <2>6, <2>7
<1> QED
  BY <1>3, <1>4

-----------------------------------------------------------------------------
(* Writing past the window.                                                *)

(* Sync_fs writes what is seen, and leaves nothing in the window.          *)
LEMMA SyncFsLooks ==
  ASSUME NEW v \in Live
  PROVE  LET w == sync_fs(v)
         IN  /\ Looks(v, w) /\ w \in Live /\ SameRest(v, w) /\ w.res \in {"OK", "DISK_ERR"}
             /\ w.res = "OK" => ~w.fs.wflag
<1> DEFINE w == sync_window(v)
           c == FsInfo(w.fs.free, w.fs.last)
           i == Placed(w, FsInfoSect, c)
           d == DiskWrite(i, FsInfoSect, c)
<1>0. v \in Good(FALSE) /\ FALSE \in BOOLEAN
  BY LiveIs
<1>a. sync_fs(v) \in Live /\ SameRest(v, sync_fs(v)) /\ sync_fs(v).res \in {"OK", "DISK_ERR"}
  BY <1>0, SyncFsKeeps, GoodLives
<1>1. /\ Looks(v, w) /\ w \in Live
      /\ w.res = "OK" => ~w.fs.wflag
  BY SyncWindowLooks
<1>2. sync_fs(v) = IF w.res = "OK" THEN
                      IF FatType = 3 /\ w.fs.fsi = 1
                      THEN LET j == [w EXCEPT !.fs.win = FsInfo(w.fs.free, w.fs.last),
                                              !.fs.winsect = FsInfoSect]
                           IN  OK([DiskWrite(j, FsInfoSect, j.fs.win) EXCEPT !.fs.fsi = 0])
                      ELSE w
                   ELSE w
  BY Zenon DEF sync_fs, Then
<1> HIDE DEF w
<1>3. w \in Good(FALSE) /\ w \in Steady(FALSE) /\ w \in CallSet /\ w.fs \in Volumes /\ w.disk \in Cards
  BY <1>1, LiveIs
<1>4. CASE ~(w.res = "OK" /\ FatType = 3 /\ w.fs.fsi = 1)
  <2>1. sync_fs(v) = w
    BY <1>2, <1>4
  <2> QED
    BY <1>a, <1>1, <1>4, <2>1
<1>5. CASE w.res = "OK" /\ FatType = 3 /\ w.fs.fsi = 1
  <2>1. FsInfoSect \in WinSects /\ FsInfoSect < FatBase /\ FsInfoSect \in Sectors /\ FsInfoSect # 0
    BY <1>5, AreasApart
  <2>2. c \in Holds(FsInfoSect) /\ c \in SectorSet
    <3>1. c \in InfoSet
      BY <1>3 DEF Volumes, FsSet, InfoSet, FsInfo
    <3> HIDE DEF c
    <3> QED
      BY <2>1, <3>1 DEF Holds, SectorSet
  <2>3. FsInfoSect \notin FatSects /\ FsInfoSect \notin TableArea
    <3>1. FsInfoSect \in Nat /\ FsInfoSect < RootSect
      BY <2>1, LayoutIs DEF FsInfoSect
    <3> QED
      BY <2>1, <3>1, AreasApart, LayoutIs DEF FatSects
  <2> DEFINE j == [w EXCEPT !.fs.win = FsInfo(w.fs.free, w.fs.last), !.fs.winsect = FsInfoSect]
             y == OK([DiskWrite(j, FsInfoSect, j.fs.win) EXCEPT !.fs.fsi = 0])
             x == [[w.fs EXCEPT !.win = c] EXCEPT !.winsect = FsInfoSect]
             g == [x EXCEPT !.fsi = 0]
             z == [d EXCEPT !.fs = g]
  <2>4. j = i
    <3> HIDE DEF c
    <3>1. j = [w EXCEPT !.fs.win = c, !.fs.winsect = FsInfoSect]
      BY DEF c
    <3> HIDE DEF j
    <3>2. [w EXCEPT !.fs.win = c, !.fs.winsect = FsInfoSect] = i
      BY <1>3 DEF CallSet, Volumes, FsSet, Placed
    <3> QED
      BY <3>1, <3>2
  <2>5. sync_fs(v) = y
    BY <1>2, <1>5
  <2> HIDE DEF j, c
  <2>6a. /\ Calm(FALSE, w, i) /\ i.fs.win = c
    <3> DEFINE U == {u \in CallSet : ~u.fs.wflag}
    <3>1. ~w.fs.wflag
      BY <1>1, <1>5
    <3>2. \A q \in BOOLEAN : \A u \in Steady(q) :
             ~u.fs.wflag => Calm(q, u, Placed(u, FsInfoSect, c)) /\ Placed(u, FsInfoSect, c).fs.win = c
      BY <2>1, <2>2, <2>3, WindowPut
    <3> HIDE DEF i
    <3> QED
      BY <1>0, <1>3, <3>1, <3>2, Zenon DEF i
  <2>6. /\ i \in CallSet /\ i.fs = x /\ i.disk = w.disk /\ i.media = w.media /\ i.to = w.to
        /\ i.fs.win = c
    <3>1. i \in CallSet
      BY <2>6a, Zenon DEF Calm, Steady
    <3>2. i.fs = x /\ i.disk = w.disk /\ i.media = w.media /\ i.to = w.to
      <4> HIDE DEF x
      <4>1. i = [w EXCEPT !.fs = x]
        BY Zenon DEF Placed, x
      <4> QED
        BY <1>3, <4>1 DEF CallSet
    <3> QED
      BY <2>6a, <3>1, <3>2
  <2>7. y = OK([d EXCEPT !.fs.fsi = 0])
    <3> HIDE DEF i
    <3> QED
      BY <2>4, <2>6
  <2>8. /\ g.wflag = w.fs.wflag /\ g.winsect = FsInfoSect
    <3>1. w.fs \in FsSet
      BY <1>3 DEF Volumes
    <3> QED
      BY <3>1 DEF FsSet
  <2> HIDE DEF y, i, x
  <2>9. /\ d \in CallSet /\ d.fs = i.fs /\ d.to = i.to
        /\ d.res \in {"OK", "DISK_ERR"}
        /\ d.res # "OK" => d.disk = i.disk
        /\ d.res = "OK" => d.disk = [i.disk EXCEPT ![FsInfoSect] = c]
    BY <2>1, <2>2, <2>6, DiskWriteKeeps
  <2>10. /\ d.res # "OK" => SameStore(i, d)
         /\ d.res = "OK" => d.media = i.media \union {d.disk}
    BY <2>1, <2>2, <2>6, DiskWriteMedia
  <2> HIDE DEF d
  <2>11. [d EXCEPT !.fs.fsi = 0] = z
    BY <2>6, <2>9 DEF CallSet, g
  <2> HIDE DEF g
  <2>12. z.fs = g /\ z.disk = d.disk /\ z.media = d.media /\ z.to = d.to
    BY <2>9 DEF CallSet
  <2> HIDE DEF z
  <2> DEFINE o == OK(z)
  <2>13. o.fs = g /\ o.disk = d.disk /\ o.media = d.media /\ o.to = d.to
    <3>1. o = [z EXCEPT !.res = "OK"]
      BY Zenon DEF OK, Res
    <3> QED
      BY <2>12, <3>1
  <2>14. sync_fs(v) = o
    BY <2>5, <2>7, <2>11
  <2> HIDE DEF o
  <2>15. SameHere(w.disk, d.disk)
    <3>1. \A s \in FatSects \union TableArea : s \in Sectors /\ s # FsInfoSect
      BY <2>3, AreasApart
    <3>2. w.disk \in [Sectors -> SectorSet]
      BY <1>3 DEF Cards
    <3>3. CASE d.res = "OK"
      <4> DEFINE e == [w.disk EXCEPT ![FsInfoSect] = c]
      <4>1. \A s \in Sectors : s # FsInfoSect => e[s] = w.disk[s]
        BY <3>2
      <4>2. d.disk = e
        BY <2>6, <2>9, <3>3
      <4> HIDE DEF e
      <4> QED
        BY <3>1, <4>1, <4>2 DEF SameHere
    <3>4. CASE d.res # "OK"
      BY <2>6, <2>9, <3>4 DEF SameHere
    <3> QED
      BY <3>3, <3>4
  <2>16. Sees(w) = w.disk /\ Sees(o) = o.disk /\ ~o.fs.wflag
    <3>1. o \in CallSet
      BY <1>a, <2>14, LiveIs
    <3> QED
      BY <1>1, <1>3, <1>5, <2>8, <2>13, <3>1, SeesIs
  <2>17. \A m \in o.media : m \in w.media \/ SameHere(w.disk, m)
    BY <2>6, <2>9, <2>10, <2>13, <2>15 DEF SameStore
  <2>18. WinTrue(o)
    BY <2>3, <2>8, <2>13, Zenon DEF WinTrue
  <2>19. Looks(w, o)
    BY <2>6, <2>9, <2>13, <2>15, <2>16, <2>17, <2>18 DEF Looks
  <2>20. Looks(v, o)
    BY <1>1, <2>19, LooksOn
  <2> QED
    BY <1>a, <2>14, <2>16, <2>20
<1> QED
  BY <1>4, <1>5

(* A card that differs from another in one table sector with blank slots.  *)
LEMMA UnderBut ==
  ASSUME NEW m, NEW n, NEW s \in TableArea,
         \A t \in FatSects \union TableArea : t # s => n[t] = m[t],
         n[s] = m[s] \/ \A i \in SlotNos : Blank(EntriesOf(n[s])[i])
  PROVE  Under(m, n) /\ SameFatIn(m, n)
<1>0. s \notin FatSects
  BY AreasApart
<1>1. SameFatIn(m, n)
  <2>1. ASSUME NEW c \in RealClusters PROVE FatEntry(n, c) = FatEntry(m, c)
    <3>1. FatBase + c \div FatEntriesPerSector \in FatSects
      BY NumbersApart, FatHasRoom
    <3> DEFINE t == FatBase + c \div FatEntriesPerSector
    <3>2. n[t] = m[t]
      BY <1>0, <3>1
    <3> QED
      BY <3>2 DEF FatEntry
  <2> QED
    BY <2>1 DEF SameFatIn
<1>2. ASSUME NEW a \in Places PROVE At(n, a) = At(m, a) \/ Harmless(At(n, a))
  <2>1. a[1] \in TableArea /\ a[2] \in SlotNos
    BY DEF Places
  <2>2. CASE n[a[1]] = m[a[1]]
    BY <2>2 DEF At
  <2>3. CASE n[a[1]] # m[a[1]]
    <3>1. a[1] = s
      BY <2>1, <2>3
    <3>2. Blank(At(n, a))
      BY <2>1, <2>3, <3>1 DEF At
    <3> QED
      BY <3>2 DEF Blank, Harmless
  <2> QED
    BY <2>2, <2>3
<1> QED
  BY <1>1, <1>2 DEF Under

(* A table sector that is written past the window with blank slots.        *)
LEMMA WriteTableWorks ==
  ASSUME NEW v \in Live, NEW s \in TableArea, NEW c \in TableSet,
         \A i \in SlotNos : Blank(EntriesOf(c)[i]),
         v.fs.winsect = s => v.fs.wflag \/ \A i \in SlotNos : Blank(EntriesOf(v.fs.win)[i])
  PROVE  LET w == DiskWrite(v, s, c)
         IN  /\ w \in Live /\ Works(v, w) /\ w.fs = v.fs /\ w.res \in {"OK", "DISK_ERR"} /\ SameRest(v, w)
             /\ w.res = "OK" => w.disk = [v.disk EXCEPT ![s] = c]
<1> DEFINE w == DiskWrite(v, s, c)
<1>0. v \in CallSet /\ v \in Steady(FALSE) /\ FALSE \in BOOLEAN /\ v.disk \in Cards
  BY LiveIs
<1>1. s \in Sectors /\ s >= RootSect /\ c \in Holds(s) /\ s \notin FatSects
  BY TableHolds
<1>2. /\ w \in CallSet /\ w.fs = v.fs /\ w.to = v.to /\ w.res \in {"OK", "DISK_ERR"} /\ SameRest(v, w)
      /\ w.res = "OK" => w.disk = [v.disk EXCEPT ![s] = c]
  BY <1>0, <1>1, DiskWriteKeeps
<1>3. /\ w.res # "OK" => SameStore(v, w)
      /\ w.res = "OK" => w.media = v.media \union {w.disk}
  BY <1>0, <1>1, DiskWriteMedia
<1>4. w \in Live
  <2>1. Calm(FALSE, v, w)
    BY <1>0, <1>1, WriteElsewhere
  <2> QED
    BY <2>1, GoodLives, Zenon DEF Calm
<1> HIDE DEF w
<1>5. CASE w.res # "OK"
  BY <1>2, <1>3, <1>4, <1>5, StoreLooks DEF w
<1>6. CASE w.res = "OK"
  <2>1. \A t \in Sectors : w.disk[t] = IF t = s THEN c ELSE v.disk[t]
    <3>1. v.disk \in [Sectors -> SectorSet]
      BY <1>0 DEF Cards
    <3> QED
      BY <1>1, <1>2, <1>6, <3>1
  <2>2. /\ \A t \in Sectors : Sees(w)[t] = IF v.fs.wflag /\ t = v.fs.winsect THEN v.fs.win ELSE w.disk[t]
        /\ \A t \in Sectors : Sees(v)[t] = IF v.fs.wflag /\ t = v.fs.winsect THEN v.fs.win ELSE v.disk[t]
    BY <1>0, <1>2, SeesIs
  <2>3. FatSects \union TableArea \subseteq Sectors
    BY AreasApart
  <2>4. Under(v.disk, w.disk) /\ SameFatIn(v.disk, w.disk)
    <3>1. \A t \in FatSects \union TableArea : t # s => w.disk[t] = v.disk[t]
      BY <2>1, <2>3
    <3>2. w.disk[s] = c
      BY <1>1, <2>1
    <3> DEFINE m == v.disk
               n == w.disk
    <3>3. /\ \A t \in FatSects \union TableArea : t # s => n[t] = m[t]
          /\ n[s] = m[s] \/ \A i \in SlotNos : Blank(EntriesOf(n[s])[i])
      BY <3>1, <3>2
    <3> HIDE DEF m, n
    <3>4. Under(m, n) /\ SameFatIn(m, n)
      BY <3>3, UnderBut
    <3> QED
      BY <3>4 DEF m, n
  <2>5. Under(Sees(v), Sees(w)) /\ SameFatIn(Sees(v), Sees(w))
    <3>1. \A t \in FatSects \union TableArea : t # s => Sees(w)[t] = Sees(v)[t]
      BY <2>1, <2>2, <2>3
    <3>2. Sees(w)[s] = Sees(v)[s] \/ Sees(w)[s] = c
      BY <1>1, <2>1, <2>2
    <3> QED
      BY <3>1, <3>2, UnderBut
  <2>6. WinTrue(v) => WinTrue(w)
    <3>1. SUFFICES ASSUME WinTrue(v) PROVE WinTrue(w)
      OBVIOUS
    <3> DEFINE x == v.fs.winsect
    <3>2. CASE x \in FatSects \union TableArea /\ x # s
      <4>1. Sees(w)[x] = Sees(v)[x]
        BY <2>1, <2>2, <2>3, <3>2
      <4> QED
        BY <1>2, <3>1, <4>1 DEF WinTrue, At
    <3>3. CASE x = s /\ v.fs.wflag
      <4>1. Sees(w)[x] = v.fs.win
        BY <1>1, <2>2, <3>3
      <4> QED
        BY <1>2, <4>1 DEF WinTrue, At
    <3>4. CASE x = s /\ ~v.fs.wflag
      BY <1>1, <1>2, <3>4 DEF WinTrue
    <3>5. CASE x \notin FatSects \union TableArea
      BY <1>2, <3>5 DEF WinTrue
    <3> QED
      BY <3>2, <3>3, <3>4, <3>5
  <2>7. ASSUME NEW P \in SUBSET RealClusters, NEW X \in SUBSET Places, Sane(v, P, X)
        PROVE  Sane(w, P, X)
    <3>1. Kept(Sees(v), P, X) /\ Kept(v.disk, {}, X) /\ (\A d \in v.media : Kept(d, {}, X)) /\ WinTrue(v)
      BY <2>7 DEF Sane
    <3>2. Kept(Sees(w), P, X) /\ Kept(w.disk, {}, X)
      BY <2>4, <2>5, <3>1, KeptUnder
    <3>3. \A d \in w.media : Kept(d, {}, X)
      BY <1>3, <1>6, <3>1, <3>2
    <3> QED
      BY <2>6, <3>1, <3>2, <3>3 DEF Sane
  <2>8. LinksKept(Sees(v), Sees(w))
    BY <2>5 DEF SameFatIn, LinksKept
  <2>9. Works(v, w)
    BY <1>2, <2>7, <2>8, Zenon DEF Works
  <2> QED
    BY <1>2, <1>4, <2>9 DEF w
<1> QED
  BY <1>5, <1>6

(* One sector of several.                                                  *)
WriteOne(u, s, c, k) == Then(DiskWrite(u, s + k - 1, c[k]), Again)

(* The rule for the loop that writes sectors, which counts them.             *)
WritesOn(s, c, z, V, W) ==
  \A u \in V : \A k \in 1..z :
     /\ u.res = GO => WriteOne(u, s, c, k) \in V
     /\ WriteOne(u, s, c, k).res = GO /\ u.res = GO /\ <<u, k - 1>> \in W => <<WriteOne(u, s, c, k), k>> \in W

(* The loop over the sectors of a cluster, and what it keeps. *)
LEMMA WriteSectorsLoop ==
  ASSUME NEW v, NEW s, NEW c, NEW z \in Nat, NEW V, Again(v) \in V,
         NEW W, <<Again(v), 0>> \in W, WritesOn(s, c, z, V, W)
  PROVE  \E e \in V : /\ WriteSectors(v, s, c, z) = IF e.res = GO THEN Res(e, "OK") ELSE e
                      /\ e.res = GO => <<e, z>> \in W
<1> DEFINE n == z
           a == Again(v)
           B(u, k) == IF u.res = GO THEN WriteOne(u, s, c, k) ELSE u
           F(h) == [k \in 0..n |-> IF k = 0 THEN a ELSE B(h[k - 1], k)]
           at == CHOOSE h : h = F(h)
           G == [p \in V \X (1..n) |-> B(p[1], p[2])]
<1>1. n \in Nat /\ a \in V
  BY Zenon
<1>2. \A u \in V : \A k \in 1..n : B(u, k) \in V
  BY Zenon DEF WritesOn
<1>3. WriteSectors(v, s, c, z) = IF at[n].res = GO THEN Res(at[n], "OK") ELSE at[n]
  BY Zenon DEF WriteSectors, WriteOne, Rounds, With
<1> HIDE DEF a, B, n
<1>4. G \in [V \X (1..n) -> V] /\ \A u \in V : \A k \in 1..n : G[<<u, k>>] = B(u, k)
  BY <1>2
<1> HIDE DEF G
<1>5. PICK g \in [0..n -> V] : Runs(g, V, a, G, n)
  BY <1>1, <1>4, LoopRuns, Zenon
<1>6. g = F(g)
  <2>1. \A k \in 1..n : g[k] = B(g[k - 1], k)
    BY <1>4, <1>5, Zenon DEF Runs
  <2>2. \A k \in 0..n : g[k] = IF k = 0 THEN a ELSE B(g[k - 1], k)
    BY <1>5, <2>1 DEF Runs
  <2> QED
    BY <2>2
<1>7. at = F(at)
  BY <1>6
<1> HIDE DEF at
<1>8. at[0] = a /\ \A k \in 1..n : at[k] = B(at[k - 1], k)
  BY <1>1, <1>7
<1>9. at[n] \in V
  <2>1. \A k \in 1..n : at[k - 1] \in V => at[k] \in V
    BY <1>2, <1>8, Zenon
  <2> QED
    BY <1>1, <1>8, <2>1, LoopStays, Zenon
<1> DEFINE Z == {p \in V \X (0..n) : p[1].res = GO => p \in W}
           h == [k \in 0..n |-> <<at[k], k>>]
<1>10. <<a, 0>> \in W /\ \A u \in V : \A k \in 1..n : u.res = GO /\ B(u, k).res = GO /\ <<u, k - 1>> \in W => <<B(u, k), k>> \in W
  BY Zenon DEF a, B, n, WritesOn
<1>11. h[0] \in Z
  <2>1. h[0] = <<a, 0>> /\ a \in V /\ 0 \in 0..n
    BY <1>1, <1>8
  <2> HIDE DEF h
  <2> QED
    BY <1>10, <2>1
<1>12. ASSUME NEW k \in 1..n, h[k - 1] \in Z PROVE h[k] \in Z
  <2>1. k - 1 \in 0..n /\ k \in 0..n
    BY <1>1
  <2>2. h[k - 1] = <<at[k - 1], k - 1>> /\ h[k] = <<B(at[k - 1], k), k>>
    BY <1>8, <2>1
  <2> HIDE DEF h, Z
  <2>3. at[k - 1] \in V /\ (at[k - 1].res = GO => <<at[k - 1], k - 1>> \in W)
    BY <1>12, <2>2 DEF Z
  <2> DEFINE y == at[k - 1]
             b == B(y, k)
  <2>4. b \in V
    BY <1>2, <2>3
  <2>5. b.res = GO => <<b, k>> \in W
    <3>1. CASE y.res = GO
      BY <1>10, <2>3, <3>1, Zenon
    <3>2. CASE y.res # GO
      <4>1. b = y
        BY <3>2, Zenon DEF B
      <4> QED
        BY <3>2, <4>1
    <3> QED
      BY <3>1, <3>2
  <2>6. h[k] = <<b, k>>
    BY <2>2
  <2> HIDE DEF b
  <2>7. <<b, k>> \in V \X (0..n)
    BY <2>1, <2>4
  <2> QED
    BY <2>5, <2>6, <2>7 DEF Z
<1> HIDE DEF Z
<1>13. h[n] \in Z
  <2> HIDE DEF h
  <2> QED
    BY <1>1, <1>11, <1>12, LoopStays, Zenon
<1>14. at[n].res = GO => <<at[n], n>> \in W
  <2>1. h[n] = <<at[n], n>>
    BY <1>1
  <2> HIDE DEF h
  <2> QED
    BY <1>13, <2>1 DEF Z
<1> QED
  BY <1>3, <1>9, <1>14 DEF n
(* Several such sectors. *)
LEMMA WriteSectorsWorks ==
  ASSUME NEW v \in Live, NEW s \in Nat, NEW c, NEW z \in Nat,
         \A i \in 1..z : /\ s + i - 1 \in TableArea /\ c[i] \in TableSet
                         /\ \A j \in SlotNos : Blank(EntriesOf(c[i])[j]),
         v.fs.wflag \/ \A i \in SlotNos : Blank(EntriesOf(v.fs.win)[i])
  PROVE  LET w == WriteSectors(v, s, c, z)
         IN  /\ w \in Live /\ Works(v, w) /\ w.fs = v.fs /\ w.res \in {"OK", "DISK_ERR"} /\ SameRest(v, w)
             /\ w.res = "OK" => \A i \in 1..z : w.disk[s + i - 1] = c[i]
<1> DEFINE V == {u \in Live : Works(v, u) /\ u.fs = v.fs /\ u.res \in {GO, "DISK_ERR"} /\ SameRest(v, u)}
           W == {p \in V \X Nat : \A i \in 1..p[2] : p[1].disk[s + i - 1] = c[i]}
<1>1. Again(v) \in V /\ <<Again(v), 0>> \in W
  <2>1. Again(v) \in Live /\ Again(v).res = GO /\ SameStore(v, Again(v)) /\ SameRest(v, Again(v))
    BY AgainLive DEF SameRest, SameWork
  <2>2. Again(v) \in V
    BY <2>1, StoreLooks DEF SameStore
  <2> HIDE DEF V
  <2> QED
    BY <2>2
<1>2. ASSUME NEW u \in V, NEW k \in 1..z
      PROVE  /\ WriteOne(u, s, c, k) \in V
             /\ WriteOne(u, s, c, k).res = GO /\ <<u, k - 1>> \in W => <<WriteOne(u, s, c, k), k>> \in W
  <2> DEFINE d == DiskWrite(u, s + k - 1, c[k])
             t == s + k - 1
             w == WriteOne(u, s, c, k)
  <2>1. t \in TableArea /\ c[k] \in TableSet /\ \A i \in SlotNos : Blank(EntriesOf(c[k])[i])
    OBVIOUS
  <2>2. u \in Live /\ Works(v, u) /\ u.fs = v.fs /\ SameRest(v, u)
    OBVIOUS
  <2>3. /\ d \in Live /\ Works(u, d) /\ d.fs = u.fs /\ d.res \in {"OK", "DISK_ERR"} /\ SameRest(u, d)
        /\ d.res = "OK" => d.disk = [u.disk EXCEPT ![t] = c[k]]
    <3> HIDE DEF V, W, t
    <3>1. u.fs.winsect = t => u.fs.wflag \/ \A i \in SlotNos : Blank(EntriesOf(u.fs.win)[i])
      BY <2>2
    <3> QED
      BY <2>1, <2>2, <3>1, WriteTableWorks DEF t
  <2> HIDE DEF d
  <2>4. Works(v, d) /\ SameRest(v, d)
    BY <2>2, <2>3, WorksOn DEF SameRest, SameWork
  <2>5. w = IF d.res = "OK" THEN Again(d) ELSE d
    BY Zenon DEF Then, WriteOne, d
  <2>6. /\ Again(d) \in Live /\ Again(d).res = GO /\ SameStore(d, Again(d)) /\ SameRest(d, Again(d))
    BY <2>3, AgainLive DEF SameRest, SameWork
  <2>7. Again(d) \in V
    <3>1. Works(v, Again(d))
      BY <2>4, <2>6, StoreLooks, WorksOn
    <3> QED
      BY <2>2, <2>3, <2>4, <2>6, <3>1 DEF SameStore, SameRest, SameWork
  <2>8. d.res # "OK" => d \in V
    BY <2>2, <2>3, <2>4
  <2> HIDE DEF w
  <2>9. w \in V
    <3> HIDE DEF V
    <3> QED
      BY <2>5, <2>7, <2>8
  <2>10. ASSUME <<u, k - 1>> \in W, d.res = "OK" PROVE <<w, k>> \in W
    <3>0. k \in Nat /\ k <= z /\ 1 <= k
      OBVIOUS
    <3>b. \A i \in 1..k : i \in 1..z
      BY <3>0
    <3>1. \A i \in 1..k - 1 : u.disk[s + i - 1] = c[i]
      BY <2>10
    <3>2. w.disk = [u.disk EXCEPT ![t] = c[k]]
      BY <2>3, <2>5, <2>6, <2>10 DEF SameStore
    <3>3. u.disk \in [Sectors -> SectorSet] /\ t \in Sectors
      <4>1. u.disk \in Cards /\ t \in Sectors
        BY <2>1, <2>2, LiveIs, TableHolds
      <4> QED
        BY <4>1 DEF Cards
    <3>4. \A y \in Sectors : w.disk[y] = IF y = t THEN c[k] ELSE u.disk[y]
      BY <3>2, <3>3
    <3>5. \A i \in 1..k : s + i - 1 \in Sectors
      <4>1. \A i \in 1..k : s + i - 1 \in TableArea
        BY <3>b
      <4> QED
        BY <4>1, TableHolds
    <3>6. \A i \in 1..k : w.disk[s + i - 1] = c[i]
      <4>1. \A i \in 1..k : i = k \/ (i \in 1..k-1 /\ s + i - 1 # t)
        OBVIOUS
      <4> QED
        BY <3>1, <3>4, <3>5, <4>1
    <3>7. <<w, k>> \in V \X Nat
      BY <2>9
    <3> QED
      BY <3>6, <3>7
  <2>11. w.res = GO => d.res = "OK"
    BY <2>3, <2>5 DEF GO
  <2> HIDE DEF V, W
  <2> QED
    BY <2>9, <2>10, <2>11 DEF w
<1>3. WritesOn(s, c, z, V, W)
  <2> HIDE DEF V, W
  <2> QED
    BY <1>2, Zenon DEF WritesOn
<1>4. <<Again(v), 0>> \in W /\ Again(v) \in V
  BY <1>1
<1> HIDE DEF V, W
<1>5. PICK e \in V : /\ WriteSectors(v, s, c, z) = IF e.res = GO THEN Res(e, "OK") ELSE e
                     /\ e.res = GO => <<e, z>> \in W
  BY <1>3, <1>4, WriteSectorsLoop
<1> USE DEF V, W
<1>6. e \in Live /\ Works(v, e) /\ e.fs = v.fs /\ e.res \in {GO, "DISK_ERR"} /\ SameRest(v, e)
  OBVIOUS
<1>7. CASE e.res = GO
  <2>1. WriteSectors(v, s, c, z) = Res(e, "OK")
    BY <1>5, <1>7
  <2>2. /\ Res(e, "OK") \in Live /\ SameStore(e, Res(e, "OK")) /\ Res(e, "OK").res = "OK"
        /\ SameRest(e, Res(e, "OK"))
    <3> HIDE DEF V, W
    <3> QED
      BY <1>6, ResLive, ResultsAre DEF SameRest, SameWork
  <2>3. Works(v, Res(e, "OK"))
    BY <1>6, <2>2, StoreLooks, WorksOn
  <2>4. \A i \in 1..z : e.disk[s + i - 1] = c[i]
    BY <1>5, <1>7
  <2> QED
    BY <1>6, <2>1, <2>2, <2>3, <2>4 DEF SameStore, SameRest, SameWork
<1>8. CASE e.res # GO
  BY <1>5, <1>6, <1>8
<1> QED
  BY <1>7, <1>8

-----------------------------------------------------------------------------
(* Directories.                                                            *)
SameName(x, y) == /\ y.fn = x.fn /\ y.dot = x.dot /\ y.last = x.last
                  /\ y.origin = x.origin /\ y.sclust = x.sclust
(* A step that moves the DIR of a name, and reads, *)
Seeks(v, w) == w \in Live /\ Looks(v, w) /\ SameName(v.dp, w.dp)
(* Or that may also add a cluster to its table.    *)
Roams(v, w) == w \in Live /\ Works(v, w) /\ SameName(v.dp, w.dp)

(* Two searches are one. *)
LEMMA SeeksOn ==
  ASSUME NEW v, NEW w, NEW u
  PROVE  /\ Seeks(v, w) /\ Seeks(w, u) => Seeks(v, u)
         /\ Roams(v, w) /\ Roams(w, u) => Roams(v, u)
         /\ Seeks(v, w) => Roams(v, w)
<1>1. ASSUME Seeks(v, w), Seeks(w, u) PROVE Seeks(v, u)
  <2>1. Looks(v, u)
    BY <1>1, LooksOn DEF Seeks
  <2> QED
    BY <1>1, <2>1 DEF Seeks, SameName
<1>2. ASSUME Roams(v, w), Roams(w, u) PROVE Roams(v, u)
  <2>1. Works(v, u)
    BY <1>2, WorksOn DEF Roams
  <2> QED
    BY <1>2, <2>1 DEF Roams, SameName
<1>3. Seeks(v, w) => Roams(v, w)
  BY LooksWorks DEF Seeks, Roams
<1> QED
  BY <1>1, <1>2, <1>3

(* To do nothing is to search. *)
LEMMA SeeksSelf ==
  ASSUME NEW v \in Live
  PROVE  Seeks(v, v)
BY DEF Seeks, Looks, SameName, SameHere

(* Another DIR, *)
LEMMA DpLive ==
  ASSUME NEW v \in Live, NEW x \in DirSet
  PROVE  LET w == WithDp(v, x)
         IN  /\ w \in Live /\ SameStore(v, w) /\ w.dp = x /\ w.res = v.res /\ w.ret = v.ret
             /\ w.fs = v.fs /\ SameFile(v, w) /\ w.n = v.n
<1> DEFINE w == WithDp(v, x)
<1>1. v \in Good(FALSE) /\ v \in CallSet /\ FALSE \in BOOLEAN
  BY LiveIs
<1>2. /\ w \in CallSet /\ w.dp = x /\ w.res = v.res /\ w.ret = v.ret
      /\ SameFile(v, w) /\ SameCard(v, w)
  BY <1>1, DpSet
<1>3. SameStore(v, w) /\ w.n = v.n
  BY <1>1, FieldsStore DEF WithDp, CallSet
<1> HIDE DEF w
<1>4. w \in Good(FALSE)
  BY <1>1, <1>2, SameCardKeeps
<1>5. w \in Live
  BY <1>4, GoodLives
<1> QED
  BY <1>2, <1>3, <1>5 DEF w, SameStore

(* A search moves the DIR, *)
LEMMA SeeksDp ==
  ASSUME NEW v, NEW u, NEW x \in DirSet, SameName(u.dp, x)
  PROVE  LET w == WithDp(u, x)
         IN  /\ Seeks(v, u) => Seeks(v, w)
             /\ Roams(v, u) => Roams(v, w)
             /\ u \in Live => w \in Live /\ w.dp = x /\ w.res = u.res /\ w.ret = u.ret /\ w.fs = u.fs
<1> DEFINE w == WithDp(u, x)
<1>1. u \in Live => /\ w \in Live /\ w.dp = x /\ w.res = u.res /\ w.ret = u.ret /\ w.fs = u.fs
                    /\ SameStore(u, w)
  BY DpLive
<1> HIDE DEF w
<1>2. u \in Live => Seeks(u, w)
  BY <1>1, StoreLooks DEF Seeks
<1> QED
  BY <1>1, <1>2, SeeksOn DEF w, Seeks, Roams

(* Or another result makes no difference. *)
LEMMA SeeksRes ==
  ASSUME NEW v, NEW u, NEW r \in Results
  PROVE  LET w == Res(u, r)
         IN  /\ Seeks(v, u) => Seeks(v, w)
             /\ Roams(v, u) => Roams(v, w)
             /\ u \in Live => w \in Live /\ w.dp = u.dp /\ w.res = r /\ w.ret = u.ret /\ w.fs = u.fs
<1> DEFINE w == Res(u, r)
<1>1. u \in Live => /\ w \in Live /\ w.dp = u.dp /\ w.res = r /\ w.ret = u.ret /\ SameStore(u, w)
  BY ResLive
<1> HIDE DEF w
<1>2. u \in Live => Seeks(u, w)
  BY <1>1, StoreLooks DEF Seeks, SameName
<1> QED
  BY <1>1, <1>2, SeeksOn DEF w, Seeks, Roams, SameStore

(* To read the FAT, or a sector into the window, moves no DIR.             *)
LEMMA GetFatSeeks ==
  ASSUME NEW v \in Live, NEW c \in Int
  PROVE  Seeks(v, get_fat(v, c)) /\ get_fat(v, c).dp = v.dp
<1> DEFINE w == get_fat(v, c)
<1>1. SameWork(v, w)
  BY GetFatWork
<1>2. Looks(v, w) /\ w \in Live
  BY GetFatLooks
<1> HIDE DEF w
<1> QED
  BY <1>1, <1>2 DEF w, Seeks, SameWork, SameName

(* and the window, *)
LEMMA MoveSeeks ==
  ASSUME NEW v \in Live, NEW s \in WinSects
  PROVE  LET w == move_window(v, s)
         IN  /\ Seeks(v, w) /\ w.dp = v.dp /\ w.ret = v.ret /\ w.res \in {"OK", "DISK_ERR"}
             /\ w.res = "OK" => w.fs.winsect = s
<1> DEFINE w == move_window(v, s)
<1>0. v \in Steady(FALSE) /\ FALSE \in BOOLEAN
  BY LiveIs
<1>1. /\ SameRest(v, w) /\ w.res \in {"OK", "DISK_ERR"}
      /\ w.res = "OK" => w.fs.winsect = s
  BY <1>0, MoveWindowKeeps
<1>2. Looks(v, w) /\ w \in Live
  BY MoveWindowLooks
<1> HIDE DEF w
<1> QED
  BY <1>1, <1>2 DEF w, Seeks, SameRest, SameWork, SameName

(* Along a table's chain only the FAT is read. *)
LEMMA TableHopSeeks ==
  ASSUME NEW v \in Live
  PROVE  LET w == TableHop(v)
         IN  /\ Seeks(v, w) /\ w.dp = v.dp /\ w.res \in {GO, "INT_ERR", "DISK_ERR"}
             /\ w.res = GO => w.ret \in RealClusters
<1> DEFINE g == get_fat(v, v.ret)
           x == Res(g, "DISK_ERR")
           y == Res(g, "INT_ERR")
           z == Res(g, GO)
           w == TableHop(v)
<1>1. w = IF g.ret = DISKERR THEN x ELSE IF g.ret < 2 \/ g.ret >= NFatEnt THEN y ELSE z
  BY Zenon DEF TableHop, With, Again
<1>0. v.ret \in Int /\ v \in Steady(FALSE) /\ FALSE \in BOOLEAN
  BY LiveIs
<1>2. Seeks(v, g) /\ g.dp = v.dp /\ v \in Steady(FALSE) /\ FALSE \in BOOLEAN /\ g \in Live
  <2> DEFINE c == v.ret
  <2> HIDE DEF c
  <2>1. Seeks(v, get_fat(v, c)) /\ get_fat(v, c).dp = v.dp
    BY <1>0, GetFatSeeks DEF c
  <2> QED
    BY <1>0, <2>1 DEF c, Seeks
<1>3. w.res \in {GO, "INT_ERR", "DISK_ERR"} /\ (w.res = GO => w.ret \in RealClusters)
  BY <1>2, TableHopKeeps
<1> HIDE DEF g, w
<1>4. /\ Seeks(v, x) /\ x.dp = v.dp /\ Seeks(v, y) /\ y.dp = v.dp
      /\ Seeks(v, z) /\ z.dp = v.dp
  <2>1. \A r \in Results : Seeks(v, Res(g, r)) /\ Res(g, r).dp = g.dp
    BY <1>2, SeeksRes
  <2> QED
    BY <1>2, <2>1, ResultsAre
<1> HIDE DEF x, y, z
<1> QED
  BY <1>1, <1>3, <1>4 DEF w

(* to an entry in a cluster, *)
LEMMA AtEntrySeeks ==
  ASSUME NEW v \in Live, v.ret \in ClusterNos, NEW ofs \in Nat, v.dp.dptr = ofs
  PROVE  Seeks(v, AtEntry(v, ofs))
<1> DEFINE c == v.ret
           top == clst2sect(c)
           k == (ofs \div DirEntriesPerSector) % ClusterSectors
           s == IF top = 0 THEN 0 ELSE top + k
           x == [[v.dp EXCEPT !.clust = c] EXCEPT !.sect = s]
           u == WithDp(v, x)
           r == IF top = 0 THEN "INT_ERR" ELSE "OK"
           w == AtEntry(v, ofs)
<1>0. v \in CallSet /\ v.dp \in DirSet /\ v \in Steady(FALSE) /\ FALSE \in BOOLEAN
  BY LiveIs
<1>1. w = Res(u, r)
  <2> DEFINE j == [v EXCEPT !.dp.clust = v.ret, !.dp.sect = IF top = 0 THEN 0 ELSE top + k]
  <2>1. AtEntry(v, ofs) = Res(j, r)
    BY Zenon DEF AtEntry
  <2>2. j = u
    <3> HIDE DEF top, k
    <3> QED
      BY <1>0 DEF CallSet, WithDp, DirSet
  <2> QED
    BY <2>1, <2>2
<1>2. w \in Live
  BY <1>0, AtEntryKeeps, GoodLives DEF Calm
<1>3. SameName(v.dp, x)
  <2> HIDE DEF s, c
  <2> QED
    BY <1>0 DEF DirSet, SameName
<1> HIDE DEF x, r
<1>4. SameStore(v, u) /\ SameStore(u, Res(u, r)) /\ Res(u, r).dp = x
  <2>1. SameStore(v, u) /\ u.dp = x
    BY <1>0, FieldsStore DEF WithDp, CallSet
  <2>2. Res(u, r) = [u EXCEPT !.res = r]
    BY Zenon DEF Res
  <2> HIDE DEF u
  <2>3. SameStore(u, [u EXCEPT !.res = r]) /\ [u EXCEPT !.res = r].dp = u.dp
    BY DEF SameStore
  <2> QED
    BY <2>1, <2>2, <2>3
<1> HIDE DEF u, w
<1>5. SameStore(v, w)
  BY <1>1, <1>4, StoreOn
<1> QED
  BY <1>1, <1>2, <1>3, <1>4, <1>5, StoreLooks DEF w, Seeks

TableHops(v, c, n) == Rounds(Ret(v, c), LAMBDA u, k : TableHop(u), n, "OK")
(* The rule for the loop along a table's chain.                             *)
LEMMA TableHopsLoop ==
  ASSUME NEW v, NEW c, NEW z \in Nat, NEW V, Again(Ret(v, c)) \in V,
         \A u \in V : \A k \in 1..z : u.res = GO => TableHop(u) \in V
  PROVE  \E e \in V : TableHops(v, c, z) = IF e.res = GO THEN Res(e, "OK") ELSE e
<1> DEFINE n == z
           a == Again(Ret(v, c))
           B(u, k) == IF u.res = GO THEN TableHop(u) ELSE u
           F(h) == [k \in 0..n |-> IF k = 0 THEN a ELSE B(h[k - 1], k)]
           at == CHOOSE h : h = F(h)
           G == [p \in V \X (1..n) |-> B(p[1], p[2])]
<1>1. n \in Nat /\ a \in V
  BY Zenon
<1>2. \A u \in V : \A k \in 1..n : B(u, k) \in V
  OBVIOUS
<1>3. TableHops(v, c, z) = IF at[n].res = GO THEN Res(at[n], "OK") ELSE at[n]
  BY Zenon DEF TableHops, Rounds, With
<1> HIDE DEF a, B, n
<1>4. G \in [V \X (1..n) -> V] /\ \A u \in V : \A k \in 1..n : G[<<u, k>>] = B(u, k)
  BY <1>2
<1> HIDE DEF G
<1>5. PICK g \in [0..n -> V] : Runs(g, V, a, G, n)
  BY <1>1, <1>4, LoopRuns, Zenon
<1>6. g = F(g)
  <2>1. \A k \in 1..n : g[k] = B(g[k - 1], k)
    BY <1>4, <1>5, Zenon DEF Runs
  <2>2. \A k \in 0..n : g[k] = IF k = 0 THEN a ELSE B(g[k - 1], k)
    BY <1>5, <2>1 DEF Runs
  <2> QED
    BY <2>2
<1>7. at = F(at)
  BY <1>6
<1> HIDE DEF at
<1>8. at[0] = a /\ \A k \in 1..n : at[k] = B(at[k - 1], k)
  BY <1>1, <1>7
<1>9. at[n] \in V
  <2>1. \A k \in 1..n : at[k - 1] \in V => at[k] \in V
    BY <1>2, <1>8, Zenon
  <2> QED
    BY <1>1, <1>8, <2>1, LoopStays, Zenon
<1> QED
  BY <1>3, <1>9, Zenon

(* along the chain of its table. *)
LEMMA FollowTableSeeks ==
  ASSUME NEW v \in Live, NEW c \in ClusterNos, NEW ofs \in Nat, v.dp.dptr = ofs
  PROVE  Seeks(v, FollowTable(v, c, ofs))
<1> DEFINE n == ofs \div (DirEntriesPerSector * ClusterSectors)
           R == TableHops(v, c, n)
           w == AtEntry(R, ofs)
           V == {u \in Live : /\ Seeks(v, u) /\ u.dp = v.dp /\ u.res \in {GO, "INT_ERR", "DISK_ERR"}
                              /\ u.res = GO => u.ret \in ClusterNos}
<1>1. FollowTable(v, c, ofs) = IF R.res = "OK" THEN w ELSE R
  BY Zenon DEF FollowTable, Then, TableHops
<1>2. n \in Nat
  <2>1. \A i, j \in Nat \ {0} : i * j \in Nat \ {0}
    OBVIOUS
  <2>2. \A i \in Nat, j \in Nat \ {0} : i \div j \in Nat
    OBVIOUS
  <2>3. DirEntriesPerSector * ClusterSectors \in Nat \ {0}
    BY <2>1, GeometryAssumption
  <2> QED
    BY <2>2, <2>3
<1> HIDE DEF n
<1>3. Again(Ret(v, c)) \in V
  <2>1. c \in Nat
    BY LayoutIs DEF ClusterNos
  <2> DEFINE r == Ret(v, c)
             a == Again(r)
  <2>2. r \in Live /\ SameStore(v, r) /\ r.ret = c /\ r.dp = v.dp
    BY <2>1, RetLive
  <2> HIDE DEF r
  <2>3. a \in Live /\ SameStore(r, a) /\ a.ret = r.ret /\ a.dp = r.dp /\ a.res = GO
    BY <2>2, AgainLive
  <2> HIDE DEF a
  <2>4. SameStore(v, a)
    BY <2>2, <2>3, StoreOn
  <2>5. Seeks(v, a)
    BY <2>2, <2>3, <2>4, StoreLooks DEF Seeks, SameName
  <2> QED
    BY <2>2, <2>3, <2>5 DEF r, a
<1>4. \A u \in V : u.res = GO => TableHop(u) \in V
  <2>1. ASSUME NEW u \in V PROVE TableHop(u) \in V
    <3> DEFINE y == TableHop(u)
    <3>1. /\ Seeks(u, y) /\ y.dp = u.dp /\ y.res \in {GO, "INT_ERR", "DISK_ERR"}
          /\ y.res = GO => y.ret \in RealClusters
      BY TableHopSeeks
    <3> HIDE DEF y
    <3>2. Seeks(v, y) /\ y \in Live
      BY <3>1, SeeksOn DEF Seeks
    <3> QED
      BY <3>1, <3>2, NumbersApart DEF y
  <2> QED
    BY <2>1
<1> HIDE DEF V
<1>5. PICK e \in V : R = IF e.res = GO THEN Res(e, "OK") ELSE e
  BY <1>2, <1>3, <1>4, TableHopsLoop
<1>6. /\ Seeks(v, e) /\ e.dp = v.dp /\ e.res \in {GO, "INT_ERR", "DISK_ERR"}
      /\ e.res = GO => e.ret \in ClusterNos
  BY DEF V
<1> HIDE DEF R
<1>7. /\ Seeks(v, R) /\ R.dp = v.dp
      /\ R.res = "OK" => R.ret \in ClusterNos
  BY <1>5, <1>6, SeeksRes, ResultsAre DEF Seeks, GO
<1>8. CASE R.res = "OK"
  <2>1. Seeks(R, w)
    BY <1>7, <1>8, AtEntrySeeks DEF Seeks
  <2> HIDE DEF w
  <2> QED
    BY <1>1, <1>7, <1>8, <2>1, SeeksOn
<1>9. CASE R.res # "OK"
  BY <1>1, <1>7, <1>9
<1> QED
  BY <1>8, <1>9

(* To the start of a directory, or to any entry, only reads. *)
LEMMA DirSdiSeeks ==
  ASSUME NEW v \in Live, NEW ofs \in Nat
  PROVE  LET w == dir_sdi(v, ofs)
         IN  Seeks(v, w) /\ (w.res = "OK" => InTable(w.dp)) /\ w.res \in {"OK", "INT_ERR", "DISK_ERR"}
<1> DEFINE x == [v.dp EXCEPT !.dptr = ofs]
           u == WithDp(v, x)
           top == IF v.dp.sclust = 0 /\ FatType = 3 THEN RootClust ELSE v.dp.sclust
           f == FollowTable(u, top, ofs)
           s == RootSect + ofs \div DirEntriesPerSector
           y == [[x EXCEPT !.clust = 0] EXCEPT !.sect = s]
           m == WithDp(u, y)
           w == dir_sdi(v, ofs)
<1>0. v \in CallSet /\ v.dp \in DirSet /\ v \in Steady(FALSE) /\ FALSE \in BOOLEAN
  BY LiveIs
<1>a. w.res \in {"OK", "INT_ERR", "DISK_ERR"} /\ (w.res = "OK" => InTable(w.dp))
  BY <1>0, DirSdiKeeps
<1>1. w = IF ofs >= MAX_DIR THEN Res(v, "INT_ERR")
                        ELSE IF top # 0 THEN f ELSE IF ofs >= RootEntries THEN Res(u, "INT_ERR")
                        ELSE OK([u EXCEPT !.dp.clust = 0, !.dp.sect = s])
  <2>1. [v EXCEPT !.dp.dptr = ofs] = u
    BY <1>0 DEF CallSet, WithDp
  <2> DEFINE j == [v EXCEPT !.dp.dptr = ofs]
  <2>2. dir_sdi(v, ofs) = IF ofs >= MAX_DIR THEN Res(v, "INT_ERR")
                          ELSE IF top # 0 THEN FollowTable(j, top, ofs)
                          ELSE IF ofs >= RootEntries THEN Res(j, "INT_ERR")
                          ELSE OK([j EXCEPT !.dp.clust = 0, !.dp.sect = s])
    BY Zenon DEF dir_sdi
  <2> HIDE DEF u
  <2> QED
    BY <2>1, <2>2, Zenon
<1>2. x \in DirSet /\ x.dptr = ofs /\ SameName(v.dp, x)
  BY <1>0 DEF DirSet, SameName
<1> HIDE DEF x
<1>3. Seeks(v, u) /\ u \in Live /\ u.dp = x /\ u \in CallSet
  <2>1. Seeks(v, u) /\ u \in Live /\ u.dp = x
    BY <1>2, SeeksDp, SeeksSelf
  <2> QED
    BY <2>1, LiveIs
<1> HIDE DEF u, w
<1>b. CASE ofs >= MAX_DIR
  <2>1. Seeks(v, Res(v, "INT_ERR"))
    BY SeeksSelf, SeeksRes, ResultsAre
  <2>2. w = Res(v, "INT_ERR")
    BY <1>1, <1>b, Zenon
  <2> QED
    BY <1>a, <2>1, <2>2 DEF w
<1> SUFFICES ASSUME ~(ofs >= MAX_DIR)
             PROVE  LET W == dir_sdi(v, ofs)
                    IN  Seeks(v, W) /\ (W.res = "OK" => InTable(W.dp))
                        /\ W.res \in {"OK", "INT_ERR", "DISK_ERR"}
  BY <1>b
<1>4. top \in ClusterNos
  BY <1>0, LayoutIs DEF DirSet, RootClust, ClusterNos
<1> HIDE DEF top
<1>5. CASE top # 0
  <2>1. Seeks(u, f)
    BY <1>2, <1>3, <1>4, FollowTableSeeks
  <2> HIDE DEF f
  <2> QED
    BY <1>a, <1>1, <1>3, <1>5, <2>1, SeeksOn DEF w
<1>6. CASE top = 0 /\ ofs >= RootEntries
  <2>1. Seeks(v, Res(u, "INT_ERR"))
    BY <1>3, SeeksRes, ResultsAre
  <2> QED
    BY <1>a, <1>1, <1>6, <2>1 DEF w
<1>7. CASE top = 0 /\ ~(ofs >= RootEntries)
  <2>1. ofs < RootEntries /\ s \in TableArea
    <3>1. ofs < RootEntries
      <4>1. RootEntries \in Nat
        BY GeometryAssumption
      <4>2. ~(ofs >= RootEntries)
        BY <1>7
      <4> HIDE DEF s, y, m, f
      <4> QED
        BY <4>1, <4>2
    <3> QED
      BY <3>1, RootSlot, Zenon
  <2>2. y \in DirSet /\ SameName(x, y)
    <3>2. 0 \in ClusterNos
      BY LayoutIs DEF ClusterNos
    <3> HIDE DEF s
    <3> QED
      BY <1>2, <2>1, <3>2 DEF DirSet, SameName
  <2>3. [u EXCEPT !.dp.clust = 0, !.dp.sect = s] = m
    <3> HIDE DEF s
    <3>2. \A c, t : [u EXCEPT !.dp.clust = c, !.dp.sect = t]
                         = WithDp(u, [[u.dp EXCEPT !.clust = c] EXCEPT !.sect = t])
      BY <1>3 DEF CallSet, DirSet, WithDp
    <3>3. m = WithDp(u, [[u.dp EXCEPT !.clust = 0] EXCEPT !.sect = s])
      BY <1>3, Zenon
    <3> QED
      BY <3>2, <3>3, Zenon
  <2> HIDE DEF y
  <2>4. Seeks(v, m)
    BY <1>3, <2>2, SeeksDp
  <2> HIDE DEF m
  <2>5. Seeks(v, Res(m, "OK"))
    BY <2>4, SeeksRes, ResultsAre
  <2>6. w = Res(m, "OK")
    BY <1>1, <1>7, <2>3 DEF OK
  <2> QED
    BY <1>a, <2>5, <2>6 DEF w
<1> QED
  BY <1>5, <1>6, <1>7

-----------------------------------------------------------------------------
(* The window over an empty table's sector that is still to be written.    *)
LEMMA PlacedLooks ==
  ASSUME NEW v \in Live, ~v.fs.wflag, NEW s \in TableArea, NEW c \in TableSet,
         \A i \in SlotNos : Blank(EntriesOf(c)[i])
  PROVE  LET w == Placed(v, s, c)
         IN  /\ Looks(v, w) /\ w \in Live /\ SameRest(v, w) /\ w.res = v.res /\ ~w.fs.wflag
             /\ w.fs.winsect = s /\ w.fs.win = c
<1> DEFINE w == Placed(v, s, c)
           g == [[v.fs EXCEPT !.win = c] EXCEPT !.winsect = s]
<1>0. v \in Steady(FALSE) /\ FALSE \in BOOLEAN /\ v \in CallSet /\ v.fs \in Volumes
  BY LiveIs
<1>1. /\ Calm(FALSE, v, w) /\ SameRest(v, w) /\ w.res = v.res /\ ~w.fs.wflag
      /\ w.fs.winsect = s /\ w.fs.win = c /\ w.disk = v.disk
  <2>1. s \in WinSects /\ s \notin FatSects /\ c \in SectorSet
    BY TableHolds DEF SectorSet
  <2>2. s \notin TableArea => c \in Holds(s)
    OBVIOUS
  <2>3. ASSUME NEW q \in BOOLEAN, v \in Steady(q)
        PROVE  /\ Calm(q, v, w) /\ SameRest(v, w) /\ w.res = v.res /\ ~w.fs.wflag
               /\ w.fs.winsect = s /\ w.fs.win = c /\ w.disk = v.disk
    BY <2>1, <2>2, <2>3, WindowPut
  <2> HIDE DEF w
  <2> QED
    BY <1>0, <2>3, Zenon
<1>2. w.media = v.media /\ w.to = v.to
  <2>1. w = [v EXCEPT !.fs = g]
    BY Zenon DEF Placed
  <2> HIDE DEF g
  <2> QED
    BY <1>0, <2>1 DEF CallSet
<1> HIDE DEF w
<1>3. w \in Live
  BY <1>1, GoodLives, Zenon DEF Calm
<1>4. Sees(w) = w.disk /\ Sees(v) = v.disk
  BY <1>0, <1>1, <1>3, SeesIs, LiveIs
<1>5. WinTrue(w)
  <2>1. s \notin FatSects
    BY TableHolds
  <2> QED
    BY <1>1, <2>1 DEF WinTrue
<1>6. Looks(v, w)
  BY <1>1, <1>2, <1>4, <1>5 DEF Looks, SameHere
<1> QED
  BY <1>1, <1>3, <1>6 DEF w

(* A sector of zeros has no entries. *)
LEMMA ZeroIsBlank ==
  /\ \A i \in SlotNos : Blank(EntriesOf(ZeroSector)[i])
  /\ \A i \in SlotNos : EntriesOf(ZeroSector)[i] = FreeEntry
<1>1. EntriesOf(ZeroSector) = [i \in SlotNos |-> FreeEntry]
  BY DEF ZeroSector, DirSector, EntriesOf, SlotNos
<1>2. FreeEntry.cl = 0 /\ FreeEntry.sz = 0
  BY DEF FreeEntry, Entry
<1> QED
  BY <1>1, <1>2 DEF Blank

(* Dir_clear writes no entry, *)
LEMMA DirClearWorks ==
  ASSUME NEW v \in Live, NEW c \in RealClusters
  PROVE  LET w == dir_clear(v, c)
         IN  /\ Works(v, w) /\ w \in Live /\ SameRest(v, w) /\ w.res \in {"OK", "DISK_ERR"}
             /\ w.res = "OK" => w.fs.winsect = clst2sect(c) /\ w.fs.win = ZeroSector
<1> DEFINE top == clst2sect(c)
           y == sync_window(v)
           p == Placed(y, top, ZeroSector)
           zs == [i \in 1..ClusterSectors |-> ZeroSector]
           w == WriteSectors(p, top, zs, ClusterSectors)
           j == [y EXCEPT !.fs.winsect = top, !.fs.win = ZeroSector]
<1>0. v \in Steady(FALSE) /\ FALSE \in BOOLEAN
  BY LiveIs
<1>1. /\ Looks(v, y) /\ y \in Live /\ SameRest(v, y) /\ y.res \in {"OK", "DISK_ERR"}
      /\ y.res = "OK" => ~y.fs.wflag
  BY <1>0, SyncWindowKeeps, SyncWindowLooks
<1>2. dir_clear(v, c) = IF y.res = "OK" THEN WriteSectors(j, top, zs, ClusterSectors) ELSE y
  BY Zenon DEF dir_clear, Then
<1> HIDE DEF y
<1>3. y \in CallSet /\ y.fs \in Volumes
  BY <1>1, LiveIs
<1>4. CASE y.res # "OK"
  BY <1>1, <1>2, <1>4, LooksWorks
<1>5. CASE y.res = "OK"
  <2>2. /\ top \in Nat
        /\ \A i \in 0 .. ClusterSectors - 1 : top + i \in TableArea
    BY ClusterIsThere DEF RealClusters
  <2>3. top \in TableArea
    BY TableTop
  <2>4. j = p
    <3> HIDE DEF top
    <3> QED
      BY <1>3 DEF CallSet, Volumes, FsSet, Placed
  <2> HIDE DEF top, j
  <2>5. /\ Looks(y, p) /\ p \in Live /\ SameRest(y, p) /\ p.fs.winsect = top /\ p.fs.win = ZeroSector
    BY <1>1, <1>5, <2>3, ZeroSectorIs, ZeroIsBlank, PlacedLooks
  <2> HIDE DEF p
  <2>6. /\ w \in Live /\ Works(p, w) /\ w.fs = p.fs /\ w.res \in {"OK", "DISK_ERR"} /\ SameRest(p, w)
    <3>1. ClusterSectors \in Nat /\ \A i \in SlotNos : Blank(EntriesOf(p.fs.win)[i])
      BY <2>5, ZeroIsBlank, GeometryAssumption
    <3>2. \A i \in 1..ClusterSectors : /\ top + i - 1 \in TableArea /\ zs[i] \in TableSet
                                       /\ \A k \in SlotNos : Blank(EntriesOf(zs[i])[k])
      <4>1. \A i \in 1..ClusterSectors : i - 1 \in 0 .. ClusterSectors - 1 /\ top + (i - 1) = top + i - 1
        BY <2>2, <3>1
      <4>2. \A i \in 1..ClusterSectors : top + i - 1 \in TableArea
        BY <2>2, <4>1
      <4>3. \A i \in 1..ClusterSectors : zs[i] = ZeroSector
        OBVIOUS
      <4> HIDE DEF zs
      <4> QED
        BY <4>2, <4>3, ZeroSectorIs, ZeroIsBlank
    <3> HIDE DEF zs
    <3> QED
      BY <2>2, <2>5, <3>1, <3>2, WriteSectorsWorks
  <2>7. dir_clear(v, c) = w
    BY <1>2, <1>5, <2>4
  <2> HIDE DEF w
  <2>8. Works(v, w)
    BY <1>1, <2>5, <2>6, LooksWorks, WorksOn
  <2>9. SameRest(v, w)
    BY <1>1, <2>5, <2>6 DEF SameRest, SameWork
  <2> QED
    BY <2>5, <2>6, <2>7, <2>8, <2>9 DEF top
<1> QED
  BY <1>1, <1>4, <1>5

(* The end of a cluster of the table is passed by following the chain, *)
LEMMA NextClusterSeeks ==
  ASSUME NEW v \in Live, v.ret \in RealClusters, AtEnd(v.dp)
  PROVE  Seeks(v, NextCluster(v))
<1> DEFINE x == v.dp
           n == x.dptr + 1
           c == v.ret
           y == [[[x EXCEPT !.dptr = n] EXCEPT !.clust = c] EXCEPT !.sect = clst2sect(c)]
           u == WithDp(v, y)
           w == Res(u, "OK")
<1>1. v \in CallSet /\ x \in DirSet /\ n \in Nat
  <2>1. v \in CallSet /\ x \in DirSet
    BY LiveIs
  <2>2. x.dptr \in Nat
    BY <2>1 DEF DirSet
  <2> QED
    BY <2>1, <2>2
<1>2. NextCluster(v) = w
  <2> DEFINE j == [v EXCEPT !.dp.dptr = @ + 1, !.dp.clust = v.ret, !.dp.sect = clst2sect(v.ret)]
  <2>1. j = u
    BY <1>1 DEF CallSet, DirSet, WithDp
  <2>2. NextCluster(v) = Res(j, "OK")
    BY Zenon DEF NextCluster, OK
  <2> QED
    BY <2>1, <2>2
<1>3. y \in DirSet /\ SameName(x, y)
  <2>0. n % DirEntriesPerSector = 0 /\ (n \div DirEntriesPerSector) % ClusterSectors = 0 /\ c \in RealClusters
    BY DEF AtEnd
  <2>1. y \in DirSet
    <3> DEFINE t == clst2sect(c)
    <3>1. t \in TableArea /\ c \in ClusterNos
      BY <2>0, TableTop, NumbersApart
    <3> HIDE DEF x, n, c, t
    <3>2. [[[x EXCEPT !.dptr = n] EXCEPT !.clust = c] EXCEPT !.sect = t] \in DirSet
      BY <1>1, <3>1 DEF DirSet
    <3> QED
      BY <3>2 DEF t
  <2> QED
    BY <1>1, <2>1 DEF DirSet, SameName
<1> HIDE DEF y
<1>4. Seeks(v, u)
  BY <1>3, SeeksDp, SeeksSelf
<1> HIDE DEF u
<1>5. Seeks(v, w)
  BY <1>4, SeeksRes, ResultsAre
<1> HIDE DEF w
<1> QED
  BY <1>2, <1>5

(* and the end of the table is the end of the search. *)
LEMMA EndOfTableSeeks ==
  ASSUME NEW v \in Live
  PROVE  Seeks(v, EndOfTable(v))
<1> DEFINE y == [v.dp EXCEPT !.sect = 0]
           u == WithDp(v, y)
           w == Res(u, "NO_FILE")
<1>1. v \in CallSet /\ v.dp \in DirSet
  BY LiveIs
<1>2. EndOfTable(v) = w
  BY <1>1, DpChanges DEF EndOfTable
<1>3. y \in DirSet /\ SameName(v.dp, y)
  BY <1>1 DEF DirSet, SameName
<1> HIDE DEF y
<1>4. Seeks(v, u)
  BY <1>3, SeeksDp, SeeksSelf
<1> HIDE DEF u
<1>5. Seeks(v, w)
  BY <1>4, SeeksRes, ResultsAre
<1> HIDE DEF w
<1> QED
  BY <1>2, <1>5

(* So that a table can be stretched whatever is unnamed, *)
LEMMA StretchTableRoams ==
  ASSUME NEW v \in Live, AtEnd(v.dp), v.dp.clust # 0
  PROVE  Roams(v, StretchTable(v))
<1> DEFINE c == v.dp.clust
           a == create_chain(v, c)
           d == dir_clear(a, a.ret)
           n == NextCluster(d)
           x == Res(a, "DENIED")
           y == Res(a, ClusterError(a.ret))
<1>1. StretchTable(v) = IF a.ret = 0 THEN x ELSE IF a.ret \in {1, DISKERR} THEN y
                        ELSE IF d.res = "OK" THEN n ELSE d
  BY Zenon DEF StretchTable, With, Then
<1>0. c \in Nat /\ v \in Good(FALSE) /\ FALSE \in BOOLEAN
  <2>1. v.dp \in DirSet /\ v \in Good(FALSE)
    BY LiveIs
  <2>2. v.dp.clust \in ClusterNos
    BY <2>1 DEF DirSet
  <2>3. ClusterNos \subseteq Nat
    BY LayoutIs DEF ClusterNos
  <2> QED
    BY <2>1, <2>2, <2>3
<1> HIDE DEF c
<1>2. /\ a \in Live /\ a.dp = v.dp /\ a.ret \in {0, 1, DISKERR} \union RealClusters
  <2>1. Created(FALSE, v, a)
    BY <1>0, CreateChainKeeps
  <2>2. a \in Good(FALSE) /\ a.dp = v.dp
    BY <2>1 DEF Created, SameWork
  <2> QED
    BY <2>1, <2>2, GoodLives DEF Created
<1>3. Works(v, a)
  <2>0. c # 0
    BY DEF c
  <2>1. \A P \in SUBSET RealClusters : \A X \in SUBSET Places : Sane(v, P, X) => Chained(v, a, c, P, X)
    BY <1>0, CreateChainSane
  <2>2. \A P \in SUBSET RealClusters : \A X \in SUBSET Places :
           Sane(v, P, X) => Sane(a, P, X) /\ LinksKept(Sees(v), Sees(a)) /\ a.to = v.to
    BY <2>0, <2>1 DEF Chained
  <2> QED
    BY <2>2, Zenon DEF Works
<1> HIDE DEF a
<1>3a. Roams(v, a)
  BY <1>2, <1>3 DEF Roams, SameName
<1>4. Roams(v, x) /\ Roams(v, y)
  BY <1>3a, SeeksRes, ResultsAre, ClusterErrorIs
<1> HIDE DEF x, y
<1>5. CASE a.ret = 0 \/ a.ret \in {1, DISKERR}
  BY <1>1, <1>4, <1>5
<1>6. CASE ~(a.ret = 0 \/ a.ret \in {1, DISKERR})
  <2>1. a.ret \in RealClusters
    BY <1>2, <1>6
  <2>2. Works(a, d) /\ d \in Live /\ SameRest(a, d)
    BY <1>2, <2>1, DirClearWorks
  <2> HIDE DEF d
  <2>3. Roams(a, d) /\ d.dp = v.dp /\ d.ret = a.ret
    BY <1>2, <2>2 DEF Roams, SameName, SameRest, SameWork
  <2>4. Seeks(d, n)
    BY <2>1, <2>2, <2>3, NextClusterSeeks
  <2> HIDE DEF n
  <2>5. Roams(v, d) /\ Roams(v, n)
    BY <1>3a, <2>3, <2>4, SeeksOn
  <2> QED
    BY <1>1, <1>6, <2>5
<1> QED
  BY <1>5, <1>6

-----------------------------------------------------------------------------
(* Dir_next reads, unless it may add a cluster to the table.               *)
LEMMA DirNextRoams ==
  ASSUME NEW v \in Live, NEW st \in BOOLEAN, AtOrPast(v.dp)
  PROVE  LET w == dir_next(v, st)
         IN  /\ Roams(v, w) /\ (~st => Seeks(v, w))
             /\ w \in Live /\ w.res # GO /\ (w.res = "OK" => InTable(w.dp))
<1> DEFINE x == v.dp
           n == x.dptr + 1
           D == DirEntriesPerSector
           g == get_fat(v, x.clust)
           yb == [x EXCEPT !.dptr = n]
           yd == [[x EXCEPT !.dptr = n] EXCEPT !.sect = x.sect + 1]
           ub == WithDp(v, yb)
           ud == WithDp(v, yd)
           wa == EndOfTable(v)
           wb == Res(ub, "OK")
           wc == EndOfTable(v)
           wd == Res(ud, "OK")
           e1 == Res(g, ClusterError(g.ret))
           e2 == NextCluster(g)
           e3 == StretchTable(g)
           e4 == EndOfTable(g)
           we == IF g.ret \in {0, 1, DISKERR} THEN e1 ELSE IF g.ret < NFatEnt THEN e2
                 ELSE IF st THEN e3 ELSE e4
           W == dir_next(v, st)
<1>0. v \in CallSet /\ x \in DirSet /\ x.dptr \in Nat
  <2>1. v \in CallSet /\ x \in DirSet
    BY LiveIs
  <2> QED
    BY <2>1 DEF DirSet
<1>1. W =
        IF x.sect = 0 \/ n >= MAX_DIR THEN wa ELSE IF n % D # 0 THEN wb
        ELSE IF x.clust = 0 /\ n >= RootEntries THEN wc
        ELSE IF x.clust = 0 \/ (n \div D) % ClusterSectors # 0 THEN wd ELSE we
  <2> DEFINE jb == [v EXCEPT !.dp.dptr = n]
             jd == [v EXCEPT !.dp.dptr = n, !.dp.sect = @ + 1]
  <2>1. jb = ub
    BY <1>0, DpChanges
  <2>2. jd = ud
    BY <1>0 DEF CallSet, DirSet, WithDp
  <2>3. dir_next(v, st) =
        IF x.sect = 0 \/ n >= MAX_DIR THEN wa ELSE IF n % D # 0 THEN Res(jb, "OK")
        ELSE IF x.clust = 0 /\ n >= RootEntries THEN wc
        ELSE IF x.clust = 0 \/ (n \div D) % ClusterSectors # 0 THEN Res(jd, "OK") ELSE we
    BY Zenon DEF dir_next, OK, With
  <2> HIDE DEF jb, jd, ub, ud, wa, wc, we
  <2> QED
    BY <2>1, <2>2, <2>3, Zenon
<1>a. W \in Live /\ W.res # GO /\ (W.res = "OK" => InTable(W.dp))
  <2>1. \A q \in BOOLEAN : v \in Good(q) => Stepped(q, v, W)
    BY DirNextKeeps DEF AtOrPast
  <2>2. Stepped(FALSE, v, W)
    BY <2>1, LiveIs
  <2> HIDE DEF W
  <2> QED
    BY <2>2, GoodLives DEF Stepped, Went
<1> SUFFICES Roams(v, W) /\ (~st => Seeks(v, W))
  BY <1>a
<1> HIDE DEF we, W
<1>2. CASE x.sect = 0 \/ n >= MAX_DIR
  <2>1. Seeks(v, wa)
    BY EndOfTableSeeks
  <2> HIDE DEF wa
  <2> QED
    BY <1>1, <1>2, <2>1, SeeksOn
<1>3. CASE ~(x.sect = 0 \/ n >= MAX_DIR) /\ n % D # 0
  <2>1. yb \in DirSet /\ SameName(x, yb)
    BY <1>0 DEF DirSet, SameName
  <2> HIDE DEF yb
  <2>2. Seeks(v, ub)
    BY <2>1, SeeksSelf, SeeksDp
  <2> HIDE DEF ub
  <2>3. Seeks(v, wb)
    BY <2>2, SeeksRes, ResultsAre
  <2> HIDE DEF wb
  <2> QED
    BY <1>1, <1>3, <2>3, SeeksOn
<1>4. CASE ~(x.sect = 0 \/ n >= MAX_DIR) /\ n % D = 0 /\ x.clust = 0 /\ n >= RootEntries
  <2>1. Seeks(v, wc)
    BY EndOfTableSeeks
  <2> HIDE DEF wc
  <2> QED
    BY <1>1, <1>4, <2>1, SeeksOn
<1>5. CASE /\ ~(x.sect = 0 \/ n >= MAX_DIR) /\ n % D = 0 /\ ~(x.clust = 0 /\ n >= RootEntries)
           /\ x.clust = 0 \/ (n \div D) % ClusterSectors # 0
  <2>1. yd \in DirSet /\ InTable(yd)
    <3>1. x.clust = 0 => n < RootEntries
      BY <1>0, <1>5, GeometryAssumption
    <3>2. x \in DirSet /\ InTable(x) /\ n % D = 0
      BY <1>0, <1>5 DEF AtOrPast
    <3>3. x.clust # 0 => (n \div D) % ClusterSectors # 0
      BY <1>5
    <3>4. n = x.dptr + 1
      OBVIOUS
    <3> HIDE DEF x, n
    <3> QED
      BY <3>1, <3>2, <3>3, <3>4, SectorNext, Zenon
  <2>1a. SameName(x, yd)
    BY <1>0 DEF DirSet, SameName
  <2> HIDE DEF yd
  <2>2. Seeks(v, ud)
    BY <2>1, <2>1a, SeeksSelf, SeeksDp
  <2> HIDE DEF ud
  <2>3. Seeks(v, wd)
    BY <2>2, SeeksRes, ResultsAre
  <2> HIDE DEF wd
  <2> QED
    BY <1>1, <1>5, <2>3, SeeksOn
<1>6. CASE /\ ~(x.sect = 0 \/ n >= MAX_DIR) /\ n % D = 0 /\ ~(x.clust = 0 /\ n >= RootEntries)
           /\ ~(x.clust = 0 \/ (n \div D) % ClusterSectors # 0)
  <2>1. AtEnd(x)
    BY <1>6 DEF AtEnd
  <2>2. W = we
    BY <1>1, <1>6
  <2>3. /\ Seeks(v, g) /\ g.dp = x /\ g \in Live
        /\ g.ret \in FatValues \union {1, DISKERR}
    <3> DEFINE c == x.clust
    <3>1. c \in Int
      <4>1. c \in ClusterNos
        BY <1>0 DEF DirSet
      <4>2. ClusterNos \subseteq Int
        BY LayoutIs DEF ClusterNos
      <4> QED
        BY <4>1, <4>2
    <3> HIDE DEF c
    <3>2. \A q \in BOOLEAN : v \in Steady(q) => get_fat(v, c).ret \in FatValues \union {1, DISKERR}
      BY <3>1, GetFatKeeps
    <3>3. Seeks(v, get_fat(v, c)) /\ get_fat(v, c).dp = v.dp
      BY <3>1, GetFatSeeks
    <3> QED
      BY <3>2, <3>3, LiveIs DEF Seeks, c
  <2> HIDE DEF g
  <2>5. Seeks(v, e1)
    BY <2>3, SeeksRes, ClusterErrorIs
  <2>6. g.ret \notin {0, 1, DISKERR} /\ g.ret < NFatEnt => Seeks(v, e2)
    <3>1. SUFFICES ASSUME g.ret \notin {0, 1, DISKERR} /\ g.ret < NFatEnt PROVE Seeks(v, e2)
      OBVIOUS
    <3>2. g.ret \in RealClusters
      BY <2>3, <3>1, NumbersApart DEF FatValues
    <3>3. Seeks(g, e2)
      BY <2>1, <2>3, <3>2, NextClusterSeeks
    <3> HIDE DEF e2
    <3> QED
      BY <2>3, <3>3, SeeksOn
  <2>7. Roams(v, e3)
    <3>1. Roams(g, e3)
      BY <1>6, <2>1, <2>3, StretchTableRoams
    <3> HIDE DEF e3
    <3> QED
      BY <2>3, <3>1, SeeksOn
  <2>8. Seeks(v, e4)
    <3>1. Seeks(g, e4)
      BY <2>3, EndOfTableSeeks
    <3> HIDE DEF e4
    <3> QED
      BY <2>3, <3>1, SeeksOn
  <2> HIDE DEF e1, e2, e3, e4
  <2>9. Roams(v, e1) /\ Roams(v, e4) /\ (g.ret \notin {0, 1, DISKERR} /\ g.ret < NFatEnt => Roams(v, e2))
    BY <2>5, <2>6, <2>8, SeeksOn
  <2> QED
    BY <2>2, <2>5, <2>6, <2>7, <2>8, <2>9 DEF we
<1> HIDE DEF x, n, D
<1> QED
  BY <1>2, <1>3, <1>4, <1>5, <1>6

(* Bringing the sector of the DIR's entry in only reads.                   *)
LEMMA EntrySeeks ==
  ASSUME NEW v \in Live, InTable(v.dp)
  PROVE  LET w == move_window(v, v.dp.sect)
         IN  /\ Seeks(v, w) /\ w \in Live /\ w.dp = v.dp /\ w.ret = v.ret
             /\ w.res \in {"OK", "DISK_ERR"} /\ (w.res = "OK" => OnEntry(w))
<1> DEFINE s == v.dp.sect
           w == move_window(v, s)
<1>1. s \in WinSects
  <2>1. s \in TableArea
    BY LiveIs, InTableIs
  <2> QED
    BY <2>1, AreasApart
<1>2. /\ Seeks(v, w) /\ w.dp = v.dp /\ w.ret = v.ret /\ w.res \in {"OK", "DISK_ERR"}
      /\ w.res = "OK" => w.fs.winsect = s
  <2> HIDE DEF s
  <2> QED
    BY <1>1, MoveSeeks
<1> HIDE DEF w
<1> QED
  BY <1>2 DEF OnEntry, Seeks, w

-----------------------------------------------------------------------------
(* The walks along a table.  Dir_alloc's may add a cluster; dir_find's ends*)
(* at the entry with the DIR's name.                                       *)
Met(v)      == dir(v).nm = v.dp.fn /\ v.dp.dir = dir(v).dir /\ v.dp.ro = dir(v).ro
Allots(v, w) == /\ Roams(v, w) /\ (w.res = GO => AtOrPast(w.dp))
                /\ w.res = "OK" => OnEntry(w)
Finds(v, w)  == /\ Seeks(v, w) /\ (w.res = GO => AtOrPast(w.dp))
                /\ w.res = "OK" => OnEntry(w) /\ Met(w)
Meets(v, w)  == /\ Seeks(v, w) /\ (w.res = GO => AtOrPast(w.dp))
                /\ w.res = "OK" => OnEntry(w)

(* A walk that is cut short ends with an error.                            *)
LEMMA WalkRes ==
  ASSUME NEW v, NEW w, NEW r \in Results, r # "OK"
  PROVE  /\ Roams(v, w) /\ (r = GO => AtOrPast(w.dp)) => Allots(v, Res(w, r))
         /\ Seeks(v, w) /\ (r = GO => AtOrPast(w.dp)) => Finds(v, Res(w, r)) /\ Meets(v, Res(w, r))
<1> DEFINE z == Res(w, r)
<1>1. /\ Seeks(v, w) => Seeks(v, z)
      /\ Roams(v, w) => Roams(v, z)
      /\ w \in Live => z.dp = w.dp /\ z.res = r
  BY SeeksRes
<1>2. (Seeks(v, w) => w \in Live) /\ (Roams(v, w) => w \in Live)
  BY DEF Seeks, Roams
<1> HIDE DEF z
<1>3. Roams(v, w) /\ (r = GO => AtOrPast(w.dp)) => Allots(v, z)
  BY <1>1, <1>2 DEF Allots
<1>4. Seeks(v, w) /\ (r = GO => AtOrPast(w.dp)) => Finds(v, z) /\ Meets(v, z)
  BY <1>1, <1>2 DEF Finds, Meets
<1> QED
  BY <1>3, <1>4 DEF z

(* One step further.                                                       *)
LEMMA StepOn ==
  ASSUME NEW v, NEW m \in Live, AtOrPast(m.dp), NEW st \in BOOLEAN
  PROVE  LET d == dir_next(m, st)
             z == IF d.res = "OK" THEN Again(d) ELSE d
         IN  /\ Roams(v, m) => Allots(v, z)
             /\ Seeks(v, m) /\ ~st => Finds(v, z) /\ Meets(v, z)
<1> DEFINE d == dir_next(m, st)
           a == Res(d, GO)
           z == IF d.res = "OK" THEN Again(d) ELSE d
<1>1. /\ Roams(m, d) /\ (~st => Seeks(m, d))
      /\ d \in Live /\ d.res # GO /\ (d.res = "OK" => InTable(d.dp))
  BY DirNextRoams
<1> HIDE DEF d
<1>2. (Roams(v, m) => Roams(v, d)) /\ (Seeks(v, m) /\ ~st => Seeks(v, d))
  BY <1>1, SeeksOn
<1>3. z = IF d.res = "OK" THEN a ELSE d
  BY DEF Again
<1>4. d.res = "OK" => AtOrPast(d.dp)
  BY <1>1 DEF AtOrPast
<1>5. GO \in Results /\ GO # "OK"
  BY ResultsAre DEF GO
<1>6. d.res = "OK" => /\ Roams(v, d) => Allots(v, a)
                      /\ Seeks(v, d) => Finds(v, a) /\ Meets(v, a)
  BY <1>4, <1>5, WalkRes
<1>9. SUFFICES /\ Roams(v, m) => Allots(v, z)
               /\ Seeks(v, m) /\ ~st => Finds(v, z) /\ Meets(v, z)
  BY DEF d
<1> HIDE DEF a, z
<1>7. CASE d.res = "OK"
  BY <1>2, <1>3, <1>6, <1>7
<1>8. CASE d.res # "OK"
  <2>1. z = d
    BY <1>3, <1>8
  <2>2. (Roams(v, d) => Allots(v, d)) /\ (Seeks(v, d) => Finds(v, d) /\ Meets(v, d))
    BY <1>1, <1>8 DEF Allots, Finds, Meets
  <2> QED
    BY <1>2, <2>1, <2>2
<1> QED
  BY <1>7, <1>8

(* One entry is looked at by dir_alloc, *)
LEMMA TryFreeAllots ==
  ASSUME NEW v, NEW u \in Live, Roams(v, u), InTable(u.dp)
  PROVE  Allots(v, TryFree(u))
<1> DEFINE m == move_window(u, u.dp.sect)
           d == dir_next(m, TRUE)
           z == IF d.res = "OK" THEN Again(d) ELSE d
           k == dir(m).nm \in {"", Deleted}
<1>1. TryFree(u) = IF m.res = "OK" THEN IF k THEN m ELSE z ELSE m
  BY Zenon DEF TryFree, Then
<1>2. /\ Seeks(u, m) /\ m \in Live /\ m.dp = u.dp
      /\ m.res \in {"OK", "DISK_ERR"} /\ (m.res = "OK" => OnEntry(m))
  BY EntrySeeks
<1> HIDE DEF m
<1>3. Roams(v, m)
  BY <1>2, SeeksOn
<1>4. Allots(v, z)
  <2>1. AtOrPast(m.dp)
    BY <1>2 DEF AtOrPast
  <2> QED
    BY <1>2, <1>3, <2>1, StepOn
<1>5. Allots(v, m)
  BY <1>2, <1>3 DEF Allots, GO
<1> HIDE DEF z, k
<1> QED
  BY <1>1, <1>4, <1>5

(* by dir_read, *)
LEMMA TryValidReads ==
  ASSUME NEW v, NEW u \in Live, Seeks(v, u), AtOrPast(u.dp)
  PROVE  Meets(v, TryValid(u))
<1> DEFINE m == move_window(u, u.dp.sect)
           d == dir_next(m, FALSE)
           z == IF d.res = "OK" THEN Again(d) ELSE d
           e == dir(m).nm = ""
           k == dir(m).nm \notin {Deleted, ".", ".."}
           x == Res(u, "NO_FILE")
           y == Res(m, "NO_FILE")
           t == TryValid(u)
<1>1. t = IF u.dp.sect = 0 THEN x
          ELSE IF m.res = "OK" THEN IF e THEN y ELSE IF k THEN m ELSE z ELSE m
  BY Zenon DEF TryValid, Then
<1>2. Meets(v, x)
  BY WalkRes, ResultsAre DEF GO
<1> HIDE DEF x, t, e, k
<1>3. CASE u.dp.sect = 0
  BY <1>1, <1>2, <1>3 DEF t
<1>4. CASE u.dp.sect # 0
  <2>1. InTable(u.dp)
    BY <1>4 DEF AtOrPast
  <2>2. /\ Seeks(u, m) /\ m \in Live /\ m.dp = u.dp
        /\ m.res \in {"OK", "DISK_ERR"} /\ (m.res = "OK" => OnEntry(m))
    BY <2>1, EntrySeeks
  <2> HIDE DEF m
  <2>3. Seeks(v, m)
    BY <2>2, SeeksOn
  <2>4. Meets(v, y)
    BY <2>3, WalkRes, ResultsAre DEF GO
  <2>5. Meets(v, z)
    BY <2>2, <2>3, StepOn
  <2>6. Meets(v, m)
    BY <2>2, <2>3 DEF Meets, GO
  <2> HIDE DEF y, z
  <2> QED
    BY <1>1, <1>4, <2>4, <2>5, <2>6 DEF t
<1> QED
  BY <1>3, <1>4

(* by dir_find. *)
LEMMA TryFindFinds ==
  ASSUME NEW v, NEW w \in Live, Seeks(v, w), InTable(w.dp)
  PROVE  Finds(v, TryFind(w))
<1> DEFINE m == move_window(w, w.dp.sect)
           x == [[m.dp EXCEPT !.dir = dir(m).dir] EXCEPT !.ro = dir(m).ro]
           u == WithDp(m, x)
           d == dir_next(u, FALSE)
           y == Res(m, "NO_FILE")
           z == IF d.res = "OK" THEN Again(d) ELSE d
           e == dir(m).nm = ""
           k == dir(u).nm = u.dp.fn
           j == [m EXCEPT !.dp.dir = dir(m).dir, !.dp.ro = dir(m).ro]
<1>1. TryFind(w) = IF m.res = "OK"
                   THEN IF e THEN y
                        ELSE IF dir(j).nm = j.dp.fn THEN j
                        ELSE LET t == dir_next(j, FALSE) IN IF t.res = "OK" THEN Again(t) ELSE t
                   ELSE m
  BY Zenon DEF TryFind, Then, With
<1>2. /\ Seeks(w, m) /\ m \in Live /\ m.dp = w.dp
      /\ m.res \in {"OK", "DISK_ERR"} /\ (m.res = "OK" => OnEntry(m))
  BY EntrySeeks
<1> HIDE DEF m
<1>3. m \in CallSet /\ m.dp \in DirSet /\ dir(m) \in EntrySet
  <2>1. \A q \in BOOLEAN : m \in Good(q) => dir(m) \in EntrySet
    BY DirIs
  <2> QED
    BY <1>2, <2>1, LiveIs
<1>4. j = u
  BY <1>3 DEF CallSet, DirSet, WithDp
<1>5. /\ x \in DirSet /\ SameName(m.dp, x) /\ (InTable(m.dp) => InTable(x))
      /\ x.sect = m.dp.sect /\ x.dptr = m.dp.dptr /\ x.dir = dir(m).dir /\ x.ro = dir(m).ro
  <2> DEFINE p == [m.dp EXCEPT !.dir = dir(m).dir]
             o == [p EXCEPT !.ro = dir(m).ro]
  <2>1. dir(m).dir \in BOOLEAN /\ dir(m).ro \in BOOLEAN
    BY <1>3 DEF EntrySet
  <2>2. p \in DirSet /\ p.clust = m.dp.clust /\ p.dptr = m.dp.dptr /\ p.sect = m.dp.sect
        /\ SameName(m.dp, p) /\ p.dir = dir(m).dir
    BY <1>3, <2>1 DEF DirSet, SameName
  <2> HIDE DEF p
  <2>3. o \in DirSet /\ o.clust = p.clust /\ o.dptr = p.dptr /\ o.sect = p.sect
        /\ SameName(p, o) /\ o.dir = p.dir /\ o.ro = dir(m).ro
    BY <2>1, <2>2 DEF DirSet, SameName
  <2>4. o = x
    BY DEF p
  <2> HIDE DEF o, x
  <2> QED
    BY <2>2, <2>3, <2>4 DEF InTable, SameName
<1> HIDE DEF x
<1>6. Seeks(v, m)
  BY <1>2, SeeksOn
<1>7. Seeks(v, u) /\ u \in Live /\ u.dp = x /\ u.fs = m.fs /\ u.res = m.res
  BY <1>2, <1>5, <1>6, SeeksDp
<1> HIDE DEF u, j
<1>8. InTable(u.dp) /\ AtOrPast(u.dp) /\ (m.res = "OK" => OnEntry(u))
  BY <1>2, <1>5, <1>7 DEF OnEntry, AtOrPast
<1>9. dir(u) = dir(m)
  BY <1>5, <1>7 DEF dir, Slot
<1>10. Finds(v, z)
  BY <1>7, <1>8, StepOn
<1>11. Finds(v, y)
  BY <1>6, WalkRes, ResultsAre DEF GO
<1>12. m.res # "OK" => Finds(v, m)
  BY <1>2, <1>6 DEF Finds, GO
<1>13. m.res = "OK" /\ k => Finds(v, u)
  BY <1>5, <1>7, <1>8, <1>9 DEF Finds, Met, GO
<1>14. TryFind(w) = IF m.res = "OK" THEN IF e THEN y ELSE IF k THEN u ELSE z ELSE m
  BY <1>1, <1>4, Zenon
<1> HIDE DEF y, z, k, e
<1> QED
  BY <1>10, <1>11, <1>12, <1>13, <1>14

(* The rule for the loop of dir_alloc.                                      *)
LEMMA FirstFreeLoop ==
  ASSUME NEW v, NEW V, Again(v) \in V,
         \A u \in V : \A k \in 1..MAX_DIR : u.res = GO => TryFree(u) \in V
  PROVE  \E e \in V : FirstFree(v) = IF e.res = GO THEN Res(e, "ENDLESS") ELSE e
<1> DEFINE n == MAX_DIR
           a == Again(v)
           B(u, k) == IF u.res = GO THEN TryFree(u) ELSE u
           F(h) == [k \in 0..n |-> IF k = 0 THEN a ELSE B(h[k - 1], k)]
           at == CHOOSE h : h = F(h)
           G == [p \in V \X (1..n) |-> B(p[1], p[2])]
<1>1. n \in Nat /\ a \in V
  BY WalkBound
<1>2. \A u \in V : \A k \in 1..n : B(u, k) \in V
  OBVIOUS
<1>3. FirstFree(v) = IF at[n].res = GO THEN Res(at[n], "ENDLESS") ELSE at[n]
  BY Zenon DEF FirstFree, Rounds, With
<1> HIDE DEF a, B, n
<1>4. G \in [V \X (1..n) -> V] /\ \A u \in V : \A k \in 1..n : G[<<u, k>>] = B(u, k)
  BY <1>2
<1> HIDE DEF G
<1>5. PICK g \in [0..n -> V] : Runs(g, V, a, G, n)
  BY <1>1, <1>4, LoopRuns, Zenon
<1>6. g = F(g)
  <2>1. \A k \in 1..n : g[k] = B(g[k - 1], k)
    BY <1>4, <1>5, Zenon DEF Runs
  <2>2. \A k \in 0..n : g[k] = IF k = 0 THEN a ELSE B(g[k - 1], k)
    BY <1>5, <2>1 DEF Runs
  <2> QED
    BY <2>2
<1>7. at = F(at)
  BY <1>6
<1> HIDE DEF at
<1>8. at[0] = a /\ \A k \in 1..n : at[k] = B(at[k - 1], k)
  BY <1>1, <1>7
<1>9. at[n] \in V
  <2>1. \A k \in 1..n : at[k - 1] \in V => at[k] \in V
    BY <1>2, <1>8, Zenon
  <2> QED
    BY <1>1, <1>8, <2>1, LoopStays, Zenon
<1> QED
  BY <1>3, <1>9, Zenon

(* The rule for the loop of dir_read.                                       *)
LEMMA NextValidLoop ==
  ASSUME NEW v, NEW V, Again(v) \in V,
         \A u \in V : \A k \in 1..MAX_DIR : u.res = GO => TryValid(u) \in V
  PROVE  \E e \in V : NextValid(v) = IF e.res = GO THEN Res(e, "ENDLESS") ELSE e
<1> DEFINE n == MAX_DIR
           a == Again(v)
           B(u, k) == IF u.res = GO THEN TryValid(u) ELSE u
           F(h) == [k \in 0..n |-> IF k = 0 THEN a ELSE B(h[k - 1], k)]
           at == CHOOSE h : h = F(h)
           G == [p \in V \X (1..n) |-> B(p[1], p[2])]
<1>1. n \in Nat /\ a \in V
  BY WalkBound
<1>2. \A u \in V : \A k \in 1..n : B(u, k) \in V
  OBVIOUS
<1>3. NextValid(v) = IF at[n].res = GO THEN Res(at[n], "ENDLESS") ELSE at[n]
  BY Zenon DEF NextValid, Rounds, With
<1> HIDE DEF a, B, n
<1>4. G \in [V \X (1..n) -> V] /\ \A u \in V : \A k \in 1..n : G[<<u, k>>] = B(u, k)
  BY <1>2
<1> HIDE DEF G
<1>5. PICK g \in [0..n -> V] : Runs(g, V, a, G, n)
  BY <1>1, <1>4, LoopRuns, Zenon
<1>6. g = F(g)
  <2>1. \A k \in 1..n : g[k] = B(g[k - 1], k)
    BY <1>4, <1>5, Zenon DEF Runs
  <2>2. \A k \in 0..n : g[k] = IF k = 0 THEN a ELSE B(g[k - 1], k)
    BY <1>5, <2>1 DEF Runs
  <2> QED
    BY <2>2
<1>7. at = F(at)
  BY <1>6
<1> HIDE DEF at
<1>8. at[0] = a /\ \A k \in 1..n : at[k] = B(at[k - 1], k)
  BY <1>1, <1>7
<1>9. at[n] \in V
  <2>1. \A k \in 1..n : at[k - 1] \in V => at[k] \in V
    BY <1>2, <1>8, Zenon
  <2> QED
    BY <1>1, <1>8, <2>1, LoopStays, Zenon
<1> QED
  BY <1>3, <1>9, Zenon

(* The rule for the loop of dir_find.                                       *)
LEMMA FindFromLoop ==
  ASSUME NEW v, NEW V, Again(v) \in V,
         \A u \in V : \A k \in 1..MAX_DIR : u.res = GO => TryFind(u) \in V
  PROVE  \E e \in V : FindFrom(v) = IF e.res = GO THEN Res(e, "ENDLESS") ELSE e
<1> DEFINE n == MAX_DIR
           a == Again(v)
           B(u, k) == IF u.res = GO THEN TryFind(u) ELSE u
           F(h) == [k \in 0..n |-> IF k = 0 THEN a ELSE B(h[k - 1], k)]
           at == CHOOSE h : h = F(h)
           G == [p \in V \X (1..n) |-> B(p[1], p[2])]
<1>1. n \in Nat /\ a \in V
  BY WalkBound
<1>2. \A u \in V : \A k \in 1..n : B(u, k) \in V
  OBVIOUS
<1>3. FindFrom(v) = IF at[n].res = GO THEN Res(at[n], "ENDLESS") ELSE at[n]
  BY Zenon DEF FindFrom, Rounds, With
<1> HIDE DEF a, B, n
<1>4. G \in [V \X (1..n) -> V] /\ \A u \in V : \A k \in 1..n : G[<<u, k>>] = B(u, k)
  BY <1>2
<1> HIDE DEF G
<1>5. PICK g \in [0..n -> V] : Runs(g, V, a, G, n)
  BY <1>1, <1>4, LoopRuns, Zenon
<1>6. g = F(g)
  <2>1. \A k \in 1..n : g[k] = B(g[k - 1], k)
    BY <1>4, <1>5, Zenon DEF Runs
  <2>2. \A k \in 0..n : g[k] = IF k = 0 THEN a ELSE B(g[k - 1], k)
    BY <1>5, <2>1 DEF Runs
  <2> QED
    BY <2>2
<1>7. at = F(at)
  BY <1>6
<1> HIDE DEF at
<1>8. at[0] = a /\ \A k \in 1..n : at[k] = B(at[k - 1], k)
  BY <1>1, <1>7
<1>9. at[n] \in V
  <2>1. \A k \in 1..n : at[k - 1] \in V => at[k] \in V
    BY <1>2, <1>8, Zenon
  <2> QED
    BY <1>1, <1>8, <2>1, LoopStays, Zenon
<1> QED
  BY <1>3, <1>9, Zenon

(* A walk starts,                                                          *)
LEMMA WalkBegins ==
  ASSUME NEW v \in Live
  PROVE  /\ Seeks(v, Again(v)) /\ Again(v).dp = v.dp /\ Again(v) \in Live
         /\ Roams(v, Again(v)) /\ Again(v).res = GO
<1>1. Again(v) = Res(v, GO)
  BY DEF Again
<1>2. GO \in Results
  BY ResultsAre
<1> DEFINE z == Res(v, GO)
<1>3. Seeks(v, z) /\ z.dp = v.dp /\ z \in Live /\ z.res = GO
  BY <1>2, SeeksSelf, SeeksRes
<1> HIDE DEF z
<1>4. Roams(v, z)
  BY <1>3, SeeksOn
<1> QED
  BY <1>1, <1>3, <1>4 DEF z

(* And all of them, until one is free, *)
LEMMA FirstFreeAllots ==
  ASSUME NEW v \in Live, InTable(v.dp)
  PROVE  LET w == FirstFree(v) IN Allots(v, w) /\ w.res # GO
<1> DEFINE V == {u \in Live : Allots(v, u) /\ (u.res = GO => InTable(u.dp))}
           a == Again(v)
           w == FirstFree(v)
<1>1. a \in V
  <2>1. Roams(v, a) /\ a.dp = v.dp /\ a.res = GO /\ a \in Live
    BY WalkBegins
  <2> HIDE DEF a
  <2> QED
    BY <2>1 DEF Allots, AtOrPast, GO
<1>2. ASSUME NEW u \in V, u.res = GO PROVE TryFree(u) \in V
  <2> DEFINE t == TryFree(u)
  <2>1. Allots(v, t)
    BY <1>2, TryFreeAllots DEF Allots
  <2>2. t.res = GO => InTable(t.dp)
    <3>1. \A q \in BOOLEAN : u \in Good(q) => t \in Walk(q, u)
      BY <1>2, TryFreeKeeps
    <3>2. t \in Walk(FALSE, u)
      BY <3>1, LiveIs
    <3> QED
      BY <3>2 DEF Walk
  <2> HIDE DEF t
  <2>3. t \in Live
    BY <2>1 DEF Allots, Roams
  <2> QED
    BY <2>1, <2>2, <2>3 DEF t
<1> HIDE DEF V
<1>3. PICK e \in V : w = IF e.res = GO THEN Res(e, "ENDLESS") ELSE e
  BY <1>1, <1>2, FirstFreeLoop
<1>4. Allots(v, e) /\ e \in Live
  BY DEF V
<1> DEFINE z == Res(e, "ENDLESS")
<1>5. Allots(v, z) /\ z.res # GO
  <2>1. "ENDLESS" \in Results /\ "ENDLESS" # "OK" /\ "ENDLESS" # GO
    BY ResultsAre DEF GO
  <2>2. Roams(v, e)
    BY <1>4 DEF Allots
  <2> QED
    BY <1>4, <2>1, <2>2, WalkRes, SeeksRes
<1> HIDE DEF w, z
<1> QED
  BY <1>3, <1>4, <1>5 DEF w, z

(* one holds a file or a directory, *)
LEMMA NextValidReads ==
  ASSUME NEW v \in Live, AtOrPast(v.dp)
  PROVE  LET w == NextValid(v) IN Meets(v, w) /\ w.res # GO
<1> DEFINE V == {u \in Live : Meets(v, u)}
           a == Again(v)
           w == NextValid(v)
<1>1. a \in V
  <2>1. Seeks(v, a) /\ a.dp = v.dp /\ a.res = GO /\ a \in Live
    BY WalkBegins
  <2> HIDE DEF a
  <2> QED
    BY <2>1 DEF Meets, GO
<1>2. ASSUME NEW u \in V, u.res = GO PROVE TryValid(u) \in V
  <2>1. Meets(v, TryValid(u))
    BY <1>2, TryValidReads DEF Meets
  <2> QED
    BY <2>1 DEF Meets, Seeks
<1> HIDE DEF V
<1>3. PICK e \in V : w = IF e.res = GO THEN Res(e, "ENDLESS") ELSE e
  BY <1>1, <1>2, NextValidLoop
<1>4. Meets(v, e) /\ e \in Live
  BY DEF V
<1> DEFINE z == Res(e, "ENDLESS")
<1>5. Meets(v, z) /\ z.res # GO
  <2>1. "ENDLESS" \in Results /\ "ENDLESS" # "OK" /\ "ENDLESS" # GO
    BY ResultsAre DEF GO
  <2>2. Seeks(v, e)
    BY <1>4 DEF Meets
  <2> QED
    BY <1>4, <2>1, <2>2, WalkRes, SeeksRes
<1> HIDE DEF w, z
<1> QED
  BY <1>3, <1>4, <1>5 DEF w, z

(* or one has the name. *)
LEMMA FindFromFinds ==
  ASSUME NEW v \in Live, InTable(v.dp)
  PROVE  LET w == FindFrom(v) IN Finds(v, w) /\ w.res # GO
<1> DEFINE V == {u \in Live : Finds(v, u) /\ (u.res = GO => InTable(u.dp))}
           a == Again(v)
           w == FindFrom(v)
<1>1. a \in V
  <2>1. Seeks(v, a) /\ a.dp = v.dp /\ a.res = GO /\ a \in Live
    BY WalkBegins
  <2> HIDE DEF a
  <2> QED
    BY <2>1 DEF Finds, AtOrPast, GO
<1>2. ASSUME NEW u \in V, u.res = GO PROVE TryFind(u) \in V
  <2> DEFINE t == TryFind(u)
  <2>1. Finds(v, t)
    BY <1>2, TryFindFinds DEF Finds
  <2>2. t.res = GO => InTable(t.dp)
    <3>1. \A q \in BOOLEAN : u \in Good(q) => t \in Walk(q, u)
      BY <1>2, TryFindKeeps
    <3>2. t \in Walk(FALSE, u)
      BY <3>1, LiveIs
    <3> QED
      BY <3>2 DEF Walk
  <2> HIDE DEF t
  <2>3. t \in Live
    BY <2>1 DEF Finds, Seeks
  <2> QED
    BY <2>1, <2>2, <2>3 DEF t
<1> HIDE DEF V
<1>3. PICK e \in V : w = IF e.res = GO THEN Res(e, "ENDLESS") ELSE e
  BY <1>1, <1>2, FindFromLoop
<1>4. Finds(v, e) /\ e \in Live
  BY DEF V
<1> DEFINE z == Res(e, "ENDLESS")
<1>5. Finds(v, z) /\ z.res # GO
  <2>1. "ENDLESS" \in Results /\ "ENDLESS" # "OK" /\ "ENDLESS" # GO
    BY ResultsAre DEF GO
  <2>2. Seeks(v, e)
    BY <1>4 DEF Finds
  <2> QED
    BY <1>4, <2>1, <2>2, WalkRes, SeeksRes
<1> HIDE DEF w, z
<1> QED
  BY <1>3, <1>4, <1>5 DEF w, z

(* Dir_alloc,                                                              *)
LEMMA DirAllocRoams ==
  ASSUME NEW v \in Live
  PROVE  LET w == dir_alloc(v)
         IN  Roams(v, w) /\ w.res # GO /\ (w.res = "OK" => OnEntry(w))
<1> DEFINE s == dir_sdi(v, 0)
           f == FirstFree(s)
           t == IF s.res = "OK" THEN f ELSE s
           y == Res(t, "DENIED")
           w == dir_alloc(v)
<1>1. w = IF t.res = "NO_FILE" THEN y ELSE t
  BY Zenon DEF dir_alloc, With, Then
<1>2. Seeks(v, s) /\ (s.res = "OK" => InTable(s.dp)) /\ s.res \in {"OK", "INT_ERR", "DISK_ERR"}
  BY DirSdiSeeks
<1> HIDE DEF s, w
<1>3. Roams(v, s) /\ s \in Live
  BY <1>2, SeeksOn DEF Seeks
<1>4. s.res = "OK" => Roams(s, f) /\ f.res # GO /\ (f.res = "OK" => OnEntry(f))
  BY <1>2, <1>3, FirstFreeAllots DEF Allots
<1> HIDE DEF f
<1>5. Roams(v, t) /\ t.res # GO /\ (t.res = "OK" => OnEntry(t))
  BY <1>2, <1>3, <1>4, SeeksOn DEF GO
<1> HIDE DEF t
<1>6. Roams(v, y) /\ y.res = "DENIED"
  <2>1. t \in Live
    BY <1>5 DEF Roams
  <2> QED
    BY <1>5, <2>1, SeeksRes, ResultsAre
<1> HIDE DEF y
<1> QED
  BY <1>1, <1>5, <1>6 DEF w, GO

(* Dir_read,                                                               *)
LEMMA DirReadSeeks ==
  ASSUME NEW v \in Live, AtOrPast(v.dp)
  PROVE  LET w == dir_read(v)
         IN  Seeks(v, w) /\ w.res # GO /\ (w.res = "OK" => OnEntry(w))
<1> DEFINE s == NextValid(v)
           x == [s.dp EXCEPT !.sect = 0]
           u == WithDp(s, x)
           w == dir_read(v)
<1>1. Seeks(v, s) /\ s.res # GO /\ (s.res = "OK" => OnEntry(s))
  BY NextValidReads DEF Meets
<1>2. w = IF s.res = "OK" THEN s ELSE [s EXCEPT !.dp.sect = 0]
  BY Zenon DEF dir_read, With
<1> HIDE DEF s, w
<1>3. s \in Live /\ s \in CallSet /\ s.dp \in DirSet
  BY <1>1, LiveIs DEF Seeks
<1>4. [s EXCEPT !.dp.sect = 0] = u
  BY <1>3, DpChanges
<1>5. x \in DirSet /\ SameName(s.dp, x)
  BY <1>3 DEF DirSet, SameName
<1> HIDE DEF x
<1>6. Seeks(v, u) /\ u.res = s.res
  BY <1>1, <1>3, <1>5, SeeksDp
<1> HIDE DEF u
<1> QED
  BY <1>1, <1>2, <1>4, <1>6 DEF w

(* And dir_find.                                                           *)
LEMMA DirFindSeeks ==
  ASSUME NEW v \in Live
  PROVE  LET w == dir_find(v)
         IN  Seeks(v, w) /\ w.res # GO /\ (w.res = "OK" => OnEntry(w) /\ Met(w))
<1> DEFINE s == dir_sdi(v, 0)
           f == FindFrom(s)
           w == dir_find(v)
<1>1. w = IF s.res = "OK" THEN f ELSE s
  BY Zenon DEF dir_find, Then
<1>2. Seeks(v, s) /\ (s.res = "OK" => InTable(s.dp)) /\ s.res \in {"OK", "INT_ERR", "DISK_ERR"}
  BY DirSdiSeeks
<1> HIDE DEF s, w
<1>3. s \in Live
  BY <1>2 DEF Seeks
<1>4. s.res = "OK" => Seeks(s, f) /\ f.res # GO /\ (f.res = "OK" => OnEntry(f) /\ Met(f))
  BY <1>2, <1>3, FindFromFinds DEF Finds
<1> HIDE DEF f
<1> QED
  BY <1>1, <1>2, <1>4, SeeksOn DEF w, GO

-----------------------------------------------------------------------------
(* One entry of the window is changed.                                     *)
Place(v) == <<v.fs.winsect, Slot(v)>>
(* What an entry must be to take the place a of one.                       *)
Fits(m, e, a, P, X) ==
  Named(e) => /\ e.cl = 0 => e.sz = 0
              /\ e.cl # 0 => /\ Long(m, e.cl, e.sz)
                             /\ e.cl \in P \/ (a \notin X /\ Claim(At(m, a)) = e.cl)

(* The entry that the DIR is at, in the window. *)
LEMMA SlotIs ==
  ASSUME NEW v \in Live
  PROVE  /\ Slot(v) \in SlotNos /\ EntriesOf(v.fs.win) \in [SlotNos -> EntrySet]
         /\ dir(v) \in EntrySet /\ dir(v) = EntriesOf(v.fs.win)[Slot(v)]
<1>1. \A q \in BOOLEAN : v \in Good(q) => Slot(v) \in SlotNos /\ dir(v) \in EntrySet
  BY DirIs DEF SlotNos
<1>2. v.fs.win \in SectorSet
  BY LiveIs
<1>3. EntriesOf(v.fs.win) \in [SlotNos -> EntrySet]
  BY <1>2, EntriesAre DEF SlotNos
<1> QED
  BY <1>1, <1>3, LiveIs DEF dir

(* The window's entry is the one that is seen, unless it is empty.         *)
LEMMA DirSeen ==
  ASSUME NEW v \in Live, v.fs.winsect \in TableArea, WinTrue(v)
  PROVE  /\ Place(v) \in Places
         /\ dir(v) = At(Sees(v), Place(v)) \/ Blank(dir(v))
<1>1. Slot(v) \in SlotNos /\ dir(v) = EntriesOf(v.fs.win)[Slot(v)]
  BY SlotIs
<1> QED
  BY <1>1 DEF WinTrue, Place, Places

(* After the change it is the new one, and the others are as they were or  *)
(* empty.                                                                  *)
LEMMA SetDirSees ==
  ASSUME NEW v \in Live, v.fs.winsect \in TableArea, NEW e \in EntrySet, WinTrue(v)
  PROVE  LET w == SetDir(v, e)
             a == Place(v)
         IN  /\ w \in Live /\ Writes(v, w) /\ SameFatIn(Sees(v), Sees(w))
             /\ At(Sees(w), a) = e /\ a \in Places /\ dir(w) = e /\ Place(w) = a
             /\ \A b \in Places \ {a} : At(Sees(w), b) = At(Sees(v), b) \/ Blank(At(Sees(w), b))
             /\ w.dp = v.dp /\ w.ret = v.ret /\ w.res = v.res /\ w.fs.winsect = v.fs.winsect
             /\ w.disk = v.disk /\ w.media = v.media /\ w.to = v.to
<1> DEFINE s == v.fs.winsect
           i == Slot(v)
           es == EntriesOf(v.fs.win)
           f == [es EXCEPT ![i] = e]
           w == SetDir(v, e)
           a == Place(v)
<1>1. i \in SlotNos /\ es \in [SlotNos -> EntrySet]
  BY SlotIs
<1>2. w = SetWin(v, DirSector(f))
  BY Zenon DEF SetDir
<1>3. f \in [SlotNos -> EntrySet] /\ f[i] = e /\ \A k \in SlotNos : k # i => f[k] = es[k]
  <2> HIDE DEF es, i
  <2> QED
    BY <1>1
<1>4. /\ w.dp = v.dp /\ w.ret = v.ret
  <2>1. \A q \in BOOLEAN : v \in Good(q) => w.dp = v.dp /\ w.ret = v.ret
    BY SetDirKeeps
  <2> HIDE DEF w
  <2> QED
    BY <2>1, LiveIs
<1> HIDE DEF f, i
<1>5. /\ w \in Live /\ w.disk = v.disk /\ w.media = v.media /\ w.to = v.to /\ w.res = v.res
      /\ w.fs.winsect = s /\ EntriesOf(w.fs.win) = f
      /\ SameFatIn(Sees(v), Sees(w))
      /\ \A k \in SlotNos : At(Sees(w), <<s, k>>) = f[k]
      /\ \A b \in Places : b[1] # s => At(Sees(w), b) = At(Sees(v), b)
      /\ WinTrue(w)
  BY <1>2, <1>3, SetTable
<1> HIDE DEF w
<1>6. Writes(v, w)
  BY <1>5 DEF Writes
<1>7. Slot(w) = i /\ dir(w) = e
  BY <1>1, <1>3, <1>4, <1>5 DEF dir, Slot, i
<1>8. a = <<s, i>> /\ Place(w) = a /\ a \in Places
  BY <1>1, <1>5, <1>7 DEF Place, Places, i
<1>9. At(Sees(w), a) = e
  BY <1>1, <1>3, <1>5, <1>8
<1>10. ASSUME NEW b \in Places \ {a}
       PROVE  At(Sees(w), b) = At(Sees(v), b) \/ Blank(At(Sees(w), b))
  <2> DEFINE k == b[2]
  <2>1. b = <<b[1], k>> /\ k \in SlotNos
    BY DEF Places
  <2>2. CASE b[1] # s
    BY <1>5, <2>2
  <2>3. CASE b[1] = s
    <3>1. k # i
      BY <1>8, <2>1, <2>3
    <3>2. At(Sees(w), b) = es[k]
      BY <1>3, <1>5, <2>1, <2>3, <3>1
    <3>3. es[k] = At(Sees(v), b) \/ Blank(es[k])
      BY <2>1, <2>3 DEF WinTrue
    <3> QED
      BY <3>2, <3>3
  <2> QED
    BY <2>2, <2>3
<1> HIDE DEF a
<1> QED
  BY <1>4, <1>5, <1>6, <1>7, <1>8, <1>9, <1>10 DEF w, a

(* In the window it is the new one in any case.                            *)
LEMMA SetDirShows ==
  ASSUME NEW v \in Live, v.fs.winsect \in TableArea, NEW e \in EntrySet
  PROVE  dir(SetDir(v, e)) = e
<1> DEFINE i == Slot(v)
           es == EntriesOf(v.fs.win)
           f == [es EXCEPT ![i] = e]
           w == SetDir(v, e)
<1>1. i \in SlotNos /\ es \in [SlotNos -> EntrySet]
  BY SlotIs
<1>2. w = SetWin(v, DirSector(f))
  BY Zenon DEF SetDir
<1>3. f \in [SlotNos -> EntrySet] /\ f[i] = e
  <2> HIDE DEF es, i
  <2> QED
    BY <1>1
<1>4. w.dp = v.dp
  <2>1. \A q \in BOOLEAN : v \in Good(q) => w.dp = v.dp
    BY SetDirKeeps
  <2> HIDE DEF w
  <2> QED
    BY <2>1, LiveIs
<1> HIDE DEF f, i
<1>5. EntriesOf(w.fs.win) = f
  BY <1>2, <1>3, SetTable
<1> HIDE DEF w
<1>6. dir(w) = e
  BY <1>3, <1>4, <1>5 DEF dir, Slot, i
<1> QED
  BY <1>6 DEF w

(* And the volume is sound if the new one fits.                            *)
LEMMA SetDirSane ==
  ASSUME NEW v \in Live, v.fs.winsect \in TableArea, NEW e \in EntrySet,
         NEW P, NEW X, Sane(v, P, X), Fits(Sees(v), e, Place(v), P, X),
         NEW Q, \A c \in Q : c \in P \/ (c # 0 /\ Place(v) \notin X /\ c = Claim(At(Sees(v), Place(v)))),
         Claim(e) \notin Q
  PROVE  Sane(SetDir(v, e), Q, X)
<1> DEFINE w == SetDir(v, e)
           a == Place(v)
<1>1. WinTrue(v) /\ Kept(Sees(v), P, X)
  BY DEF Sane
<1>2. /\ Writes(v, w) /\ SameFatIn(Sees(v), Sees(w)) /\ At(Sees(w), a) = e /\ a \in Places
      /\ \A b \in Places \ {a} : At(Sees(w), b) = At(Sees(v), b) \/ Blank(At(Sees(w), b))
  BY <1>1, SetDirSees
<1> HIDE DEF w, a
<1>3. \A b \in Places \ {a} : At(Sees(w), b) = At(Sees(v), b) \/ Harmless(At(Sees(w), b))
  BY <1>2 DEF Blank, Harmless
<1>4. Kept(Sees(w), Q, X)
  <2> DEFINE m == Sees(v)
             n == Sees(w)
  <2>1. Named(At(n, a)) => /\ At(n, a).cl = 0 => At(n, a).sz = 0
                           /\ At(n, a).cl # 0 => /\ Long(m, At(n, a).cl, At(n, a).sz)
                                                 /\ \/ At(n, a).cl \in P
                                                    \/ a \notin X /\ Claim(At(m, a)) = At(n, a).cl
    BY <1>2 DEF Fits, a
  <2>2. \A c \in Q : c \in P \/ (c # 0 /\ a \notin X /\ c = Claim(At(m, a)))
    BY DEF a
  <2>3. Claim(At(n, a)) \notin Q /\ a \in Places /\ SameFatIn(m, n) /\ Kept(m, P, X)
    BY <1>1, <1>2
  <2>4. \A b \in Places \ {a} : At(n, b) = At(m, b) \/ Harmless(At(n, b))
    BY <1>3
  <2> HIDE DEF m, n
  <2>5. Kept(n, Q, X)
    BY <2>1, <2>2, <2>3, <2>4, KeptSlot
  <2> QED
    BY <2>5 DEF n
<1>5. Sane(w, Q, X)
  BY <1>2, <1>4, WritesSane
<1> QED
  BY <1>5 DEF w

(* An entry that claims nothing fits everywhere.                           *)
LEMMA SetDirWorks ==
  ASSUME NEW v \in Live, v.fs.winsect \in TableArea, NEW e \in EntrySet, Harmless(e)
  PROVE  Works(v, SetDir(v, e))
<1> DEFINE w == SetDir(v, e)
<1>1. Claim(e) = 0
  BY DEF Claim, Harmless
<1>2. ASSUME NEW P \in SUBSET RealClusters, NEW X \in SUBSET Places, Sane(v, P, X)
      PROVE  Sane(w, P, X) /\ LinksKept(Sees(v), Sees(w)) /\ w.to = v.to
  <2>1. Fits(Sees(v), e, Place(v), P, X)
    BY DEF Fits, Harmless
  <2>2. 0 \notin P
    BY LayoutIs DEF RealClusters
  <2>3. Sane(w, P, X)
    BY <1>1, <1>2, <2>1, <2>2, SetDirSane
  <2>4. WinTrue(v)
    BY <1>2 DEF Sane
  <2>5. SameFatIn(Sees(v), Sees(w)) /\ w.to = v.to
    BY <2>4, SetDirSees
  <2> HIDE DEF w
  <2> QED
    BY <2>3, <2>5 DEF SameFatIn, LinksKept
<1> HIDE DEF w
<1> QED
  BY <1>2, Zenon DEF Works, w

(* Bringing the sector in that the window holds does nothing.              *)
LEMMA MoveHere ==
  ASSUME NEW v
  PROVE  move_window(v, v.fs.winsect) = OK(v)
BY DEF move_window

(* A new entry.                                                            *)
LEMMA NewEntryIs ==
  ASSUME NEW nm \in Words
  PROVE  /\ Entry(nm, FALSE, FALSE, 0, 0) \in EntrySet /\ Harmless(Entry(nm, FALSE, FALSE, 0, 0))
         /\ Entry(nm, FALSE, FALSE, 0, 0).cl = 0 /\ Entry(nm, FALSE, FALSE, 0, 0).sz = 0
<1>1. 0 \in ClusterNos
  BY LayoutIs DEF ClusterNos
<1>2. Entry(nm, FALSE, FALSE, 0, 0) \in EntrySet
  BY <1>1, EntryIs
<1> QED
  BY <1>2 DEF Entry, Harmless

(* Dir_register puts it into the window.                                   *)
LEMMA DirRegisterRoams ==
  ASSUME NEW v \in Live
  PROVE  LET w == dir_register(v)
         IN  /\ Roams(v, w) /\ w.res # GO
             /\ w.res = "OK" => OnEntry(w) /\ dir(w) = Entry(w.dp.fn, FALSE, FALSE, 0, 0)
<1> DEFINE a == dir_alloc(v)
           m == move_window(a, a.dp.sect)
           e == Entry(m.dp.fn, FALSE, FALSE, 0, 0)
           w == SetDir(m, e)
           r == dir_register(v)
<1>1. r = IF a.res = "OK" THEN IF m.res = "OK" THEN w ELSE m ELSE a
  BY Zenon DEF dir_register, Then
<1>2. Roams(v, a) /\ a.res # GO /\ (a.res = "OK" => OnEntry(a))
  BY DirAllocRoams
<1> HIDE DEF a, r
<1>3. CASE a.res # "OK"
  BY <1>1, <1>2, <1>3 DEF r
<1>4. CASE a.res = "OK"
  <2>1. InTable(a.dp) /\ a.fs.winsect = a.dp.sect /\ a \in Live
    BY <1>2, <1>4 DEF OnEntry, Roams
  <2>2. m = OK(a)
    BY <2>1, MoveHere
  <2>3. /\ Roams(v, OK(a)) /\ OK(a) \in Live /\ OK(a).dp = a.dp /\ OK(a).fs = a.fs /\ OK(a).res = "OK"
    BY <1>2, <2>1, SeeksRes, ResultsAre DEF OK
  <2>4. Roams(v, m) /\ m \in Live /\ m.dp = a.dp /\ m.fs = a.fs /\ m.res = "OK"
    BY <2>2, <2>3
  <2> HIDE DEF m
  <2>5. m.fs.winsect \in TableArea /\ OnEntry(m)
    <3>1. a.dp.sect \in TableArea
      BY <2>1, LiveIs, InTableIs
    <3> QED
      BY <2>1, <2>4, <3>1 DEF OnEntry
  <2>6. e \in EntrySet /\ Harmless(e)
    <3>1. m.dp \in DirSet
      BY <2>4, LiveIs
    <3>2. m.dp.fn \in Words
      BY <3>1 DEF DirSet
    <3> QED
      BY <3>2, NewEntryIs
  <2> HIDE DEF e
  <2>7. Works(m, w)
    BY <2>4, <2>5, <2>6, SetDirWorks
  <2>8. /\ w \in Live /\ w.dp = m.dp /\ w.res = m.res /\ w.fs.winsect = m.fs.winsect /\ dir(w) = e
    <3>1. \A q \in BOOLEAN : m \in Good(q) => /\ w \in Good(q) /\ w.dp = m.dp /\ w.res = m.res
                                              /\ w.fs.winsect = m.fs.winsect
      BY <2>5, <2>6, SetDirKeeps
    <3>2. /\ w \in Good(FALSE) /\ w.dp = m.dp /\ w.res = m.res /\ w.fs.winsect = m.fs.winsect
      BY <2>4, <3>1, LiveIs
    <3>3. dir(w) = e
      BY <2>4, <2>5, <2>6, SetDirShows
    <3> HIDE DEF w
    <3> QED
      BY <3>2, <3>3, GoodLives
  <2> HIDE DEF w
  <2>9. Roams(v, w)
    <3>1. Roams(m, w)
      BY <2>7, <2>8 DEF Roams, SameName
    <3> QED
      BY <2>4, <3>1, SeeksOn
  <2>10. OnEntry(w) /\ dir(w) = Entry(w.dp.fn, FALSE, FALSE, 0, 0) /\ w.res = "OK"
    BY <2>4, <2>5, <2>8 DEF OnEntry, e
  <2>11. r = w
    BY <1>1, <1>4, <2>4
  <2> QED
    BY <2>9, <2>10, <2>11 DEF GO, r
<1> QED
  BY <1>3, <1>4

-----------------------------------------------------------------------------
(* A step that went well, as it is returned.                               *)
LEMMA OKLive ==
  ASSUME NEW v \in Live
  PROVE  /\ OK(v) \in Live /\ OK(v).res = "OK" /\ SameStore(v, OK(v))
         /\ OK(v).ret = v.ret /\ OK(v).dp = v.dp /\ OK(v).fp = v.fp
         /\ OK(v).cnt = v.cnt /\ OK(v).buf = v.buf /\ OK(v).fs = v.fs
<1> DEFINE r == "OK"
           w == Res(v, r)
<1>1. r \in Results
  BY ResultsAre
<1> HIDE DEF r
<1>2. /\ w \in Live /\ w.res = r /\ SameStore(v, w) /\ w.ret = v.ret /\ w.dp = v.dp /\ w.fp = v.fp
      /\ w.cnt = v.cnt /\ w.buf = v.buf
  BY <1>1, ResLive
<1>3. w.fs = v.fs
  BY <1>2 DEF SameStore
<1> QED
  BY <1>2, <1>3, Zenon DEF OK, r

(* Dir_remove marks the entry that the DIR is at; what it claimed becomes  *)
(* a chain that no entry names.                                            *)
LEMMA DirRemoveSane ==
  ASSUME NEW v \in Live, InTable(v.dp)
  PROVE  LET w == dir_remove(v)
             a == <<v.dp.sect, Slot(v)>>
         IN  /\ Roams(v, w) /\ w.dp = v.dp /\ w.res \in {"OK", "DISK_ERR"}
             /\ \A P \in SUBSET RealClusters : \A X \in SUBSET Places : Sane(v, P, X) =>
                  /\ w.res = "OK" => Harmless(At(Sees(w), a)) /\ a \in Places
                  /\ \A Q : (w.res = "OK" /\ \A c \in Q : c \in P \/ (c # 0 /\ a \notin X /\ c = Claim(At(Sees(v), a))))
                               => Sane(w, Q, X)
<1> DEFINE w == dir_remove(v)
           a == <<v.dp.sect, Slot(v)>>
           m == move_window(v, v.dp.sect)
           e == [dir(m) EXCEPT !.nm = Deleted]
           s == SetDir(m, e)
<1>1. w = IF m.res = "OK" THEN s ELSE m
  BY Zenon DEF dir_remove, Then
<1>2. /\ Seeks(v, m) /\ m \in Live /\ m.dp = v.dp
      /\ m.res \in {"OK", "DISK_ERR"} /\ (m.res = "OK" => OnEntry(m))
  BY EntrySeeks
<1> HIDE DEF m
<1>3. e \in EntrySet /\ e.nm = Deleted
  <2>1. dir(m) \in EntrySet
    BY <1>2, SlotIs
  <2> QED
    <3>1. Deleted \in Words
      BY Zenon DEF Words
    <3> QED
      BY <2>1, <3>1 DEF EntrySet
<1> HIDE DEF e
<1>4. Harmless(e) /\ Claim(e) = 0 /\ ~Named(e)
  <2>1. ~Named(e)
    BY <1>3, Zenon DEF Named
  <2> QED
    BY <2>1 DEF Harmless, Claim
<1>5. Roams(v, m)
  BY <1>2, SeeksOn
<1>6. CASE m.res # "OK"
  <2>1. w = m
    BY <1>1, <1>6
  <2> HIDE DEF w
  <2>2. w.res # "OK" /\ Roams(v, w) /\ w.dp = v.dp /\ w.res \in {"OK", "DISK_ERR"}
    BY <1>2, <1>5, <1>6, <2>1
  <2> QED
    BY <2>2 DEF w
<1>7. CASE m.res = "OK"
  <2>1. m.fs.winsect = v.dp.sect /\ m.fs.winsect \in TableArea /\ OnEntry(m)
    <3>1. OnEntry(m)
      BY <1>2, <1>7
    <3>2. m.dp.sect \in TableArea
      BY <1>2, <3>1, LiveIs, InTableIs DEF OnEntry
    <3> QED
      BY <1>2, <3>1, <3>2 DEF OnEntry
  <2>2. Place(m) = a
    BY <1>2, <2>1 DEF Place, Slot
  <2> HIDE DEF a
  <2>3. Works(m, s)
    BY <1>2, <1>3, <1>4, <2>1, SetDirWorks
  <2>4. s \in Live /\ s.dp = m.dp /\ s.res = m.res
    <3>1. \A q \in BOOLEAN : m \in Good(q) => s \in Good(q) /\ s.dp = m.dp /\ s.res = m.res
      BY <1>3, <2>1, SetDirKeeps
    <3> HIDE DEF s
    <3> QED
      BY <1>2, <3>1, LiveIs, GoodLives
  <2>5. w = s
    BY <1>1, <1>7
  <2>6. Roams(v, s)
    <3> HIDE DEF s
    <3>1. Roams(m, s)
      BY <2>3, <2>4 DEF Roams, SameName
    <3> QED
      BY <1>5, <3>1, SeeksOn
  <2>7. ASSUME NEW P \in SUBSET RealClusters, NEW X \in SUBSET Places, Sane(v, P, X)
        PROVE  /\ Harmless(At(Sees(s), a)) /\ a \in Places
               /\ \A Q : (\A c \in Q : c \in P \/ (c # 0 /\ a \notin X /\ c = Claim(At(Sees(v), a))))
                            => Sane(s, Q, X)
    <3>1. Sane(m, P, X) /\ WinTrue(m)
      <4>1. Looks(v, m)
        BY <1>2 DEF Seeks
      <4>2. Sane(m, P, X)
        BY <2>7, <4>1, WorksSane
      <4> QED
        BY <4>2 DEF Sane
    <3>2. At(Sees(s), a) = e /\ a \in Places
      BY <1>2, <1>3, <2>1, <2>2, <3>1, SetDirSees
    <3>3. At(Sees(m), a) = At(Sees(v), a)
      <4>1. SameSlots(Sees(v), Sees(m))
        BY <1>2, LooksSlots DEF Seeks
      <4> QED
        BY <3>2, <4>1 DEF SameSlots
    <3>4. ASSUME NEW Q, \A c \in Q : c \in P \/ (c # 0 /\ a \notin X /\ c = Claim(At(Sees(v), a)))
          PROVE  Sane(s, Q, X)
      <4>1. Fits(Sees(m), e, Place(m), P, X)
        BY <1>4 DEF Fits
      <4>2. 0 \notin Q
        BY <3>4, LayoutIs DEF RealClusters
      <4>3. \A c \in Q : c \in P \/ (c # 0 /\ Place(m) \notin X /\ c = Claim(At(Sees(m), Place(m))))
        BY <2>2, <3>3, <3>4
      <4> HIDE DEF s
      <4>4. Sane(SetDir(m, e), Q, X)
        BY <1>2, <1>3, <1>4, <2>1, <3>1, <4>1, <4>2, <4>3, SetDirSane
      <4> QED
        BY <4>4 DEF s
    <3> HIDE DEF s
    <3> QED
      BY <1>4, <3>2, <3>4
  <2> HIDE DEF s
  <2>8. /\ Roams(v, w) /\ w.dp = v.dp /\ w.res = "OK"
        /\ \A P \in SUBSET RealClusters : \A X \in SUBSET Places : Sane(v, P, X) =>
             /\ Harmless(At(Sees(w), a)) /\ a \in Places
             /\ \A Q : (\A c \in Q : c \in P \/ (c # 0 /\ a \notin X /\ c = Claim(At(Sees(v), a))))
                          => Sane(w, Q, X)
    BY <1>2, <1>7, <2>4, <2>5, <2>6, <2>7
  <2> HIDE DEF w
  <2> QED
    BY <2>8, Zenon DEF w, a
<1> QED
  BY <1>6, <1>7

-----------------------------------------------------------------------------
(* Paths.  A path that was followed leads to the entry with its last name, *)
(* or to the directory it starts at, and has only read the card.           *)
Tagged(x, nm) == x.fn = nm /\ (x.dot <=> nm \in {".", ".."})
Arrives(v, w, nm) ==
  /\ w \in Live /\ Looks(v, w)
  /\ w.res = "OK" /\ ~w.dp.origin => OnEntry(w) /\ Met(w) /\ Tagged(w.dp, nm)

(* Create_name only sets the name.                                         *)
LEMMA CreateNameLooks ==
  ASSUME NEW v \in Live, NEW nm \in Words, NEW l \in BOOLEAN
  PROVE  LET w == create_name(v, nm, l)
         IN  /\ w \in Live /\ Looks(v, w) /\ w.res \in {"OK", "INVALID_NAME"}
             /\ w.res = "OK" => Tagged(w.dp, nm) /\ w.dp.last = l /\ w.dp.origin = FALSE
<1> DEFINE d == nm \in {".", ".."}
           x1 == [v.dp EXCEPT !.fn = nm]
           x2 == [x1 EXCEPT !.dot = d]
           x3 == [x2 EXCEPT !.last = l]
           x4 == [x3 EXCEPT !.origin = FALSE]
           u == WithDp(v, x4)
           w == OK(u)
           y == Res(v, "INVALID_NAME")
           j == [v EXCEPT !.dp.fn = nm, !.dp.dot = d, !.dp.last = l, !.dp.origin = FALSE]
           r == create_name(v, nm, l)
<1>0. v \in CallSet /\ v.dp \in DirSet /\ d \in BOOLEAN
  <2>1. d \in BOOLEAN
    OBVIOUS
  <2> QED
    BY <2>1, LiveIs
<1>1. r = IF nm \in BadNames THEN y ELSE OK(j)
  BY Zenon DEF create_name
<1>1a. d <=> nm \in {".", ".."}
  OBVIOUS
<1> HIDE DEF d, r
<1>2. j = u
  BY <1>0 DEF CallSet, DirSet, WithDp
<1>3. x1 \in DirSet /\ x1.fn = nm
  BY <1>0 DEF DirSet
<1> HIDE DEF x1
<1>4. x2 \in DirSet /\ x2.fn = nm /\ x2.dot = d
  BY <1>0, <1>3 DEF DirSet
<1> HIDE DEF x2
<1>5. x3 \in DirSet /\ x3.fn = nm /\ x3.dot = d /\ x3.last = l
  BY <1>4 DEF DirSet
<1> HIDE DEF x3
<1>6. x4 \in DirSet /\ x4.fn = nm /\ x4.dot = d /\ x4.last = l /\ x4.origin = FALSE
  BY <1>5 DEF DirSet
<1> HIDE DEF x4
<1>7. u \in Live /\ SameStore(v, u) /\ u.dp = x4
  BY <1>6, DpLive
<1> HIDE DEF u, j
<1>8. w \in Live /\ SameStore(u, w) /\ w.res = "OK" /\ w.dp = x4
  <2>1. w \in Live /\ SameStore(u, w) /\ w.res = "OK" /\ w.dp = u.dp
    BY <1>7, OKLive
  <2> QED
    BY <1>7, <2>1
<1>9. y \in Live /\ SameStore(v, y) /\ y.res = "INVALID_NAME"
  BY ResLive, ResultsAre
<1> HIDE DEF w, y
<1>10. Looks(v, w) /\ Looks(v, y)
  BY <1>7, <1>8, <1>9, StoreOn, StoreLooks
<1>11. Tagged(w.dp, nm) /\ w.dp.last = l /\ w.dp.origin = FALSE
  BY <1>1a, <1>6, <1>8 DEF Tagged
<1>12. r = IF nm \in BadNames THEN y ELSE w
  BY <1>1, <1>2 DEF w
<1> QED
  BY <1>8, <1>9, <1>10, <1>11, <1>12 DEF r

(* One name of a path,                                                     *)
LEMMA FollowNameLooks ==
  ASSUME NEW v \in Live, NEW nm \in Words, NEW l \in BOOLEAN
  PROVE  LET w == FollowName(v, nm, l)
         IN  Arrives(v, w, nm) /\ (w.res = "OK" => l)
<1> DEFINE c == create_name(v, nm, l)
           d == dir_find(c)
           f == IF c.res = "OK" THEN d ELSE c
           jo == [f EXCEPT !.dp.origin = TRUE]
           js == [f EXCEPT !.dp.sclust = dir(f).cl]
           xo == [f.dp EXCEPT !.origin = TRUE]
           xs == [f.dp EXCEPT !.sclust = dir(f).cl]
           uo == WithDp(f, xo)
           us == WithDp(f, xs)
           wo == OK(uo)
           ws == Res(us, GO)
           g == Res(f, GO)
           p == Res(f, "NO_PATH")
           r == FollowName(v, nm, l)
<1>1. r = IF f.res = "NO_FILE" /\ f.dp.dot THEN IF f.dp.last THEN OK(jo) ELSE g
        ELSE IF f.res = "NO_FILE" /\ ~f.dp.last THEN p
        ELSE IF f.res # "OK" \/ f.dp.last THEN f
        ELSE IF ~f.dp.dir THEN p ELSE Res(js, GO)
  BY Zenon DEF FollowName, With, Then, Again
<1> HIDE DEF r
<1>2. /\ c \in Live /\ Looks(v, c) /\ c.res \in {"OK", "INVALID_NAME"}
      /\ c.res = "OK" => Tagged(c.dp, nm) /\ c.dp.last = l /\ c.dp.origin = FALSE
  BY CreateNameLooks
<1> HIDE DEF c
<1>3. Seeks(c, d) /\ d.res # GO /\ (d.res = "OK" => OnEntry(d) /\ Met(d))
  BY <1>2, DirFindSeeks
<1> HIDE DEF d
<1>4. /\ f \in Live /\ Looks(v, f) /\ f.res # GO
      /\ f.res = "OK" => OnEntry(f) /\ Met(f)
      /\ f.res \in {"OK", "NO_FILE"} => Tagged(f.dp, nm) /\ f.dp.last = l /\ f.dp.origin = FALSE
  <2>1. CASE c.res = "OK"
    <3>1. f = d /\ d \in Live /\ Looks(c, d) /\ SameName(c.dp, d.dp)
      BY <1>3, <2>1 DEF Seeks
    <3>2. Looks(v, d)
      BY <1>2, <3>1, LooksOn
    <3>3. Tagged(d.dp, nm) /\ d.dp.last = l /\ d.dp.origin = FALSE
      BY <1>2, <2>1, <3>1 DEF SameName, Tagged
    <3> HIDE DEF f
    <3> QED
      BY <1>3, <3>1, <3>2, <3>3
  <2>2. CASE c.res # "OK"
    <3>1. f = c
      BY <2>2
    <3> HIDE DEF f
    <3> QED
      BY <1>2, <2>2, <3>1 DEF GO
  <2> QED
    BY <2>1, <2>2
<1> HIDE DEF f
<1>6. f \in CallSet /\ f.dp \in DirSet /\ dir(f) \in EntrySet
  BY <1>4, LiveIs, SlotIs
<1>7. jo = uo /\ js = us
  BY <1>6, DpChanges
<1>8. xo \in DirSet /\ xo.origin /\ xs \in DirSet
  <2>1. dir(f).cl \in ClusterNos
    BY <1>6 DEF EntrySet
  <2>2. xo \in DirSet /\ xo.origin
    BY <1>6 DEF DirSet
  <2>3. xs \in DirSet
    BY <1>6, <2>1 DEF DirSet
  <2> QED
    BY <2>2, <2>3
<1> HIDE DEF xo, xs
<1>9. uo \in Live /\ SameStore(f, uo) /\ uo.dp = xo /\ us \in Live /\ SameStore(f, us)
  BY <1>4, <1>8, DpLive
<1> HIDE DEF uo, us, jo, js
<1>11. wo \in Live /\ SameStore(uo, wo) /\ wo.dp = xo
  <2>1. wo \in Live /\ SameStore(uo, wo) /\ wo.dp = uo.dp
    BY <1>9, OKLive
  <2> QED
    BY <1>9, <2>1
<1>13. ws \in Live /\ SameStore(us, ws) /\ ws.res = GO
  BY <1>9, ResLive, ResultsAre
<1>14. g \in Live /\ SameStore(f, g) /\ g.res = GO
  BY <1>4, ResLive, ResultsAre
<1>15. p \in Live /\ SameStore(f, p) /\ p.res = "NO_PATH"
  BY <1>4, ResLive, ResultsAre
<1>17. r = IF f.res = "NO_FILE" /\ f.dp.dot THEN IF f.dp.last THEN wo ELSE g
        ELSE IF f.res = "NO_FILE" /\ ~f.dp.last THEN p
        ELSE IF f.res # "OK" \/ f.dp.last THEN f
        ELSE IF ~f.dp.dir THEN p ELSE ws
  BY <1>1, <1>7, Zenon DEF wo, ws
<1> HIDE DEF wo, ws, g, p
<1>16. Looks(v, wo) /\ Looks(v, ws) /\ Looks(v, g) /\ Looks(v, p)
  BY <1>4, <1>9, <1>11, <1>13, <1>14, <1>15, StoreOn, StoreLooks, LooksOn
<1>18. Arrives(v, wo, nm) /\ Arrives(v, ws, nm) /\ Arrives(v, g, nm) /\ Arrives(v, p, nm) /\ Arrives(v, f, nm)
  BY <1>4, <1>8, <1>11, <1>13, <1>14, <1>15, <1>16 DEF Arrives, GO
<1>19. Arrives(v, r, nm)
  BY <1>17, <1>18
<1>20. r.res = "OK" => l
  BY <1>4, <1>13, <1>14, <1>15, <1>17 DEF GO
<1> QED
  BY <1>19, <1>20 DEF r

(* The rule for the loop of follow_path.                                    *)
LEMMA FollowLoop ==
  ASSUME NEW v, NEW path \in Seq(Words), NEW V, Again(v) \in V,
         \A u \in V : \A k \in 1..Len(path) : u.res = GO => FollowName(u, path[k], k = Len(path)) \in V
  PROVE  \E e \in V : Follow(v, path) = IF e.res = GO THEN Res(e, "ENDLESS") ELSE e
<1> DEFINE n == Len(path)
           a == Again(v)
           B(u, k) == IF u.res = GO THEN FollowName(u, path[k], k = Len(path)) ELSE u
           F(h) == [k \in 0..n |-> IF k = 0 THEN a ELSE B(h[k - 1], k)]
           at == CHOOSE h : h = F(h)
           G == [p \in V \X (1..n) |-> B(p[1], p[2])]
<1>1. n \in Nat /\ a \in V
  BY SMT
<1>2. \A u \in V : \A k \in 1..n : B(u, k) \in V
  OBVIOUS
<1>3. Follow(v, path) = IF at[n].res = GO THEN Res(at[n], "ENDLESS") ELSE at[n]
  BY Zenon DEF Follow, Rounds, With
<1> HIDE DEF a, B, n
<1>4. G \in [V \X (1..n) -> V] /\ \A u \in V : \A k \in 1..n : G[<<u, k>>] = B(u, k)
  BY <1>2
<1> HIDE DEF G
<1>5. PICK g \in [0..n -> V] : Runs(g, V, a, G, n)
  BY <1>1, <1>4, LoopRuns, Zenon
<1>6. g = F(g)
  <2>1. \A k \in 1..n : g[k] = B(g[k - 1], k)
    BY <1>4, <1>5, Zenon DEF Runs
  <2>2. \A k \in 0..n : g[k] = IF k = 0 THEN a ELSE B(g[k - 1], k)
    BY <1>5, <2>1 DEF Runs
  <2> QED
    BY <2>2
<1>7. at = F(at)
  BY <1>6
<1> HIDE DEF at
<1>8. at[0] = a /\ \A k \in 1..n : at[k] = B(at[k - 1], k)
  BY <1>1, <1>7
<1>9. at[n] \in V
  <2>1. \A k \in 1..n : at[k - 1] \in V => at[k] \in V
    BY <1>2, <1>8, Zenon
  <2> QED
    BY <1>1, <1>8, <2>1, LoopStays, Zenon
<1> QED
  BY <1>3, <1>9, Zenon

(* All names of a path,                                                    *)
LEMMA FollowLooks ==
  ASSUME NEW v \in Live, NEW path \in Seq(Words)
  PROVE  LET w == Follow(v, path) IN Arrives(v, w, path[Len(path)]) /\ w.res # GO
<1> DEFINE V == {u \in Live : Arrives(v, u, path[Len(path)])}
           a == Again(v)
           w == Follow(v, path)
<1>1. a \in V
  <2>1. Looks(v, a) /\ a.res = GO /\ a \in Live
    BY AgainLive, StoreLooks
  <2> HIDE DEF a
  <2> QED
    BY <2>1 DEF Arrives, GO
<1>2. ASSUME NEW u \in V, NEW k \in 1..Len(path), u.res = GO
      PROVE  FollowName(u, path[k], k = Len(path)) \in V
  <2> DEFINE t == FollowName(u, path[k], k = Len(path))
  <2>1. path[k] \in Words /\ (k = Len(path)) \in BOOLEAN
    OBVIOUS
  <2>2. Arrives(u, t, path[k]) /\ (t.res = "OK" => k = Len(path))
    BY <2>1, FollowNameLooks
  <2> HIDE DEF t
  <2>3. Looks(v, t)
    BY <2>2, LooksOn DEF Arrives
  <2> QED
    BY <2>2, <2>3 DEF Arrives, t
<1> HIDE DEF V
<1>3. PICK e \in V : w = IF e.res = GO THEN Res(e, "ENDLESS") ELSE e
  BY <1>1, <1>2, FollowLoop
<1>4. Arrives(v, e, path[Len(path)]) /\ e \in Live /\ Looks(v, e)
  BY DEF V, Arrives
<1> DEFINE z == Res(e, "ENDLESS")
<1>5. z \in Live /\ SameStore(e, z) /\ z.res = "ENDLESS"
  BY <1>4, ResLive, ResultsAre
<1> HIDE DEF w, z
<1>6. Looks(v, z)
  BY <1>4, <1>5, StoreLooks, LooksOn
<1>7. Arrives(v, z, path[Len(path)]) /\ z.res # GO
  BY <1>5, <1>6 DEF Arrives, GO
<1> QED
  BY <1>3, <1>4, <1>7 DEF w, z

(* And follow_path.                                                        *)
LEMMA FollowPathLooks ==
  ASSUME NEW v \in Live, NEW path \in PathSet
  PROVE  LET w == follow_path(v, path)
         IN  /\ Arrives(v, w, path.seg[Len(path.seg)]) /\ w.res # GO
             /\ w.res = "OK" /\ path.seg = <<>> => w.dp.origin
<1> DEFINE c == IF path.abs THEN 0 ELSE v.fs.cdir
           x == [NoDir EXCEPT !.sclust = c]
           xo == [x EXCEPT !.origin = TRUE]
           u == WithDp(v, x)
           uo == WithDp(u, xo)
           j == [v EXCEPT !.dp = NoDir, !.dp.sclust = c]
           jo == [j EXCEPT !.dp.origin = TRUE]
           s == dir_sdi(uo, 0)
           f == Follow(u, path.seg)
           w == follow_path(v, path)
           nm == path.seg[Len(path.seg)]
<1>0. v \in CallSet /\ c \in ClusterNos /\ path.seg \in Seq(Words)
  <2>1. c \in ClusterNos
    <3>1. v.fs \in Volumes
      BY LiveIs
    <3>2. v.fs.cdir \in ClusterNos /\ 0 \in ClusterNos
      BY <3>1, LayoutIs DEF ClusterNos, Volumes, FsSet
    <3> QED
      BY <3>2
  <2> QED
    BY <2>1, LiveIs DEF PathSet
<1>1. w = IF path.seg = <<>> THEN dir_sdi(jo, 0) ELSE Follow(j, path.seg)
  BY Zenon DEF follow_path
<1> HIDE DEF c, w
<1>2. x \in DirSet
  BY <1>0, NoDirIs DEF DirSet
<1>3. j = u
  BY <1>0 DEF CallSet, WithDp
<1> HIDE DEF x
<1>4. xo \in DirSet /\ xo.origin
  BY <1>2 DEF DirSet
<1>5. u \in Live /\ SameStore(v, u) /\ u.dp = x
  BY <1>2, DpLive
<1>7. jo = uo
  <2>1. [u EXCEPT !.dp.origin = TRUE] = WithDp(u, [u.dp EXCEPT !.origin = TRUE])
    <3> HIDE DEF u
    <3> QED
      BY <1>5, LiveIs, DpChanges
  <2> HIDE DEF j, u
  <2>2. [u EXCEPT !.dp.origin = TRUE] = uo
    BY <1>5, <2>1, Zenon
  <2> QED
    BY <1>3, <2>2
<1> HIDE DEF xo, u, j, jo
<1>8. uo \in Live /\ SameStore(u, uo) /\ uo.dp = xo
  BY <1>4, <1>5, DpLive
<1> HIDE DEF uo
<1>10. Seeks(uo, s) /\ s.res \in {"OK", "INT_ERR", "DISK_ERR"}
  BY <1>8, DirSdiSeeks
<1> HIDE DEF s
<1>11. s \in Live /\ Looks(v, s) /\ s.dp.origin /\ s.res # GO
  <2>1. SameStore(v, uo)
    BY <1>5, <1>8, StoreOn
  <2>2. Looks(v, uo)
    BY <2>1, StoreLooks
  <2>3. Looks(v, s) /\ s \in Live
    BY <1>10, <2>2, LooksOn DEF Seeks
  <2> QED
    BY <1>4, <1>8, <1>10, <2>3 DEF Seeks, SameName, GO
<1>12. f.res # GO /\ Arrives(u, f, nm)
  BY <1>0, <1>5, FollowLooks
<1> HIDE DEF f
<1>13. Arrives(v, f, nm)
  BY <1>5, <1>12, StoreLooks, LooksOn DEF Arrives
<1>14. Arrives(v, s, nm)
  BY <1>11 DEF Arrives
<1>15. w = IF path.seg = <<>> THEN s ELSE f
  BY <1>1, <1>3, <1>7, Zenon DEF s, f
<1> HIDE DEF nm
<1>16. Arrives(v, w, nm) /\ w.res # GO /\ (path.seg = <<>> => w.dp.origin)
  BY <1>11, <1>12, <1>13, <1>14, <1>15
<1> QED
  BY <1>16 DEF w, nm

(* A call by name begins with this.                                        *)
LEMMA LookupLooks ==
  ASSUME NEW v \in Live, NEW path \in PathSet
  PROVE  LET w == Lookup(v, path)
         IN  /\ Arrives(v, w, path.seg[Len(path.seg)]) /\ w.res # GO
             /\ w.res = "OK" /\ path.seg = <<>> => w.dp.origin
             /\ w = follow_path(OK(v), path)
<1> DEFINE o == OK(v)
           w == Lookup(v, path)
           nm == path.seg[Len(path.seg)]
<1>1. mount_volume(v) = o
  <2>1. \A q \in BOOLEAN : v \in Good(q) => mount_volume(v) = o
    BY MountedIs
  <2> QED
    BY <2>1, LiveIs
<1>2. o \in Live /\ SameStore(v, o) /\ o.res = "OK"
  BY ResLive, ResultsAre DEF OK
<1>3. w = follow_path(o, path)
  BY <1>1, <1>2, Zenon DEF Lookup, Then
<1> HIDE DEF o, w, nm
<1>4. /\ Arrives(o, w, nm) /\ w.res # GO
      /\ w.res = "OK" /\ path.seg = <<>> => w.dp.origin
  BY <1>2, <1>3, FollowPathLooks DEF nm
<1>5. Arrives(v, w, nm)
  BY <1>2, <1>4, StoreLooks, LooksOn DEF Arrives
<1> QED
  BY <1>3, <1>4, <1>5 DEF w, nm, o

-----------------------------------------------------------------------------
(* The calls that only read.                                               *)

(* A call that only looks, and one that works, stay so when the working    *)
(* variables of the call are given other values.                           *)
LEMMA LooksField ==
  ASSUME NEW v, NEW u \in CallSet, Looks(v, u)
  PROVE  /\ \A x : Looks(v, [u EXCEPT !.res = x])
         /\ \A x : Looks(v, [u EXCEPT !.ret = x])
         /\ \A x : Looks(v, [u EXCEPT !.fp = x])
         /\ \A x : Looks(v, [u EXCEPT !.dp = x])
         /\ \A x : Looks(v, [u EXCEPT !.buf = x])
         /\ \A x : Looks(v, [u EXCEPT !.cnt = x])
<1>1. \A x : SameStore(u, x) => Looks(v, x)
  BY StoreLooks, LooksOn
<1> QED
  BY <1>1, FieldsStore

(* F_stat only looks.                                                      *)
LEMMA StatLooks ==
  ASSUME NEW v \in Live, NEW path \in PathSet
  PROVE  Looks(v, f_stat(v, path)) /\ f_stat(v, path) \in Live
<1> DEFINE f == Lookup(v, path)
           x == Res(f, "INVALID_NAME")
           b == <<dir(f)>>
           w == [f EXCEPT !.buf = b]
<1>1. f_stat(v, path) = IF f.res = "OK" THEN IF f.dp.origin THEN x ELSE w ELSE f
  BY Zenon DEF f_stat, Then
<1>2. f \in Live /\ Looks(v, f)
  BY LookupLooks DEF Arrives
<1> HIDE DEF f
<1>3. f \in CallSet
  BY <1>2, LiveIs
<1>4. Looks(v, x) /\ Looks(v, w)
  BY <1>2, <1>3, LooksField DEF Res
<1>5. f_stat(v, path) \in Live
  <2>1. \A q \in BOOLEAN : v \in Good(q) => f_stat(v, path) \in Good(q)
    BY StatKeeps
  <2> QED
    BY <2>1, LiveIs, GoodLives
<1> HIDE DEF x, w
<1> QED
  BY <1>1, <1>2, <1>4, <1>5

(* F_opendir only looks.                                                   *)
LEMMA OpendirLooks ==
  ASSUME NEW v \in Live, NEW path \in PathSet
  PROVE  LET w == f_opendir(v, path)
         IN  Looks(v, w) /\ w \in Live /\ (w.res = "OK" => InTable(w.dp))
<1> DEFINE f == Lookup(v, path)
           c == IF f.dp.origin THEN f.dp.sclust ELSE dir(f).cl
           x1 == [f.dp EXCEPT !.id = f.fs.id]
           x2 == [x1 EXCEPT !.sclust = c]
           u == WithDp(f, x2)
           j == [f EXCEPT !.dp.id = f.fs.id,
                          !.dp.sclust = IF f.dp.origin THEN @ ELSE dir(f).cl]
           s == dir_sdi(u, 0)
           x == Res(f, "NO_PATH")
           t == IF f.res = "OK" THEN IF ~f.dp.origin /\ ~f.dp.dir THEN x ELSE s ELSE f
           d == NoPath(t)
           y == [d.dp EXCEPT !.open = (d.res = "OK")]
           w == WithDp(d, y)
<1>1. /\ f \in Live /\ Looks(v, f) /\ f.dp \in DirSet /\ dir(f) \in EntrySet
      /\ f \in CallSet /\ f.fs.id \in Nat
  <2>1. f \in Live /\ Looks(v, f)
    BY LookupLooks DEF Arrives
  <2> HIDE DEF f
  <2>2. f.dp \in DirSet /\ f \in CallSet /\ dir(f) \in EntrySet /\ f.fs \in Volumes
    BY <2>1, LiveIs, SlotIs
  <2> QED
    BY <2>1, <2>2 DEF Volumes, FsSet
<1>2. f_opendir(v, path) =
        LET e == NoPath(IF f.res = "OK" THEN IF ~f.dp.origin /\ ~f.dp.dir THEN x
                                             ELSE dir_sdi(j, 0) ELSE f)
        IN  [e EXCEPT !.dp.open = (e.res = "OK")]
  BY Zenon DEF f_opendir, With, Then
<1> HIDE DEF f
<1>3. j = u
  BY <1>1 DEF CallSet, DirSet, WithDp
<1>4. f_opendir(v, path) = [d EXCEPT !.dp.open = (d.res = "OK")]
  BY <1>2, <1>3, Zenon
<1>5. x1 \in DirSet
  BY <1>1 DEF DirSet
<1>6. c \in ClusterNos
  BY <1>1 DEF DirSet, EntrySet
<1> HIDE DEF x1, c
<1>7. x2 \in DirSet
  BY <1>5, <1>6 DEF DirSet
<1> HIDE DEF x2
<1>8. Looks(v, u) /\ u \in Live
  <2>1. Looks(v, u)
    BY <1>1, LooksField DEF WithDp
  <2>2. u \in Live
    BY <1>1, <1>7, DpLive
  <2> QED
    BY <2>1, <2>2
<1> HIDE DEF u, j
<1>9. Looks(v, s) /\ s \in Live
  <2>1. Seeks(u, s)
    BY <1>8, DirSdiSeeks
  <2> HIDE DEF s
  <2> QED
    BY <1>8, <2>1, LooksOn DEF Seeks
<1>10. Looks(v, x) /\ x \in Live
  <2>1. Looks(v, x)
    BY <1>1, LooksField DEF Res
  <2>2. x \in Live
    BY <1>1, ResLive, ResultsAre
  <2> QED
    BY <2>1, <2>2
<1> HIDE DEF s, x
<1>11. Looks(v, t) /\ t \in Live
  BY <1>1, <1>9, <1>10
<1> HIDE DEF t
<1>12. Looks(v, d) /\ d \in Live
  <2> DEFINE z == Res(t, "NO_PATH")
  <2>1. Looks(v, z)
    BY <1>11, LiveIs, LooksField DEF Res
  <2>2. z \in Live
    BY <1>11, ResLive, ResultsAre
  <2>3. d = t \/ d = z
    BY DEF NoPath
  <2> QED
    BY <1>11, <2>1, <2>2, <2>3
<1> HIDE DEF d
<1>13. d \in CallSet /\ d.dp \in DirSet
  BY <1>12, LiveIs
<1>14. [d EXCEPT !.dp.open = (d.res = "OK")] = w
  BY <1>13, DpChanges
<1>15. Looks(v, w)
  BY <1>12, <1>13, LooksField DEF WithDp
<1>16. LET r == f_opendir(v, path) IN r \in Live /\ (r.res = "OK" => InTable(r.dp))
  <2>1. \A q \in BOOLEAN : v \in Good(q) =>
            LET r == f_opendir(v, path) IN r \in Good(q) /\ (r.res = "OK" => InTable(r.dp))
    BY OpendirKeeps
  <2> QED
    BY <2>1, LiveIs, GoodLives
<1> HIDE DEF w
<1> QED
  BY <1>4, <1>14, <1>15, <1>16

(* The check of an object that is open.                                    *)
LEMMA ValidateLooks ==
  ASSUME NEW v \in Live, NEW o
  PROVE  LET w == validate(v, o)
         IN  /\ w \in Live /\ Looks(v, w) /\ w.res \in {"OK", "INVALID_OBJECT"} /\ SameStore(v, w)
             /\ w.dp = v.dp /\ w.fs = v.fs /\ w.fp = v.fp /\ w.cnt = v.cnt
<1> DEFINE a == Res(v, "OK")
           b == Res(v, "INVALID_OBJECT")
<1>1. validate(v, o) = IF o.open /\ v.fs.type # 0 /\ o.id = v.fs.id THEN a ELSE b
  BY Zenon DEF validate, OK
<1>2. /\ a \in Live /\ a.res = "OK" /\ SameStore(v, a) /\ a.dp = v.dp /\ a.fp = v.fp /\ a.cnt = v.cnt
  BY ResLive, ResultsAre
<1>3. /\ b \in Live /\ b.res = "INVALID_OBJECT" /\ SameStore(v, b) /\ b.dp = v.dp /\ b.fp = v.fp /\ b.cnt = v.cnt
  BY ResLive, ResultsAre
<1> HIDE DEF a, b
<1>4. Looks(v, a) /\ Looks(v, b) /\ a.fs = v.fs /\ b.fs = v.fs
  BY <1>2, <1>3, StoreLooks DEF SameStore
<1> QED
  BY <1>1, <1>2, <1>3, <1>4

(* F_readdir only looks.                                                   *)
LEMMA ReaddirLooks ==
  ASSUME NEW v \in Live, AtOrPast(v.dp)
  PROVE  LET w == f_readdir(v)
         IN  w \in Live /\ Looks(v, w) /\ (w.res = "OK" => w.buf = <<>> \/ AtOrPast(w.dp))
<1> DEFINE u == validate(v, v.dp)
           r == dir_read(u)
           e == [r EXCEPT !.buf = <<>>]
           c == <<dir(r)>>
           b == [r EXCEPT !.buf = c]
           n == dir_next(b, FALSE)
           w == f_readdir(v)
<1>1. w = IF u.res # "OK" THEN u
          ELSE IF r.res = "NO_FILE" THEN Res(e, "OK")
          ELSE IF r.res # "OK" THEN r
          ELSE IF n.res = "NO_FILE" THEN Res(n, "OK") ELSE n
  BY Zenon DEF f_readdir, Then, With, OK
<1>0. w \in Live /\ (w.res = "OK" => w.buf = <<>> \/ AtOrPast(w.dp))
  <2>1. \A q \in BOOLEAN : v \in Good(q) /\ AtOrPast(v.dp) =>
            LET z == f_readdir(v) IN z \in Good(q) /\ (z.res = "OK" => z.buf = <<>> \/ AtOrPast(z.dp))
    BY ReaddirKeeps
  <2>2. \A x : AtOrPast(x) <=> AtOrPast(x)
    BY DEF AtOrPast, AtOrPast
  <2> QED
    BY <2>1, <2>2, LiveIs, GoodLives
<1> HIDE DEF w
<1>2. u \in Live /\ u.dp = v.dp /\ Looks(v, u)
  BY ValidateLooks
<1> HIDE DEF u
<1>4. r \in Live /\ Looks(v, r) /\ (r.res = "OK" => OnEntry(r))
  <2>1. Seeks(u, r) /\ (r.res = "OK" => OnEntry(r))
    BY <1>2, DirReadSeeks
  <2> HIDE DEF r
  <2> QED
    BY <1>2, <2>1, LooksOn DEF Seeks
<1> HIDE DEF r
<1>5. r \in CallSet
  BY <1>4, LiveIs
<1>6. Looks(v, e) /\ e \in CallSet
  <2>1. <<>> \in Seq(Words \union EntrySet)
    OBVIOUS
  <2> QED
    BY <1>4, <1>5, <2>1, LooksField, SetBuf
<1>7. Looks(v, Res(e, "OK"))
  BY <1>6, LooksField DEF Res
<1>8. ASSUME r.res = "OK"
      PROVE  Looks(v, n) /\ Looks(v, Res(n, "OK"))
  <2>1. dir(r) \in EntrySet
    BY <1>4, SlotIs
  <2>2. c \in Seq(Words \union EntrySet)
    BY <2>1
  <2> HIDE DEF c
  <2>3. b \in Live /\ b.dp = r.dp
    <3>1. \A q \in BOOLEAN : r \in Good(q) => b \in Good(q) /\ b.dp = r.dp
      BY <2>2, BufGoes
    <3> QED
      BY <1>4, <3>1, LiveIs, GoodLives
  <2>4. Looks(v, b)
    BY <1>4, <1>5, LooksField
  <2> HIDE DEF b
  <2>5. AtOrPast(b.dp)
    BY <1>4, <1>8, <2>3 DEF OnEntry, AtOrPast
  <2>6. Looks(v, n) /\ n \in Live
    <3>1. Seeks(b, n)
      BY <2>3, <2>5, DirNextRoams
    <3> HIDE DEF n
    <3> QED
      BY <2>4, <3>1, LooksOn DEF Seeks
  <2> HIDE DEF n
  <2> QED
    BY <2>6, LiveIs, LooksField DEF Res
<1> HIDE DEF e, n
<1>9. Looks(v, w)
  BY <1>1, <1>2, <1>4, <1>7, <1>8
<1> QED
  BY <1>0, <1>9 DEF w

(* F_unlink's look into the directory that it removes.                     *)
LEMMA TestEmptyLooks ==
  ASSUME NEW v \in Live, NEW c \in ClusterNos
  PROVE  LET w == TestEmpty(v, c)
         IN  w \in Live /\ Looks(v, w) /\ w.dp = v.dp
<1> DEFINE x == [NoDir EXCEPT !.sclust = c]
           u == WithDp(v, x)
           s == dir_sdi(u, 0)
           d == dir_read(s)
           r == IF s.res = "OK" THEN d ELSE s
           e == IF r.res = "OK" THEN "DENIED" ELSE IF r.res = "NO_FILE" THEN "OK" ELSE r.res
           p == WithDp(r, v.dp)
           w == Res(p, e)
<1>1. TestEmpty(v, c) = [r EXCEPT !.dp = v.dp,
                           !.res = IF @ = "OK" THEN "DENIED"
                                   ELSE IF @ = "NO_FILE" THEN "OK" ELSE @]
  BY Zenon DEF TestEmpty, With, Then, WithDp
<1>0. TestEmpty(v, c) \in Live /\ TestEmpty(v, c).dp = v.dp
  <2>1. \A q \in BOOLEAN : v \in Good(q) => LET z == TestEmpty(v, c) IN z \in Good(q) /\ z.dp = v.dp
    BY TestEmptyKeeps DEF Went
  <2> QED
    BY <2>1, LiveIs, GoodLives
<1>2. x \in DirSet
  BY NoDirIs DEF DirSet
<1> HIDE DEF x
<1>3. u \in Live /\ Looks(v, u)
  BY <1>2, DpLive, StoreLooks
<1> HIDE DEF u
<1>4. s \in Live /\ Looks(v, s) /\ (s.res = "OK" => InTable(s.dp))
  <2>1. Seeks(u, s) /\ (s.res = "OK" => InTable(s.dp))
    BY <1>3, DirSdiSeeks
  <2> HIDE DEF s
  <2> QED
    BY <1>3, <2>1, LooksOn DEF Seeks
<1> HIDE DEF s
<1>5. s.res = "OK" => d \in Live /\ Looks(v, d)
  <2>1. SUFFICES ASSUME s.res = "OK" PROVE d \in Live /\ Looks(v, d)
    OBVIOUS
  <2>2. AtOrPast(s.dp)
    BY <1>4, <2>1 DEF AtOrPast
  <2>3. Seeks(s, d)
    BY <1>4, <2>2, DirReadSeeks
  <2> HIDE DEF d
  <2> QED
    BY <1>4, <2>3, LooksOn DEF Seeks
<1> HIDE DEF d
<1>6. r \in Live /\ Looks(v, r)
  BY <1>4, <1>5
<1> HIDE DEF r
<1>7. r \in CallSet /\ v.dp \in DirSet
  BY <1>6, LiveIs
<1>8. TestEmpty(v, c) = w
  BY <1>1, <1>7 DEF CallSet, WithDp, Res
<1>9. Looks(v, p) /\ p \in CallSet
  BY <1>6, <1>7, LooksField, SetDp DEF WithDp
<1> HIDE DEF p, e
<1>10. Looks(v, w)
  BY <1>9, LooksField DEF Res
<1> HIDE DEF w
<1> QED
  BY <1>0, <1>8, <1>10

-----------------------------------------------------------------------------
(* F_read.                                                                 *)
Peeks(v, w) == w \in Live /\ Looks(v, w) /\ w.fp.mod = v.fp.mod

(* Two steps that look and keep the mark of a modified file are one. *)
LEMMA PeeksOn ==
  ASSUME NEW v, NEW w, NEW u, Peeks(v, w), Peeks(w, u)
  PROVE  Peeks(v, u)
BY LooksOn DEF Peeks

(* A call on the same store with the same mark of the file is one.         *)
LEMMA PeeksStore ==
  ASSUME NEW v, NEW w \in Live, SameStore(v, w), w.fp.mod = v.fp.mod
  PROVE  Peeks(v, w)
BY StoreLooks DEF Peeks

(* The error that stays with a file changes nothing of the volume, *)
LEMMA AbortStore ==
  ASSUME NEW v \in CallSet, NEW e
  PROVE  LET w == Abort(v, e)
         IN  /\ SameStore(v, w) /\ w.fp.mod = v.fp.mod /\ w.fp.sclust = v.fp.sclust
             /\ w.fp.size = v.fp.size /\ w.fp.fptr = v.fp.fptr /\ w.fp.err = e /\ w.res = e
             /\ w.fp.clust = v.fp.clust /\ w.fp.open = v.fp.open
             /\ w.fp.dsect = v.fp.dsect /\ w.fp.dptr = v.fp.dptr
BY DEF Abort, CallSet, FilSet, SameStore

(* Nor do the bytes that are behind, *)
LEMMA AdvanceStore ==
  ASSUME NEW v \in CallSet, NEW k
  PROVE  SameStore(v, Advance(v, k)) /\ Advance(v, k).fp.mod = v.fp.mod
BY DEF Advance, CallSet, FilSet, SameStore

(* Nor the cluster or the sector of a file. *)
LEMMA SpotStore ==
  ASSUME NEW v \in CallSet, NEW x
  PROVE  /\ SameStore(v, [v EXCEPT !.fp.clust = x]) /\ [v EXCEPT !.fp.clust = x].fp.mod = v.fp.mod
         /\ SameStore(v, [v EXCEPT !.fp.sect = x]) /\ [v EXCEPT !.fp.sect = x].fp.mod = v.fp.mod
         /\ [v EXCEPT !.fp.clust = x] \in [disk : Cards, fs : Volumes, fp : {[v.fp EXCEPT !.clust = x]}, dp : DirSet,
            res : Results, ret : Nat, buf : Seq(Words \union EntrySet),
            cnt : Nat, n : Nat, from : Int, to : Int, media : SUBSET Cards]
BY DEF CallSet, FilSet, SameStore

(* F_read's way to its cluster only looks.                                 *)
LEMMA ReadClusterPeeks ==
  ASSUME NEW v \in Live, Held(v.fp)
  PROVE  Peeks(v, ReadCluster(v))
<1> DEFINE g == get_fat(v, v.fp.clust)
           r == Ret(v, v.fp.sclust)
           c == IF v.fp.fptr = 0 THEN r ELSE g
           j == [c EXCEPT !.fp.clust = c.ret]
           w == Res(j, "OK")
           o == Res(v, "OK")
           b == Abort(c, ClusterError(c.ret))
<1>1. ReadCluster(v) = IF ~AtSector(v) \/ SectInClust(v) # 0 THEN o
                       ELSE IF c.ret \in {0, 1, DISKERR} THEN b ELSE w
  BY Zenon DEF ReadCluster, With, OK
<1>0. ReadCluster(v) \in Live
  <2>1. \A q \in BOOLEAN : v \in Good(q) => ReadCluster(v) \in Good(q)
    BY ReadClusterKeeps DEF Aborted, Stays
  <2> QED
    BY <2>1, LiveIs, GoodLives
<1>2. c \in Live /\ Looks(v, c) /\ c.fp = v.fp
  <2>1. v.fp.clust \in Int /\ v.fp.sclust \in Nat
    <3>1. \A q \in BOOLEAN : v \in Good(q) => v.fp.clust \in Int /\ v.fp.sclust \in Nat
      BY FilIs
    <3> QED
      BY <3>1, LiveIs
  <2>2. Looks(v, r) /\ r \in Live /\ r.fp = v.fp
    BY <2>1, RetLive, StoreLooks
  <2>3. Looks(v, g) /\ g \in Live
    BY <2>1, GetFatLooks
  <2>4. g.fp = v.fp
    BY <2>1, GetFatWork DEF SameWork
  <2> HIDE DEF r, g
  <2> QED
    BY <2>2, <2>3, <2>4
<1> HIDE DEF c
<1>3. c \in CallSet
  BY <1>2, LiveIs
<1>4. Looks(v, b) /\ b.fp.mod = v.fp.mod
  BY <1>2, <1>3, AbortStore, StoreLooks, LooksOn
<1> HIDE DEF b
<1>5. Looks(v, o) /\ o.fp.mod = v.fp.mod
  BY ResLive, ResultsAre, StoreLooks
<1> HIDE DEF o
<1>6. Looks(v, w) /\ w.fp.mod = v.fp.mod
  <2>1. SameStore(c, j) /\ j.fp.mod = c.fp.mod
    BY <1>3, SpotStore
  <2>2. j \in [disk : Cards, fs : Volumes, fp : {[c.fp EXCEPT !.clust = c.ret]}, dp : DirSet,
            res : Results, ret : Nat, buf : Seq(Words \union EntrySet),
            cnt : Nat, n : Nat, from : Int, to : Int, media : SUBSET Cards]
    BY <1>3, SpotStore
  <2> HIDE DEF j
  <2>3. SameStore(j, w) /\ w.fp = j.fp
    BY <2>2 DEF SameStore, Res
  <2> HIDE DEF w
  <2> QED
    BY <1>2, <2>1, <2>3, StoreLooks, LooksOn
<1> HIDE DEF w
<1> QED
  BY <1>0, <1>1, <1>4, <1>5, <1>6 DEF Peeks

(* So does the part of a sector that is read through the window.           *)
LEMMA ReadPartPeeks ==
  ASSUME NEW v \in Live, Held(v.fp), v.fp.err = "OK",
         v.fp.sect \in TableArea, NEW k \in Nat, (v.fp.fptr % SectorBytes) + k <= SectorBytes
  PROVE  Peeks(v, ReadPart(v, k))
<1> DEFINE m == move_window(v, v.fp.sect)
           ofs == v.fp.fptr % SectorBytes
           t == m.buf \o SubSeq(BytesOf(m.fs.win), ofs + 1, ofs + k)
           y == [m EXCEPT !.buf = t]
           w == Advance(y, k)
           b == Abort(m, "DISK_ERR")
<1>1. ReadPart(v, k) = IF m.res # "OK" THEN b ELSE w
  BY Zenon DEF ReadPart, With
<1>0. ReadPart(v, k) \in Live
  <2>1. \A q \in BOOLEAN : v \in Good(q) => ReadPart(v, k) \in Good(q)
    BY ReadPartKeeps DEF Aborted, Moved
  <2> QED
    BY <2>1, LiveIs, GoodLives
<1>2. v.fp.sect \in WinSects
  BY AreasApart
<1>3. m \in Live /\ Looks(v, m)
  BY <1>2, MoveWindowLooks
<1>4. m.fp = v.fp
  <2>1. \A q \in BOOLEAN : v \in Good(q) => m.fp = v.fp
    BY <1>2, MoveGoes DEF Went, SameFile
  <2> QED
    BY <2>1, LiveIs
<1> HIDE DEF m
<1>5. m \in CallSet
  BY <1>3, LiveIs
<1>6. Looks(v, b) /\ b.fp.mod = v.fp.mod
  BY <1>3, <1>4, <1>5, AbortStore, StoreLooks, LooksOn
<1> HIDE DEF b, t
<1>7. Looks(v, w) /\ w.fp.mod = v.fp.mod
  <2>1. SameStore(m, w) /\ w.fp.mod = m.fp.mod
    BY <1>5 DEF Advance, CallSet, FilSet, SameStore
  <2> HIDE DEF w
  <2> QED
    BY <1>3, <1>4, <2>1, StoreLooks, LooksOn
<1> HIDE DEF w
<1> QED
  BY <1>0, <1>1, <1>6, <1>7 DEF Peeks

(* And a sector that is read past it.                                      *)
LEMMA ReadSectorPeeks ==
  ASSUME NEW v \in Live, NEW s \in Sectors
  PROVE  Peeks(v, ReadSector(v, s))
<1> DEFINE r == DiskRead(v, s)
           c == IF r.fs.wflag /\ r.fs.winsect = s THEN r.fs.win ELSE r.disk[s]
           y == [r EXCEPT !.buf = @ \o BytesOf(c)]
           w == Again(y)
<1>1. ReadSector(v, s) = IF r.res = "OK" THEN w ELSE r
  BY Zenon DEF ReadSector, Then
<1>0. ReadSector(v, s) \in Live /\ ReadSector(v, s).fp = v.fp
  <2>1. \A q \in BOOLEAN : v \in Good(q) => ReadSector(v, s) \in Good(q) /\ ReadSector(v, s).fp = v.fp
    BY ReadSectorKeeps
  <2> QED
    BY <2>1, LiveIs, GoodLives
<1>2. v \in CallSet
  BY LiveIs
<1>3. SameStore(v, r)
  BY <1>2, DiskReadStore
<1>4. SameStore(r, w)
  <2>1. r = [[v EXCEPT !.n = @ + 1] EXCEPT !.res = IF Fails(v) THEN "DISK_ERR" ELSE "OK"]
    BY <1>2 DEF DiskRead, CallSet
  <2> DEFINE x == IF Fails(v) THEN "DISK_ERR" ELSE "OK"
             z == BytesOf(c)
  <2>2. DOMAIN r = DOMAIN v
    BY <1>2 DEF DiskRead, CallSet
  <2>3. DOMAIN r = {"disk", "fs", "fp", "dp", "res", "ret", "buf", "cnt", "n", "from", "to", "media"}
    BY <1>2, <2>2 DEF CallSet
  <2> HIDE DEF r, z
  <2> QED
    BY <2>3 DEF SameStore, Again, Res
<1> HIDE DEF r, w
<1>5. Looks(v, ReadSector(v, s))
  BY <1>1, <1>3, <1>4, StoreLooks, StoreOn
<1> QED
  BY <1>0, <1>5 DEF Peeks

(* The rule for the loop that reads sectors.                                *)
LEMMA ReadSectorsLoop ==
  ASSUME NEW v, NEW s, NEW z \in Nat, NEW V, Again(v) \in V,
         \A u \in V : \A k \in 1..z : u.res = GO => ReadSector(u, s + k - 1) \in V
  PROVE  \E e \in V : ReadSectors(v, s, z) = IF e.res = GO THEN Res(e, "OK") ELSE e
<1> DEFINE n == z
           a == Again(v)
           B(u, k) == IF u.res = GO THEN ReadSector(u, s + k - 1) ELSE u
           F(h) == [k \in 0..n |-> IF k = 0 THEN a ELSE B(h[k - 1], k)]
           at == CHOOSE h : h = F(h)
           G == [p \in V \X (1..n) |-> B(p[1], p[2])]
<1>1. n \in Nat /\ a \in V
  BY Zenon
<1>2. \A u \in V : \A k \in 1..n : B(u, k) \in V
  OBVIOUS
<1>3. ReadSectors(v, s, z) = IF at[n].res = GO THEN Res(at[n], "OK") ELSE at[n]
  BY Zenon DEF ReadSectors, Rounds, With
<1> HIDE DEF a, B, n
<1>4. G \in [V \X (1..n) -> V] /\ \A u \in V : \A k \in 1..n : G[<<u, k>>] = B(u, k)
  BY <1>2
<1> HIDE DEF G
<1>5. PICK g \in [0..n -> V] : Runs(g, V, a, G, n)
  BY <1>1, <1>4, LoopRuns, Zenon
<1>6. g = F(g)
  <2>1. \A k \in 1..n : g[k] = B(g[k - 1], k)
    BY <1>4, <1>5, Zenon DEF Runs
  <2>2. \A k \in 0..n : g[k] = IF k = 0 THEN a ELSE B(g[k - 1], k)
    BY <1>5, <2>1 DEF Runs
  <2> QED
    BY <2>2
<1>7. at = F(at)
  BY <1>6
<1> HIDE DEF at
<1>8. at[0] = a /\ \A k \in 1..n : at[k] = B(at[k - 1], k)
  BY <1>1, <1>7
<1>9. at[n] \in V
  <2>1. \A k \in 1..n : at[k - 1] \in V => at[k] \in V
    BY <1>2, <1>8, Zenon
  <2> QED
    BY <1>1, <1>8, <2>1, LoopStays, Zenon
<1> QED
  BY <1>3, <1>9, Zenon

(* And a row of them.                                                      *)
LEMMA ReadSectorsPeeks ==
  ASSUME NEW v \in Live, NEW s \in Int, NEW z \in Nat,
         \A i \in 1..z : s + i - 1 \in TableArea
  PROVE  Peeks(v, ReadSectors(v, s, z))
<1> DEFINE V == {u \in Live : Peeks(v, u)}
<1>1. Again(v) \in V
  BY AgainLive, PeeksStore
<1>2. \A u \in V : \A k \in 1..z : u.res = GO => ReadSector(u, s + k - 1) \in V
  <2>1. ASSUME NEW u \in V, NEW k \in 1..z PROVE ReadSector(u, s + k - 1) \in V
    <3>1. s + k - 1 \in Sectors
      BY TableHolds
    <3>2. Peeks(u, ReadSector(u, s + k - 1))
      BY <3>1, ReadSectorPeeks
    <3> QED
      BY <3>2, PeeksOn DEF Peeks
  <2> QED
    BY <2>1
<1>3. PICK e \in V : ReadSectors(v, s, z) = IF e.res = GO THEN Res(e, "OK") ELSE e
  BY <1>1, <1>2, ReadSectorsLoop
<1>4. Peeks(v, e) /\ e \in Live
  OBVIOUS
<1>5. Peeks(v, Res(e, "OK"))
  BY <1>4, ResLive, ResultsAre, PeeksStore, PeeksOn
<1> QED
  BY <1>3, <1>4, <1>5

(* The cluster, the byte and the size of an open file are numbers.         *)
LEMMA FileIs ==
  ASSUME NEW v \in Live
  PROVE  /\ v \in CallSet /\ v.fp \in FilSet /\ v.fp.clust \in FileClusters /\ v.fp.clust \in Nat
         /\ v.fp.sclust \in ClusterNos /\ v.fp.sclust \in Nat /\ v.fp.fptr \in Nat /\ v.fp.size \in Nat
         /\ v.fp.open \in BOOLEAN /\ v.fp.mod \in BOOLEAN /\ v.fp.err \in Results
         /\ v.cnt \in Nat /\ v.buf \in Seq(Words \union EntrySet)
<1>1. \A q \in BOOLEAN : v \in Good(q) =>
         /\ v \in CallSet /\ v.fp \in FilSet /\ v.fp.clust \in FileClusters /\ v.fp.clust \in Nat
         /\ v.fp.sclust \in ClusterNos /\ v.fp.sclust \in Nat /\ v.fp.fptr \in Nat /\ v.fp.size \in Nat
         /\ v.fp.open \in BOOLEAN /\ v.fp.mod \in BOOLEAN /\ v.fp.err \in Results
         /\ v.cnt \in Nat /\ v.buf \in Seq(Words \union EntrySet)
  BY FilIs
<1> QED
  BY <1>1, LiveIs

(* Where a step of the loops is in its cluster, and how much it moves.     *)
LEMMA StepIs ==
  ASSUME NEW v \in Live, NEW len \in Nat
  PROVE  /\ SectInClust(v) \in 0 .. ClusterSectors - 1
         /\ PartBytes(v, len) \in Nat /\ PartBytes(v, len) <= len
         /\ (v.fp.fptr % SectorBytes) + PartBytes(v, len) <= SectorBytes
         /\ WholeSectors(v, len) \in Nat /\ WholeSectors(v, len) * SectorBytes \in Nat
         /\ WholeSectors(v, len) * SectorBytes <= len
         /\ WholeSectors(v, len) + SectInClust(v) <= ClusterSectors
         /\ WholeSectors(v, len) # 0 => AtSector(v)
<1>1. \A q \in BOOLEAN : v \in Good(q) =>
         /\ SectInClust(v) \in 0 .. ClusterSectors - 1
         /\ PartBytes(v, len) \in Nat /\ PartBytes(v, len) <= len
         /\ (v.fp.fptr % SectorBytes) + PartBytes(v, len) <= SectorBytes
  BY SpotIs
<1>2. \A q \in BOOLEAN : v \in Good(q) =>
         /\ WholeSectors(v, len) \in Nat /\ WholeSectors(v, len) * SectorBytes \in Nat
         /\ WholeSectors(v, len) * SectorBytes <= len
         /\ WholeSectors(v, len) + SectInClust(v) <= ClusterSectors
         /\ WholeSectors(v, len) # 0 => AtSector(v)
  BY WholeIs
<1> QED
  BY <1>1, <1>2, LiveIs

(* The sectors that a step moves are the cluster's.                        *)
LEMMA StepSectors ==
  ASSUME NEW v \in Live, NEW len \in Nat, clst2sect(v.fp.clust) # 0
  PROVE  LET sect == clst2sect(v.fp.clust) + SectInClust(v)
         IN  /\ sect \in TableArea /\ sect \in Int
             /\ \A j \in 1 .. WholeSectors(v, len) : sect + j - 1 \in TableArea
<1> DEFINE top == clst2sect(v.fp.clust)
           i == SectInClust(v)
           cc == WholeSectors(v, len)
<1>1. v.fp.clust \in FileClusters /\ i \in 0 .. ClusterSectors - 1 /\ cc \in Nat /\ cc + i <= ClusterSectors
  BY FileIs, StepIs
<1>2. top \in Nat /\ \A j \in 0 .. ClusterSectors - 1 : top + j \in TableArea
  BY <1>1, InCluster
<1> HIDE DEF top, i, cc
<1>3. top + i \in TableArea /\ top + i \in Int
  BY <1>1, <1>2
<1>4. ASSUME NEW j \in 1 .. cc PROVE top + i + j - 1 \in TableArea
  <2> DEFINE a == i + j - 1
  <2>1. a \in 0 .. ClusterSectors - 1 /\ top + i + j - 1 = top + a
    BY <1>1, <1>2, GeometryAssumption
  <2> HIDE DEF a
  <2> QED
    BY <1>2, <2>1
<1> QED
  BY <1>3, <1>4 DEF top, i, cc

(* One step of f_read only looks.                                          *)
LEMMA ReadStepPeeks ==
  ASSUME NEW v \in Live, Held(v.fp), v.fp.err = "OK", AtData(v.fp), NEW len \in Nat
  PROVE  Peeks(v, ReadStep(v, len))
<1> DEFINE top == clst2sect(v.fp.clust)
           sect == top + SectInClust(v)
           cc == WholeSectors(v, len)
           s == [v EXCEPT !.fp.sect = sect]
           x == IF AtSector(v) THEN s ELSE v
           k == PartBytes(v, len)
           p == ReadPart(x, k)
           d == ReadSectors(v, sect, cc)
           y == [d EXCEPT !.buf = v.buf]
           e == Abort(y, "DISK_ERR")
           w == Advance(d, cc * SectorBytes)
           b == Abort(v, "INT_ERR")
<1>1. ReadStep(v, len) = IF AtSector(v) /\ top = 0 THEN b
                         ELSE IF cc = 0 THEN p
                         ELSE IF d.res # "OK" THEN e ELSE w
  BY Zenon DEF ReadStep, With
<1>0. ReadStep(v, len) \in Live
  <2>1. \A q \in BOOLEAN : v \in Good(q) => ReadStep(v, len) \in Good(q)
    BY ReadStepKeeps DEF Some, Aborted, Moved
  <2> QED
    BY <2>1, LiveIs, GoodLives
<1>2. v \in CallSet
  BY FileIs
<1>3. Looks(v, b) /\ b.fp.mod = v.fp.mod
  BY <1>2, AbortStore, StoreLooks
<1> HIDE DEF b
<1>4. top # 0 => sect \in TableArea /\ sect \in Int /\ \A j \in 1 .. cc : sect + j - 1 \in TableArea
  BY StepSectors
<1>5. cc # 0 => AtSector(v)
  BY StepIs
<1>6. cc \in Nat /\ k \in Nat /\ (v.fp.fptr % SectorBytes) + k <= SectorBytes
  BY StepIs
<1> HIDE DEF top, cc, sect, k
<1>7. ASSUME ~(AtSector(v) /\ top = 0), cc = 0 PROVE Peeks(v, p)
  <2>1. AtSector(v) => /\ s \in Live /\ s.fp.sect = sect /\ s.fp.open = v.fp.open
                       /\ s.fp.dsect = v.fp.dsect /\ s.fp.err = v.fp.err /\ s.fp.fptr = v.fp.fptr
    <3>1. \A q \in BOOLEAN : v \in Good(q) /\ sect \in TableArea =>
            /\ s \in Good(q) /\ s.fp.sect = sect /\ s.fp.open = v.fp.open
            /\ s.fp.dsect = v.fp.dsect /\ s.fp.err = v.fp.err /\ s.fp.fptr = v.fp.fptr
      BY SectGoes
    <3> QED
      BY <3>1, <1>4, <1>7, LiveIs, GoodLives
  <2>2. SameStore(v, s) /\ s.fp.mod = v.fp.mod
    BY <1>2, SpotStore
  <2> HIDE DEF s
  <2>3. x \in Live /\ Peeks(v, x) /\ Held(x.fp) /\ x.fp.err = "OK" /\ x.fp.fptr = v.fp.fptr
    <3>1. SameStore(v, v)
      BY DEF SameStore
    <3> QED
      BY <2>1, <2>2, <3>1, PeeksStore DEF Held
  <2>4. x.fp.sect \in TableArea
    <3>1. CASE AtSector(v)
      BY <1>4, <1>7, <2>1, <3>1
    <3>2. CASE ~AtSector(v)
      BY <3>2 DEF AtData, AtSector
    <3> QED
      BY <3>1, <3>2
  <2> HIDE DEF x
  <2>5. (x.fp.fptr % SectorBytes) + k <= SectorBytes
    BY <1>6, <2>3
  <2>6. Peeks(x, p)
    BY <1>6, <2>3, <2>4, <2>5, ReadPartPeeks
  <2> HIDE DEF p
  <2> QED
    BY <2>3, <2>6, PeeksOn
<1> HIDE DEF p, x, s
<1>8. ASSUME AtSector(v), top # 0 PROVE /\ Looks(v, e) /\ e.fp.mod = v.fp.mod
                                        /\ Looks(v, w) /\ w.fp.mod = v.fp.mod
  <2>1. Peeks(v, d)
    BY <1>4, <1>6, <1>8, ReadSectorsPeeks
  <2> HIDE DEF d
  <2>2. d \in CallSet /\ Looks(v, d) /\ d.fp.mod = v.fp.mod
    BY <2>1, LiveIs DEF Peeks
  <2>3. SameStore(d, w) /\ w.fp.mod = d.fp.mod
    BY <2>2, AdvanceStore
  <2>4. SameStore(d, y) /\ y.fp = d.fp /\ y \in CallSet
    <3>1. v.buf \in Seq(Words \union EntrySet)
      BY FileIs
    <3> QED
      BY <2>2, <3>1, FieldsStore, SetBuf DEF SameRest, SameWork
  <2> HIDE DEF y, w
  <2>5. SameStore(y, e) /\ e.fp.mod = y.fp.mod
    BY <2>4, AbortStore
  <2> HIDE DEF e
  <2> QED
    BY <2>2, <2>3, <2>4, <2>5, StoreLooks, LooksOn
<1> HIDE DEF e, w, d
<1> QED
  BY <1>0, <1>1, <1>3, <1>5, <1>7, <1>8 DEF Peeks

(* So does a round of its loop, which keeps the loop's invariant,          *)
LEMMA ReadRoundPeeks ==
  ASSUME NEW len \in Nat, NEW v, Reading(FALSE, len, v), v.res = GO
  PROVE  Peeks(v, ReadRound(v, len)) /\ Reading(FALSE, len, ReadRound(v, len))
<1> DEFINE o == Res(v, "OK")
           c == ReadCluster(v)
           r == len - c.cnt
           d == ReadStep(c, r)
           a == Res(d, GO)
<1>1. ReadRound(v, len) = IF v.cnt = len THEN o
                          ELSE IF c.res # "OK" THEN c
                          ELSE IF d.res # "OK" THEN d ELSE a
  BY Zenon DEF ReadRound, Then, Again, OK
<1>0. Reading(FALSE, len, ReadRound(v, len))
  <2>1. \A q \in BOOLEAN : Reading(q, len, v) => Reading(q, len, ReadRound(v, len))
    BY ReadRoundKeeps
  <2> QED
    BY <2>1
<1>2. v \in Live /\ Held(v.fp) /\ v.cnt <= len /\ v.fp.err = "OK" /\ AtData(v.fp)
  <2>1. v \in Live
    BY GoodLives DEF Reading
  <2> QED
    BY <2>1 DEF Reading
<1>3. Peeks(v, o)
  BY <1>2, ResLive, ResultsAre, PeeksStore
<1> HIDE DEF o
<1>4. Peeks(v, c)
  BY <1>2, ReadClusterPeeks
<1>5. Aborted(FALSE, c) \/ (Stays(FALSE, v, c) /\ c.res = "OK")
  <2>1. \A q \in BOOLEAN : v \in Good(q) => Aborted(q, c) \/ (Stays(q, v, c) /\ c.res = "OK")
    BY <1>2, ReadClusterKeeps
  <2> QED
    BY <1>2, <2>1, LiveIs
<1> HIDE DEF c
<1>6. ASSUME c.res = "OK" PROVE Peeks(v, d) /\ Peeks(v, a)
  <2>1. SameSpot(v.fp, c.fp) /\ c.cnt = v.cnt /\ c \in Live
    BY <1>4, <1>5, <1>6 DEF Aborted, Stays, Peeks
  <2>2. Held(c.fp) /\ c.fp.err = "OK" /\ AtData(c.fp)
    BY <1>2, <2>1 DEF SameSpot, Held, AtData
  <2>3. r \in Nat
    <3>1. v.cnt \in Nat
      BY <1>2, FileIs
    <3> QED
      BY <1>2, <2>1, <3>1
  <2> HIDE DEF r
  <2>4. Peeks(c, d)
    BY <2>1, <2>2, <2>3, ReadStepPeeks
  <2> HIDE DEF d
  <2>5. Peeks(v, d) /\ d \in Live
    BY <1>4, <2>4, PeeksOn DEF Peeks
  <2>6. Peeks(d, a)
    BY <2>5, ResLive, ResultsAre, PeeksStore
  <2> QED
    BY <2>5, <2>6, PeeksOn
<1> HIDE DEF d, a
<1> QED
  BY <1>0, <1>1, <1>3, <1>4, <1>6

(* The rule for the loop of f_read.                                         *)
LEMMA ReadLoopLoop ==
  ASSUME NEW v, NEW len \in Nat, NEW V, Again(v) \in V,
         \A u \in V : \A k \in 1..(len + 1) : u.res = GO => ReadRound(u, len) \in V
  PROVE  \E e \in V : ReadLoop(v, len) = IF e.res = GO THEN Res(e, "ENDLESS") ELSE e
<1> DEFINE n == (len + 1)
           a == Again(v)
           B(u, k) == IF u.res = GO THEN ReadRound(u, len) ELSE u
           F(h) == [k \in 0..n |-> IF k = 0 THEN a ELSE B(h[k - 1], k)]
           at == CHOOSE h : h = F(h)
           G == [p \in V \X (1..n) |-> B(p[1], p[2])]
<1>1. n \in Nat /\ a \in V
  BY SMT
<1>2. \A u \in V : \A k \in 1..n : B(u, k) \in V
  OBVIOUS
<1>3. ReadLoop(v, len) = IF at[n].res = GO THEN Res(at[n], "ENDLESS") ELSE at[n]
  BY Zenon DEF ReadLoop, Rounds, With
<1> HIDE DEF a, B, n
<1>4. G \in [V \X (1..n) -> V] /\ \A u \in V : \A k \in 1..n : G[<<u, k>>] = B(u, k)
  BY <1>2
<1> HIDE DEF G
<1>5. PICK g \in [0..n -> V] : Runs(g, V, a, G, n)
  BY <1>1, <1>4, LoopRuns, Zenon
<1>6. g = F(g)
  <2>1. \A k \in 1..n : g[k] = B(g[k - 1], k)
    BY <1>4, <1>5, Zenon DEF Runs
  <2>2. \A k \in 0..n : g[k] = IF k = 0 THEN a ELSE B(g[k - 1], k)
    BY <1>5, <2>1 DEF Runs
  <2> QED
    BY <2>2
<1>7. at = F(at)
  BY <1>6
<1> HIDE DEF at
<1>8. at[0] = a /\ \A k \in 1..n : at[k] = B(at[k - 1], k)
  BY <1>1, <1>7
<1>9. at[n] \in V
  <2>1. \A k \in 1..n : at[k - 1] \in V => at[k] \in V
    BY <1>2, <1>8, Zenon
  <2> QED
    BY <1>1, <1>8, <2>1, LoopStays, Zenon
<1> QED
  BY <1>3, <1>9, Zenon

(* And the loop.                                                           *)
LEMMA ReadLoopPeeks ==
  ASSUME NEW len \in Nat, NEW v, Reading(FALSE, len, v), v.fp.err = "OK"
  PROVE  Peeks(v, ReadLoop(v, len))
<1> DEFINE V == {u \in Live : Reading(FALSE, len, u) /\ Peeks(v, u)}
<1>0. v \in Live
  BY GoodLives DEF Reading
<1>1. Again(v) \in V
  <2>1. \A q \in BOOLEAN : Reading(q, len, v) => Reading(q, len, Again(v))
    BY ReadingAs, ResultsAre DEF Again
  <2> QED
    BY <1>0, <2>1, AgainLive, PeeksStore
<1>2. \A u \in V : \A k \in 1..(len + 1) : u.res = GO => ReadRound(u, len) \in V
  <2>1. ASSUME NEW u \in V, u.res = GO PROVE ReadRound(u, len) \in V
    <3>1. Peeks(u, ReadRound(u, len)) /\ Reading(FALSE, len, ReadRound(u, len))
      BY <2>1, ReadRoundPeeks
    <3> QED
      BY <3>1, PeeksOn DEF Peeks
  <2> HIDE DEF V
  <2> QED
    BY <2>1
<1>3. PICK e \in V : ReadLoop(v, len) = IF e.res = GO THEN Res(e, "ENDLESS") ELSE e
  BY <1>1, <1>2, ReadLoopLoop
<1>4. Peeks(v, e) /\ e \in Live
  OBVIOUS
<1>5. Peeks(v, Res(e, "ENDLESS"))
  BY <1>4, ResLive, ResultsAre, PeeksStore, PeeksOn
<1> QED
  BY <1>3, <1>4, <1>5

(* The checks that a call on a file begins with.                           *)
LEMMA UsableLooks ==
  ASSUME NEW v \in Live, NEW b \in BOOLEAN
  PROVE  LET w == Usable(v, b)
         IN  /\ w \in Live /\ SameStore(v, w) /\ Looks(v, w) /\ w.fp = v.fp /\ w.cnt = v.cnt
             /\ w.res = "OK" => v.fp.open /\ v.fp.err = "OK" /\ b
<1> DEFINE u == validate(v, v.fp)
           x == Res(u, u.fp.err)
           y == Res(u, "DENIED")
           w == Usable(v, b)
<1>1. w = IF u.res = "OK" THEN IF u.fp.err # "OK" THEN x ELSE IF ~b THEN y ELSE u ELSE u
  BY Zenon DEF Usable, Then
<1>0. w.res = "OK" => v.fp.open /\ v.fp.err = "OK" /\ b
  <2>1. \A q \in BOOLEAN : v \in Good(q) => LET z == Usable(v, b) IN z.res = "OK" => v.fp.open /\ v.fp.err = "OK" /\ b
    BY UsableKeeps
  <2> QED
    BY <2>1, LiveIs
<1> HIDE DEF w
<1>2. u \in Live /\ SameStore(v, u) /\ u.fp = v.fp /\ u.cnt = v.cnt
  BY ValidateLooks
<1> HIDE DEF u
<1>3. u.fp.err \in Results
  BY <1>2, FileIs
<1>4. x \in Live /\ SameStore(u, x) /\ x.fp = u.fp /\ x.cnt = u.cnt
  BY <1>2, <1>3, ResLive
<1>5. y \in Live /\ SameStore(u, y) /\ y.fp = u.fp /\ y.cnt = u.cnt
  BY <1>2, ResLive, ResultsAre
<1> HIDE DEF x, y
<1>6. w \in Live /\ SameStore(v, w) /\ w.fp = v.fp /\ w.cnt = v.cnt
  BY <1>1, <1>2, <1>4, <1>5, StoreOn
<1> QED
  BY <1>0, <1>6, StoreLooks DEF w

(* Other bytes read, or another count, change nothing of the volume.       *)
LEMMA BufLive ==
  ASSUME NEW v \in Live, NEW x \in Seq(Words \union EntrySet)
  PROVE  LET w == [v EXCEPT !.buf = x]
         IN  w \in Live /\ SameStore(v, w) /\ w.fp = v.fp /\ w.buf = x /\ w.res = v.res /\ w.dp = v.dp
<1> DEFINE w == [v EXCEPT !.buf = x]
<1>2. v \in CallSet /\ v \in Good(FALSE) /\ FALSE \in BOOLEAN
  BY LiveIs
<1>3. SameStore(v, w)
  BY <1>2, FieldsStore
<1>4. /\ w \in CallSet /\ w.buf = x /\ w.res = v.res
      /\ w.fp = v.fp /\ w.dp = v.dp /\ SameCard(v, w)
  BY <1>2, SetBuf
<1> HIDE DEF w
<1>5. \A q \in BOOLEAN : v \in Good(q) => w \in Good(q)
  BY <1>4, SameCardKeeps
<1> QED
  BY <1>2, <1>3, <1>4, <1>5, GoodLives DEF w

(* The number of bytes transferred is counted. *)
LEMMA CntLive ==
  ASSUME NEW v \in Live, NEW x \in Nat
  PROVE  LET w == [v EXCEPT !.cnt = x]
         IN  w \in Live /\ SameStore(v, w) /\ w.fp = v.fp /\ w.cnt = x /\ w.res = v.res
<1>1. \A q \in BOOLEAN : v \in Good(q) => LET w == [v EXCEPT !.cnt = x]
         IN  w \in Good(q) /\ w.fp = v.fp /\ w.cnt = x /\ w.res = v.res
  BY CntGoes
<1>2. v \in CallSet /\ v \in Good(FALSE) /\ FALSE \in BOOLEAN
  BY LiveIs
<1>3. SameStore(v, [v EXCEPT !.cnt = x])
  BY <1>2, FieldsStore
<1> QED
  BY <1>1, <1>2, <1>3, GoodLives

(* F_read only looks, and leaves the file's mark that it was changed.      *)
LEMMA FReadPeeks ==
  ASSUME NEW v \in Live, FileOK(v.fp), NEW len \in Nat
  PROVE  Peeks(v, f_read(v, len)) /\ FileOK(f_read(v, len).fp)
<1> DEFINE s == <<>>
           y == [v EXCEPT !.buf = s]
           z == [y EXCEPT !.cnt = 0]
           j == [v EXCEPT !.buf = s, !.cnt = 0]
           u == Usable(z, v.fp.r)
           m == Least(len, u.fp.size - u.fp.fptr)
           w == ReadLoop(u, m)
<1>1. f_read(v, len) = IF u.res = "OK" THEN w ELSE u
  BY Zenon DEF f_read, Then
<1>0. FileOK(f_read(v, len).fp)
  <2>1. \A q \in BOOLEAN : v \in Good(q) => f_read(v, len) \in Fine(q)
    BY FReadKeeps DEF Fine
  <2> QED
    BY <2>1, LiveIs DEF Fine
<1>2. v \in CallSet /\ v.fp.r \in BOOLEAN
  <2>1. v \in CallSet /\ v.fp \in FilSet
    BY FileIs
  <2> QED
    BY <2>1 DEF FilSet
<1>3. y \in Live /\ y.fp = v.fp /\ SameStore(v, y)
  <2>1. s \in Seq(Words \union EntrySet)
    OBVIOUS
  <2> HIDE DEF s
  <2> QED
    BY <2>1, BufLive
<1> HIDE DEF y
<1>4. z \in Live /\ z.fp = y.fp /\ z.cnt = 0 /\ SameStore(y, z)
  BY <1>3, CntLive
<1> HIDE DEF z
<1>5. /\ u \in Live /\ SameStore(z, u) /\ u.fp = v.fp /\ u.cnt = 0
      /\ u.res = "OK" => v.fp.open /\ v.fp.err = "OK"
  BY <1>2, <1>3, <1>4, UsableLooks
<1> HIDE DEF u
<1>6. Peeks(v, u)
  BY <1>3, <1>4, <1>5, StoreOn, PeeksStore
<1>7. ASSUME u.res = "OK" PROVE Peeks(v, w)
  <2>1. /\ Held(u.fp) /\ u.fp.err = "OK" /\ AtData(u.fp) /\ u.fp.fptr <= u.fp.size
    BY <1>2, <1>5, <1>7 DEF FileOK, Held
  <2>2. u.fp.fptr \in Nat /\ u.fp.size \in Nat
    BY <1>5, FileIs
  <2>3. m \in Nat /\ u.fp.fptr + m <= u.fp.size
    BY <2>1, <2>2 DEF Least
  <2> HIDE DEF m
  <2>4. Reading(FALSE, m, u)
    <3>1. u \in Good(FALSE)
      BY <1>5, LiveIs
    <3>2. u.cnt <= m /\ u.fp.fptr + (m - u.cnt) <= u.fp.size
      BY <1>5, <2>2, <2>3
    <3> QED
      BY <2>1, <3>1, <3>2 DEF Reading
  <2>5. Peeks(u, w)
    BY <2>1, <2>3, <2>4, ReadLoopPeeks
  <2> HIDE DEF w
  <2> QED
    BY <1>6, <2>5, PeeksOn
<1> HIDE DEF w
<1> QED
  BY <1>0, <1>1, <1>6, <1>7

-----------------------------------------------------------------------------
(* F_unlink.                                                               *)

(* The entry that a search found: unless it is empty, the volume has it,   *)
(* and its chain begins where it says.                                     *)
LEMMA FoundIs ==
  ASSUME NEW v \in Live, OnEntry(v), Sane(v, {}, {})
  PROVE  /\ Place(v) \in Places /\ Place(v) = <<v.dp.sect, Slot(v)>>
         /\ v.fs.winsect \in TableArea /\ dir(v) \in EntrySet
         /\ dir(v).cl # 0 => dir(v) = At(Sees(v), Place(v))
         /\ dir(v).cl # 0 /\ Named(dir(v)) =>
              /\ dir(v).cl \in RealClusters /\ Claim(At(Sees(v), Place(v))) = dir(v).cl
              /\ First(Sees(v), dir(v).cl) /\ Long(Sees(v), dir(v).cl, dir(v).sz)
<1>1. v.fs.winsect \in TableArea
  <2>1. \A q \in BOOLEAN : v \in Good(q) => v.fs.winsect \in TableArea
    BY OnEntryIs
  <2> QED
    BY <2>1, LiveIs
<1>2. /\ Place(v) \in Places /\ dir(v) \in EntrySet
      /\ dir(v) = At(Sees(v), Place(v)) \/ Blank(dir(v))
  BY <1>1, DirSeen, SlotIs DEF Sane
<1>3. Place(v) = <<v.dp.sect, Slot(v)>>
  BY DEF OnEntry, Place
<1>4. Kept(Sees(v), {}, {})
  BY DEF Sane
<1> DEFINE m == Sees(v)
           a == Place(v)
           e == dir(v)
<1> HIDE DEF m, a, e
<1>5. e.cl # 0 => e = At(m, a)
  BY <1>2 DEF Blank, m, a, e
<1>6. e.cl # 0 /\ Named(e) => Rooted(m, e)
  BY <1>2, <1>4, <1>5 DEF Kept, EntriesSound, m, a, e
<1>7. e.cl # 0 /\ Named(e) => /\ First(m, e.cl) /\ Long(m, e.cl, e.sz) /\ e.cl \in RealClusters
                              /\ Claim(At(m, a)) = e.cl
  BY <1>5, <1>6 DEF Rooted, First, Claim
<1> QED
  BY <1>1, <1>2, <1>3, <1>5, <1>7 DEF m, a, e

(* To remove an object: its entry goes, which leaves its chain to nobody,  *)
(* and then the chain.                                                     *)
LEMMA RemoveObjectSane ==
  ASSUME NEW v \in Live, InTable(v.dp), Sane(v, {}, {}), NEW c \in Nat,
         c # 0 => c \in RealClusters /\ Claim(At(Sees(v), <<v.dp.sect, Slot(v)>>)) = c
  PROVE  Sane(RemoveObject(v, c), {}, {})
<1> DEFINE x == dir_remove(v)
           a == <<v.dp.sect, Slot(v)>>
           r == remove_chain(x, c, 0)
           y == IF c # 0 THEN r ELSE x
           z == sync_fs(y)
           R == IF c # 0 THEN {c} ELSE {}
<1>1. RemoveObject(v, c) = IF x.res = "OK" THEN IF y.res = "OK" THEN z ELSE y ELSE x
  BY Zenon DEF RemoveObject, Then
<1>2. /\ x \in Live
      /\ \A Q : (x.res = "OK" /\ \A d \in Q : d \in {} \/ (d # 0 /\ a \notin {} /\ d = Claim(At(Sees(v), a))))
                   => Sane(x, Q, {})
      /\ x.res # "OK" => Sane(x, {}, {})
  <2>1. Roams(v, x) /\ \A P \in SUBSET RealClusters : \A X \in SUBSET Places : Sane(v, P, X) =>
                 \A Q : (x.res = "OK" /\ \A d \in Q : d \in P \/ (d # 0 /\ a \notin X /\ d = Claim(At(Sees(v), a))))
                               => Sane(x, Q, X)
    BY DirRemoveSane
  <2> HIDE DEF x, a
  <2>2. {} \in SUBSET RealClusters /\ {} \in SUBSET Places
    OBVIOUS
  <2>3. Sane(x, {}, {})
    BY <2>1, <2>2, WorksSane DEF Roams
  <2> QED
    BY <2>1, <2>2, <2>3 DEF Roams
<1> HIDE DEF x, a
<1>3. x.res = "OK" => Sane(x, R, {})
  <2>1. \A d \in R : d \in {} \/ (d # 0 /\ a \notin {} /\ d = Claim(At(Sees(v), a)))
    BY DEF a
  <2> QED
    BY <1>2, <2>1
<1>4. x.res = "OK" => y \in Live /\ Sane(y, {}, {})
  <2>1. CASE c # 0
    <3>1. x.res = "OK" => r \in Live /\ Sane(r, {}, {})
      BY <1>2, <1>3, <2>1, RemoveChainSane
    <3> QED
      BY <2>1, <3>1
  <2>2. CASE c = 0
    BY <1>2, <1>3, <2>2
  <2> QED
    BY <2>1, <2>2
<1> HIDE DEF y
<1>5. x.res = "OK" => Sane(z, {}, {})
  BY <1>4, SyncFsLooks, WorksSane
<1> HIDE DEF z
<1> QED
  BY <1>1, <1>2, <1>4, <1>5

(* A name that no free entry has.                                          *)
Unmarked(nm) == nm \notin {"", Deleted}

(* F_unlink keeps the volume sound.                                        *)
LEMMA UnlinkSane ==
  ASSUME NEW v \in Live, NEW path \in PathSet, Sane(v, {}, {}),
         path.seg # <<>> => Unmarked(path.seg[Len(path.seg)])
  PROVE  Sane(f_unlink(v, path), {}, {})
<1> DEFINE f == Lookup(v, path)
           nm == path.seg[Len(path.seg)]
           c == dir(f).cl
           t == IF f.dp.dir THEN TestEmpty(f, c) ELSE f
           y == Res(f, "INVALID_NAME")
           z == Res(f, "DENIED")
           w == RemoveObject(t, c)
<1>1. f_unlink(v, path) =
        IF f.res = "OK"
        THEN IF f.dp.dot \/ f.dp.origin THEN y
             ELSE IF f.dp.ro \/ (f.dp.dir /\ c = f.fs.cdir) THEN z
             ELSE IF t.res = "OK" THEN w ELSE t
        ELSE f
  BY Zenon DEF f_unlink, Then
<1>2. Arrives(v, f, nm) /\ (f.res = "OK" /\ path.seg = <<>> => f.dp.origin)
  BY LookupLooks
<1>0. path.seg # <<>> => Unmarked(nm)
  OBVIOUS
<1> HIDE DEF f, nm
<1>3. f \in Live /\ Sane(f, {}, {})
  BY <1>2, WorksSane DEF Arrives
<1>4. dir(f) \in EntrySet
  BY <1>3, SlotIs
<1>5. c \in ClusterNos /\ c \in Nat
  BY <1>4, LayoutIs DEF EntrySet, ClusterNos
<1>6. Sane(y, {}, {}) /\ Sane(z, {}, {})
  <2>1. SameStore(f, y) /\ SameStore(f, z)
    BY <1>3, LiveIs, ResStore
  <2> QED
    BY <1>3, <2>1, WorksSane
<1> HIDE DEF y, z
<1>7. t \in Live /\ Looks(f, t) /\ t.dp = f.dp
  <2> DEFINE o == TestEmpty(f, c)
  <2>1. o \in Live /\ Looks(f, o) /\ o.dp = f.dp
    BY <1>3, <1>5, TestEmptyLooks
  <2> HIDE DEF o
  <2>2. t = IF f.dp.dir THEN o ELSE f
    BY DEF o
  <2>3. SameStore(f, f)
    BY DEF SameStore
  <2> QED
    BY <1>3, <2>1, <2>2, <2>3, StoreLooks
<1> HIDE DEF t
<1>8. Sane(t, {}, {}) /\ SameSlots(Sees(f), Sees(t))
  BY <1>3, <1>7, WorksSane, LooksSlots
<1>9. ASSUME f.res = "OK", ~f.dp.dot, ~f.dp.origin PROVE Sane(w, {}, {})
  <2>1. OnEntry(f) /\ Met(f) /\ Tagged(f.dp, nm) /\ path.seg # <<>>
    BY <1>2, <1>9 DEF Arrives
  <2>2. Named(dir(f))
    <3>1. dir(f).nm = nm /\ nm \notin {".", ".."}
      BY <1>9, <2>1 DEF Met, Tagged
    <3> QED
      BY <1>0, <2>1, <3>1, Zenon DEF Named, Unmarked
  <2>3. /\ Place(f) \in Places /\ Place(f) = <<f.dp.sect, Slot(f)>>
        /\ c # 0 => c \in RealClusters /\ Claim(At(Sees(f), Place(f))) = c
    BY <1>3, <2>1, <2>2, FoundIs
  <2>4. Slot(t) = Slot(f) /\ InTable(t.dp)
    BY <1>7, <2>1 DEF Slot, OnEntry
  <2>5. c # 0 => c \in RealClusters /\ Claim(At(Sees(t), <<t.dp.sect, Slot(t)>>)) = c
    BY <1>7, <1>8, <2>3, <2>4 DEF SameSlots
  <2> HIDE DEF c
  <2> QED
    BY <1>5, <1>7, <1>8, <2>4, <2>5, RemoveObjectSane
<1> HIDE DEF w
<1> QED
  BY <1>1, <1>3, <1>6, <1>8, <1>9
-----------------------------------------------------------------------------
(* F_mkdir.                                                                *)

(* A sector of a table is written over, and what is new in it is no        *)
(* object's entry.                                                         *)
LEMMA TableWorks ==
  ASSUME NEW v \in Live, v.fs.winsect \in TableArea, NEW f \in [SlotNos -> EntrySet],
         \A i \in SlotNos : f[i] = EntriesOf(v.fs.win)[i] \/ Harmless(f[i])
  PROVE  LET w == SetWin(v, DirSector(f))
         IN  Works(v, w) /\ w \in Live /\ w.dp = v.dp /\ w.res = v.res /\ w.ret = v.ret
             /\ w.fs.winsect = v.fs.winsect
<1> DEFINE w == SetWin(v, DirSector(f))
           s == v.fs.winsect
<1>1. /\ w \in Live /\ w.disk = v.disk /\ w.media = v.media /\ w.to = v.to /\ w.res = v.res
      /\ w.fs.winsect = s /\ EntriesOf(w.fs.win) = f
      /\ SameFatIn(Sees(v), Sees(w))
      /\ \A i \in SlotNos : At(Sees(w), <<s, i>>) = f[i]
      /\ \A b \in Places : b[1] # s => At(Sees(w), b) = At(Sees(v), b)
      /\ WinTrue(w)
  BY SetTable
<1>2. w.dp = v.dp /\ w.ret = v.ret
  BY LiveIs DEF SetWin, CallSet, Steady
<1> HIDE DEF w, s
<1>3. ASSUME NEW P \in SUBSET RealClusters, NEW X \in SUBSET Places, Sane(v, P, X)
      PROVE  Sane(w, P, X) /\ LinksKept(Sees(v), Sees(w)) /\ w.to = v.to
  <2>1. Kept(Sees(v), P, X) /\ WinTrue(v)
    BY <1>3 DEF Sane
  <2>2. \A i \in SlotNos : At(Sees(w), <<s, i>>) = At(Sees(v), <<s, i>>) \/ Harmless(At(Sees(w), <<s, i>>))
    BY <1>1, <2>1 DEF WinTrue, Blank, Harmless, s
  <2>3. ASSUME NEW a \in Places PROVE At(Sees(w), a) = At(Sees(v), a) \/ Harmless(At(Sees(w), a))
    <3>1. a = <<a[1], a[2]>> /\ a[2] \in SlotNos
      BY DEF Places
    <3> QED
      BY <1>1, <2>2, <3>1
  <2>4. Under(Sees(v), Sees(w))
    BY <1>1, <2>3 DEF Under
  <2>5. Kept(Sees(w), P, X)
    BY <2>1, <2>4, KeptUnder
  <2>6. Writes(v, w)
    BY <1>1 DEF Writes
  <2>7. Sane(w, P, X)
    BY <1>3, <2>5, <2>6, WritesSane
  <2> QED
    BY <1>1, <2>7 DEF SameFatIn, LinksKept
<1>4. Works(v, w)
  BY <1>3, Zenon DEF Works
<1> QED
  BY <1>1, <1>2, <1>4 DEF w, s

(* The two dot entries of a new table claim no cluster.                    *)
LEMMA DotEntriesWorks ==
  ASSUME NEW v \in Live, NEW c \in RealClusters, v.fs.winsect = clst2sect(c),
         v.fs.win = ZeroSector, NEW p \in ClusterNos
  PROVE  LET w == DotEntries(v, c, p)
         IN  Works(v, w) /\ w \in Live /\ w.dp = v.dp /\ w.res = v.res /\ w.ret = v.ret
<1> DEFINE es == EntriesOf(v.fs.win)
           a == Entry(".", TRUE, FALSE, c, 0)
           b == Entry("..", TRUE, FALSE, p, 0)
           x == [es EXCEPT ![0] = a, ![1] = b]
           t == SetWin(v, DirSector(x))
<1>1. DotEntries(v, c, p) = t
  BY Zenon DEF DotEntries
<1>2. es \in [SlotNos -> EntrySet]
  BY SlotIs
<1>3. a \in EntrySet /\ b \in EntrySet
  <2>1. "." \in Words /\ ".." \in Words
    BY Zenon DEF Words
  <2>2. c \in ClusterNos
    BY NumbersApart
  <2> QED
    BY <2>1, <2>2, EntryIs
<1>4. a.nm = "." /\ b.nm = ".."
  BY DEF Entry
<1>5. Harmless(a) /\ Harmless(b)
  <2> HIDE DEF a, b
  <2> QED
    BY <1>4, Zenon DEF Harmless, Named
<1> HIDE DEF a, b, es
<1>6. x \in [SlotNos -> EntrySet]
  BY <1>2, <1>3
<1>7. \A i \in SlotNos : x[i] = es[i] \/ Harmless(x[i])
  BY <1>2, <1>5
<1> HIDE DEF x
<1>8. v.fs.winsect \in TableArea
  BY TableTop
<1>9. /\ Works(v, t) /\ t \in Live /\ t.dp = v.dp /\ t.res = v.res /\ t.ret = v.ret
  BY <1>6, <1>7, <1>8, TableWorks DEF es
<1> QED
  BY <1>1, <1>9

(* The new table and its entry: nothing else is claimed yet.               *)
LEMMA MakeTableWorks ==
  ASSUME NEW v \in Live, v.ret \in {0, 1, DISKERR} \union RealClusters
  PROVE  LET w == MakeTable(v)
         IN  /\ Works(v, w) /\ w \in Live
             /\ w.res = "OK" => /\ v.ret \in RealClusters /\ OnEntry(w)
                                /\ dir(w) = Entry(w.dp.fn, FALSE, FALSE, 0, 0)
<1> DEFINE c == v.ret
           d == dir_clear(v, c)
           p == DotEntries(d, c, d.dp.sclust)
           r == dir_register(p)
           y == Res(v, "DENIED")
           z == Res(v, ClusterError(c))
           w == MakeTable(v)
<1>1. w = IF c = 0 THEN y ELSE IF c \in {1, DISKERR} THEN z
                     ELSE IF d.res = "OK" THEN r ELSE d
  BY Zenon DEF MakeTable, Then
<1>2. /\ Works(v, y) /\ y \in Live /\ y.res = "DENIED"
      /\ Works(v, z) /\ z \in Live /\ z.res # "OK"
  <2>1. ClusterError(c) \in Results /\ ClusterError(c) # "OK" /\ "DENIED" \in Results
    BY ClusterErrorIs, ResultsAre
  <2>2. /\ y \in Live /\ y.res = "DENIED" /\ SameStore(v, y)
        /\ z \in Live /\ z.res = ClusterError(c) /\ SameStore(v, z)
    BY <2>1, ResLive
  <2> HIDE DEF y, z
  <2> QED
    BY <2>1, <2>2, StoreLooks
<1> HIDE DEF y, z, w
<1>3. CASE c = 0 \/ c \in {1, DISKERR}
  BY <1>1, <1>2, <1>3 DEF w
<1>4. CASE ~(c = 0 \/ c \in {1, DISKERR})
  <2>1. c \in RealClusters
    BY <1>4
  <2>2. /\ Works(v, d) /\ d \in Live /\ d.res \in {"OK", "DISK_ERR"}
        /\ d.res = "OK" => d.fs.winsect = clst2sect(c) /\ d.fs.win = ZeroSector
    BY <2>1, DirClearWorks
  <2> HIDE DEF d
  <2>3. d.res = "OK" => /\ Works(v, r) /\ r \in Live
                        /\ r.res = "OK" => OnEntry(r) /\ dir(r) = Entry(r.dp.fn, FALSE, FALSE, 0, 0)
    <3>1. SUFFICES ASSUME d.res = "OK"
                   PROVE  /\ Works(v, r) /\ r \in Live
                          /\ r.res = "OK" => OnEntry(r) /\ dir(r) = Entry(r.dp.fn, FALSE, FALSE, 0, 0)
      OBVIOUS
    <3>2. d.dp \in DirSet
      BY <2>2, LiveIs
    <3>3. d.dp.sclust \in ClusterNos
      BY <3>2 DEF DirSet
    <3>4. Works(d, p) /\ p \in Live
      BY <2>1, <2>2, <3>1, <3>3, DotEntriesWorks
    <3> HIDE DEF p
    <3>5. /\ Roams(p, r)
          /\ r.res = "OK" => OnEntry(r) /\ dir(r) = Entry(r.dp.fn, FALSE, FALSE, 0, 0)
      BY <3>4, DirRegisterRoams
    <3> HIDE DEF r
    <3>6. Works(p, r) /\ r \in Live
      BY <3>5 DEF Roams
    <3> QED
      BY <2>2, <3>4, <3>5, <3>6, WorksOn
  <2> HIDE DEF r
  <2>5. w = IF d.res = "OK" THEN r ELSE d
    BY <1>1, <1>4
  <2> QED
    BY <2>1, <2>2, <2>3, <2>5 DEF w
<1> QED
  BY <1>3, <1>4

(* F_mkdir keeps the volume sound: the new entry takes the cluster that    *)
(* was taken for it, or the cluster is freed again.                        *)
LEMMA MkdirSane ==
  ASSUME NEW v \in Live, NEW path \in PathSet, Sane(v, {}, {})
  PROVE  Sane(f_mkdir(v, path), {}, {})
<1> DEFINE f == Lookup(v, path)
           c == create_chain(f, 0)
           k == c.ret
           m == MakeTable(c)
           e == [dir(m) EXCEPT !.dir = TRUE, !.cl = k]
           d == SetDir(m, e)
           s == sync_fs(d)
           r == remove_chain(m, k, 0)
           z == Res(r, m.res)
           x == Res(f, "EXIST")
           y == Res(f, "INVALID_NAME")
           P == IF k \in RealClusters THEN {k} ELSE {}
<1>1. f_mkdir(v, path) =
        IF f.res = "OK" THEN x ELSE IF f.res # "NO_FILE" THEN f ELSE IF f.dp.dot THEN y
        ELSE IF m.res = "OK" THEN s ELSE z
  BY Zenon DEF f_mkdir, With
<1>2. f \in Live /\ Sane(f, {}, {})
  <2>1. f \in Live /\ Looks(v, f)
    BY LookupLooks DEF Arrives
  <2> QED
    BY <2>1, WorksSane
<1> HIDE DEF f
<1>3. Sane(x, {}, {}) /\ Sane(y, {}, {})
  <2>1. SameStore(f, x) /\ SameStore(f, y)
    BY <1>2, LiveIs, ResStore
  <2> QED
    BY <1>2, <2>1, WorksSane
<1> HIDE DEF x, y
<1>4. c \in Live /\ Sane(c, P, {}) /\ k \in {0, 1, DISKERR} \union RealClusters
  <2>1. 0 \in Nat /\ {} \subseteq RealClusters /\ {} \subseteq Places
    OBVIOUS
  <2>2. Chained(f, c, 0, {}, {})
    BY <1>2, <2>1, CreateChainSane
  <2>3. Sane(c, IF 0 = 0 /\ k \in RealClusters THEN {} \union {k} ELSE {}, {})
    BY <2>2 DEF Chained
  <2>4. \A q \in BOOLEAN : f \in Good(q) => c \in Good(q) /\ k \in {0, 1, DISKERR} \union RealClusters
    BY CreateChainGoes
  <2> HIDE DEF c
  <2>5. c \in Good(FALSE) /\ k \in {0, 1, DISKERR} \union RealClusters
    BY <1>2, <2>4, LiveIs
  <2>6. c \in Live
    BY <2>5, GoodLives
  <2>7. P = IF 0 = 0 /\ k \in RealClusters THEN {} \union {k} ELSE {}
    OBVIOUS
  <2> QED
    BY <2>3, <2>5, <2>6, <2>7
<1> HIDE DEF c
<1>5. /\ m \in Live /\ Works(c, m)
      /\ m.res = "OK" => /\ k \in RealClusters /\ OnEntry(m)
                         /\ dir(m) = Entry(m.dp.fn, FALSE, FALSE, 0, 0)
  BY <1>4, MakeTableWorks
<1> HIDE DEF m
<1>6. Sane(m, P, {})
  BY <1>4, <1>5, WorksSane
<1>7. m.res = "OK" => Sane(s, {}, {})
  <2>1. SUFFICES ASSUME m.res = "OK" PROVE Sane(s, {}, {})
    OBVIOUS
  <2>2. m.fs.winsect \in TableArea /\ dir(m) \in EntrySet /\ k \in RealClusters /\ k # 0 /\ k \in P
    <3>1. m.fs.winsect \in TableArea
      BY <1>5, <2>1, LiveIs, InTableIs DEF OnEntry
    <3>2. k # 0
      BY <1>5, <2>1, LayoutIs DEF RealClusters
    <3> QED
      BY <1>5, <2>1, <3>1, <3>2, SlotIs
  <2>3. dir(m).sz = 0
    <3>1. m.dp \in DirSet
      BY <1>5, LiveIs
    <3>2. m.dp.fn \in Words
      BY <3>1 DEF DirSet
    <3> QED
      BY <1>5, <2>1, <3>2, NewEntryIs
  <2>4. e \in EntrySet /\ e.cl = k /\ e.sz = 0
    <3>1. k \in ClusterNos
      BY <2>2, NumbersApart
    <3> HIDE DEF k
    <3> QED
      BY <2>2, <2>3, <3>1 DEF EntrySet
  <2> HIDE DEF e, P
  <2>5. Fits(Sees(m), e, Place(m), P, {})
    BY <2>2, <2>4 DEF Fits, Long
  <2>6. Claim(e) \notin {}
    OBVIOUS
  <2>7. d \in Live /\ Sane(d, {}, {})
    <3>1. Sane(d, {}, {})
      BY <1>5, <1>6, <2>2, <2>4, <2>5, <2>6, SetDirSane
    <3>2. WinTrue(m)
      BY <1>6 DEF Sane
    <3>3. d \in Live
      BY <1>5, <2>2, <2>4, <3>2, SetDirSees
    <3> QED
      BY <3>1, <3>3
  <2> HIDE DEF d
  <2>8. Looks(d, s)
    BY <2>7, SyncFsLooks
  <2> QED
    BY <2>7, <2>8, WorksSane
<1> HIDE DEF s
<1>8. Sane(z, {}, {})
  <2>1. k \in Nat /\ m.res \in Results
    <3>1. m.res \in Results
      BY <1>5, LiveIs
    <3>2. c.ret \in Nat
      BY <1>4, LiveIs
    <3> QED
      BY <3>1, <3>2
  <2>2. P \subseteq {k} /\ (k \in RealClusters => k \in P)
    OBVIOUS
  <2> HIDE DEF P, k
  <2>3. r \in Live /\ Sane(r, {}, {})
    BY <1>5, <1>6, <2>1, <2>2, RemoveChainSane
  <2> HIDE DEF r
  <2>4. SameStore(r, z)
    BY <2>1, <2>3, ResLive
  <2> QED
    BY <2>3, <2>4, WorksSane
<1> HIDE DEF z
<1> QED
  BY <1>1, <1>2, <1>3, <1>7, <1>8

-----------------------------------------------------------------------------
(* F_open.                                                                 *)

(* A change of the file object touches nothing else.                       *)
LEMMA FpLive ==
  ASSUME NEW v \in Live, NEW x \in FilSet
  PROVE  LET w == WithFp(v, x)
         IN  /\ w \in Live /\ SameStore(v, w) /\ w.fp = x /\ w.res = v.res /\ w.ret = v.ret
             /\ w.dp = v.dp /\ w.cnt = v.cnt /\ w.fs = v.fs /\ w.disk = v.disk
<1> DEFINE w == WithFp(v, x)
<1>1. \A q \in BOOLEAN : v \in Good(q) =>
        /\ w \in Good(q) /\ w.fp = x /\ w.res = v.res /\ w.ret = v.ret
        /\ w.dp = v.dp /\ w.cnt = v.cnt /\ w.fs = v.fs /\ w.disk = v.disk
  BY FpGoes
<1>2. SameStore(v, w)
  BY LiveIs, FieldsStore DEF WithFp
<1> HIDE DEF w
<1>3. /\ w \in Good(FALSE) /\ w.fp = x /\ w.res = v.res /\ w.ret = v.ret
      /\ w.dp = v.dp /\ w.cnt = v.cnt /\ w.fs = v.fs /\ w.disk = v.disk
  BY <1>1, LiveIs
<1> QED
  BY <1>2, <1>3, GoodLives DEF w

(* Its flag that there is something to write to the entry.                 *)
LEMMA ModLive ==
  ASSUME NEW v \in Live, NEW m \in BOOLEAN
  PROVE  LET w == [v EXCEPT !.fp.mod = m]
         IN  /\ w \in Live /\ SameStore(v, w) /\ w.res = v.res /\ w.ret = v.ret
             /\ w.dp = v.dp /\ w.cnt = v.cnt /\ w.fs = v.fs /\ w.disk = v.disk
             /\ w.fp.mod = m /\ SameSpot(v.fp, w.fp)
             /\ w.fp.sclust = v.fp.sclust /\ w.fp.clust = v.fp.clust
             /\ w.fp.dptr = v.fp.dptr
<1> DEFINE x == [v.fp EXCEPT !.mod = m]
           w == WithFp(v, x)
<1>1. v.fp \in FilSet
  BY LiveIs
<1>2. /\ x \in FilSet /\ x.mod = m /\ SameSpot(v.fp, x) /\ x.sclust = v.fp.sclust
      /\ x.clust = v.fp.clust /\ x.dptr = v.fp.dptr
  BY <1>1 DEF FilSet, SameSpot
<1>3. [v EXCEPT !.fp.mod = m] = w
  BY Zenon DEF WithFp
<1> HIDE DEF x
<1>4. /\ w \in Live /\ SameStore(v, w) /\ w.fp = x /\ w.res = v.res /\ w.ret = v.ret
      /\ w.dp = v.dp /\ w.cnt = v.cnt /\ w.fs = v.fs /\ w.disk = v.disk
  BY <1>2, FpLive
<1> HIDE DEF w
<1> QED
  BY <1>2, <1>3, <1>4

(* The count of the last cluster taken.                                    *)
LEMMA LastLive ==
  ASSUME NEW v \in Live, NEW c \in Nat
  PROVE  LET w == [v EXCEPT !.fs.last = c]
         IN  /\ w \in Live /\ Looks(v, w) /\ w.res = v.res /\ w.dp = v.dp
             /\ w.fs.win = v.fs.win /\ w.fs.winsect = v.fs.winsect
<1> DEFINE f == v.fs
           g == [f EXCEPT !.last = c]
           w == [v EXCEPT !.fs = g]
<1>1. f \in Volumes /\ v \in CallSet
  BY LiveIs
<1>2. /\ g \in Volumes /\ g.type = f.type /\ g.win = f.win
      /\ g.winsect = f.winsect /\ g.wflag = f.wflag
  BY <1>1, SetNumber
<1>3. [v EXCEPT !.fs.last = c] = w
  BY Zenon
<1>4. Looks(v, w) /\ w.fs = g
  BY <1>1, <1>2, NumbersLook
<1>5. w.res = v.res /\ w.dp = v.dp
  BY <1>1 DEF CallSet
<1> HIDE DEF g
<1>6. w \in Live
  <2>1. \A q \in BOOLEAN : v \in Good(q) => [v EXCEPT !.fs.last = c] \in Good(q)
    BY LastGoes
  <2>2. w \in Good(FALSE)
    BY <1>3, <2>1, LiveIs
  <2> QED
    BY <2>2, GoodLives
<1> HIDE DEF w
<1> QED
  BY <1>2, <1>3, <1>4, <1>5, <1>6

(* A file that is to be emptied: its entry loses the chain first, and the  *)
(* chain is freed then.                                                    *)
LEMMA ResetEntrySane ==
  ASSUME NEW v \in Live, OnEntry(v), Sane(v, {}, {}), dir(v).cl # 0 => Named(dir(v))
  PROVE  LET w == ResetEntry(v)
         IN  /\ w \in Live /\ Sane(w, {}, {})
             /\ w.res = "OK" /\ v.res = "OK" => Blank(dir(w)) /\ w.fs.winsect \in TableArea
<1> DEFINE cl == dir(v).cl
           n == Entry(dir(v).nm, FALSE, FALSE, 0, 0)
           a == Place(v)
           Q == IF cl = 0 THEN {} ELSE {cl}
           s == SetDir(v, n)
           e == [s EXCEPT !.fp.mod = TRUE]
           r == remove_chain(e, cl, 0)
           m == move_window(r, e.fs.winsect)
           l == [m EXCEPT !.fs.last = cl - 1]
           w == ResetEntry(v)
<1>1. w = IF cl = 0 THEN e ELSE IF r.res = "OK" THEN l ELSE r
  BY Zenon DEF ResetEntry, With, Then
<1> HIDE DEF w
<1>2. dir(v) \in EntrySet /\ dir(v).nm \in Words /\ cl \in Nat /\ v.fs.winsect \in TableArea
      /\ a \in Places /\ a = <<v.fs.winsect, Slot(v)>>
  <2>1. dir(v) \in EntrySet /\ v.fs.winsect \in TableArea /\ a \in Places
    BY FoundIs
  <2> QED
    BY <2>1, LayoutIs DEF EntrySet, ClusterNos, Place
<1>3. cl # 0 => cl \in RealClusters /\ Claim(At(Sees(v), a)) = cl
  BY FoundIs
<1>4. n \in EntrySet /\ Harmless(n) /\ n.cl = 0 /\ n.sz = 0
  BY <1>2, NewEntryIs
<1>5. WinTrue(v)
  BY DEF Sane
<1> HIDE DEF n, a, cl
<1>6. s \in Live /\ Sane(s, Q, {}) /\ At(Sees(s), a) = n /\ dir(s) = n
      /\ s.dp = v.dp /\ s.fs.winsect = v.fs.winsect /\ s.res = v.res
  <2>1. /\ s \in Live /\ At(Sees(s), a) = n /\ dir(s) = n /\ s.dp = v.dp
        /\ s.fs.winsect = v.fs.winsect /\ s.res = v.res
    BY <1>2, <1>4, <1>5, SetDirSees DEF a
  <2>2. Fits(Sees(v), n, Place(v), {}, {})
    BY <1>4 DEF Fits, Harmless
  <2>3. Claim(n) \notin Q
    BY <1>4 DEF Claim
  <2>4. \A c \in Q : c \in {} \/ (c # 0 /\ Place(v) \notin {} /\ c = Claim(At(Sees(v), Place(v))))
    BY <1>3 DEF a
  <2> HIDE DEF Q, s
  <2>5. Sane(SetDir(v, n), Q, {})
    BY <1>2, <1>4, <2>2, <2>3, <2>4, SetDirSane
  <2> QED
    BY <2>1, <2>5 DEF s
<1> HIDE DEF s
<1>7. /\ e \in Live /\ Sane(e, Q, {}) /\ At(Sees(e), a) = n /\ dir(e) = n
      /\ e.dp = v.dp /\ e.fs.winsect = v.fs.winsect /\ e.res = v.res
  <2> DEFINE t == TRUE
  <2>0. t \in BOOLEAN
    OBVIOUS
  <2> HIDE DEF t
  <2>1. LET x == [s EXCEPT !.fp.mod = t]
        IN  x \in Live /\ SameStore(s, x) /\ x.dp = s.dp /\ x.fs = s.fs /\ x.disk = s.disk /\ x.res = s.res
    BY <1>6, <2>0, ModLive
  <2>2. e \in Live /\ SameStore(s, e) /\ e.dp = s.dp /\ e.fs = s.fs /\ e.disk = s.disk /\ e.res = s.res
    BY <2>1 DEF t
  <2> HIDE DEF e
  <2>3. Q \subseteq RealClusters
    BY <1>3
  <2>4. Sane(e, Q, {})
    BY <1>6, <2>2, <2>3, WorksSane
  <2>5. Sees(e) = Sees(s)
    BY <2>2 DEF Sees
  <2>6. dir(e) = dir(s)
    BY <2>2 DEF dir, Slot
  <2> QED
    BY <1>6, <2>2, <2>4, <2>5, <2>6
<1> HIDE DEF e
<1>8. CASE cl = 0
  <2>1. w = e /\ Q = {}
    BY <1>1, <1>8
  <2> QED
    BY <1>2, <1>4, <1>7, <2>1 DEF Blank, w
<1>9. CASE cl # 0
  <2>1. cl \in RealClusters /\ Q = {cl}
    BY <1>3, <1>9
  <2>2. r \in Live /\ Sane(r, {}, {}) /\ SameSlots(Sees(e), Sees(r))
    BY <1>2, <1>7, <2>1, RemoveChainSane
  <2>2a. r.dp = e.dp
    <3>1. \A q \in BOOLEAN : e \in Good(q) => r.dp = e.dp
      <4>1. \A q \in BOOLEAN : e \in Good(q) => Went(q, e, e)
        BY WentSelf
      <4> QED
        BY <1>2, <4>1, RemoveChainGoes
    <3> HIDE DEF r
    <3> QED
      BY <1>7, <3>1, LiveIs
  <2> HIDE DEF r
  <2>3. e.fs.winsect \in WinSects
    BY <1>2, <1>7, AreasApart
  <2>4. Looks(r, m) /\ m \in Live /\ m.dp = r.dp /\ (m.res = "OK" => m.fs.winsect = e.fs.winsect)
    BY <2>2, <2>3, MoveSeeks DEF Seeks
  <2> HIDE DEF m
  <2>5. Sane(m, {}, {}) /\ SameSlots(Sees(r), Sees(m))
    BY <2>2, <2>4, WorksSane, LooksSlots
  <2>6. m.res = "OK" => Blank(dir(m)) /\ m.fs.winsect \in TableArea
    <3>1. SUFFICES ASSUME m.res = "OK" PROVE Blank(dir(m)) /\ m.fs.winsect \in TableArea
      OBVIOUS
    <3>2. At(Sees(m), a) = n
      BY <1>2, <1>7, <2>2, <2>5 DEF SameSlots
    <3>3. m.fs.winsect = v.fs.winsect /\ Slot(m) = Slot(v)
      BY <1>7, <2>2a, <2>4, <3>1 DEF Slot
    <3>4. Place(m) = a /\ m.fs.winsect \in TableArea
      BY <1>2, <3>3 DEF Place
    <3>5. dir(m) = At(Sees(m), Place(m)) \/ Blank(dir(m))
      <4>1. WinTrue(m)
        BY <2>5 DEF Sane
      <4> QED
        BY <2>4, <3>4, <4>1, DirSeen
    <3> QED
      BY <1>4, <3>2, <3>4, <3>5 DEF Blank
  <2>7. l \in Live /\ Looks(m, l) /\ l.res = m.res /\ l.dp = m.dp
        /\ l.fs.win = m.fs.win /\ l.fs.winsect = m.fs.winsect
    <3> DEFINE c == cl - 1
    <3>1. c \in Nat
      BY <1>2, <1>9
    <3> HIDE DEF c
    <3>2. LET x == [m EXCEPT !.fs.last = c]
          IN  /\ x \in Live /\ Looks(m, x) /\ x.res = m.res /\ x.dp = m.dp
              /\ x.fs.win = m.fs.win /\ x.fs.winsect = m.fs.winsect
      BY <2>4, <3>1, LastLive
    <3> QED
      BY <3>2 DEF c
  <2> HIDE DEF l
  <2>8. Sane(l, {}, {}) /\ dir(l) = dir(m)
    BY <2>5, <2>7, WorksSane DEF dir, Slot
  <2>9. w = IF r.res = "OK" THEN l ELSE r
    BY <1>1, <1>9
  <2> QED
    BY <2>2, <2>6, <2>7, <2>8, <2>9 DEF w
<1> QED
  BY <1>8, <1>9

(* The entry that a file is opened at: for reading, nothing is changed; to *)
(* be written from its beginning, it is left without a chain.              *)
LEMMA EntryToReadLooks ==
  ASSUME NEW v \in Live, NEW path \in PathSet
  PROVE  LET w == EntryToOpen(v, path, {"R"})
         IN  w \in Live /\ Looks(v, w)
<1> DEFINE f == Lookup(v, path)
           e == EntryToOpen(v, path, {"R"})
<1>1. \/ e = f
      \/ \E r \in {"INVALID_NAME", "DENIED", "EXIST", "NO_FILE"} : e = Res(f, r)
  <2>1. ~Creates({"R"})
    BY DEF Creates
  <2> QED
    BY <2>1, Zenon DEF EntryToOpen, With, Then, Lookup
<1> HIDE DEF e
<1>2. f \in Live /\ Looks(v, f)
  BY LookupLooks DEF Arrives
<1> HIDE DEF f
<1>3. \A r \in {"INVALID_NAME", "DENIED", "EXIST", "NO_FILE"} : Res(f, r) \in Live /\ Looks(v, Res(f, r))
  <2>1. \A r \in Results : Res(f, r) \in Live /\ SameStore(f, Res(f, r))
    BY <1>2, ResLive
  <2>2. \A r \in Results : Looks(v, Res(f, r))
    BY <1>2, <2>1, StoreLooks, LooksOn
  <2>3. {"INVALID_NAME", "DENIED", "EXIST", "NO_FILE"} \subseteq Results
    BY ResultsAre
  <2> QED
    BY <2>1, <2>2, <2>3
<1>4. CASE \E r \in {"INVALID_NAME", "DENIED", "EXIST", "NO_FILE"} : e = Res(f, r)
  BY <1>3, <1>4, Zenon DEF e
<1>5. CASE e = f
  BY <1>2, <1>5 DEF e
<1> QED
  BY <1>1, <1>4, <1>5

(* The name of a file: no free entry's, and no dot entry's, which is a     *)
(* directory's.                                                            *)
FileName(nm) == nm \notin {"", Deleted, ".", ".."}

(* The entry of a file that is to be written from its beginning has no     *)
(* chain: its old one is freed.                                            *)
LEMMA EntryToWriteSane ==
  ASSUME NEW v \in Live, NEW path \in PathSet, Sane(v, {}, {}),
         path.seg # <<>> => FileName(path.seg[Len(path.seg)])
  PROVE  LET w == EntryToOpen(v, path, {"W", "ALWAYS"})
         IN  /\ w \in Live /\ Sane(w, {}, {})
             /\ w.res = "OK" => Blank(dir(w)) /\ w.fs.winsect \in TableArea
<1> DEFINE f == Lookup(v, path)
           nm == path.seg[Len(path.seg)]
           d == dir_register(f)
           t == ResetEntry(d)
           s == ResetEntry(f)
           e == EntryToOpen(v, path, {"W", "ALWAYS"})
           B == {"INVALID_NAME", "DENIED", "EXIST"}
           Good1(x) == /\ x \in Live /\ Sane(x, {}, {})
                       /\ x.res = "OK" => Blank(dir(x)) /\ x.fs.winsect \in TableArea
<1>1. \/ e = f /\ f.res # "OK"
      \/ \E r \in B : e = Res(f, r)
      \/ e = (IF d.res = "OK" THEN t ELSE d)
      \/ f.res = "OK" /\ ~f.dp.origin /\ e = s
  <2>1. Creates({"W", "ALWAYS"}) /\ "ALWAYS" \in {"W", "ALWAYS"}
    BY DEF Creates
  <2> QED
    BY <2>1, Zenon DEF EntryToOpen, With, Then, Lookup
<1> HIDE DEF e
<1>2. Arrives(v, f, nm) /\ (f.res = "OK" /\ path.seg = <<>> => f.dp.origin)
  BY LookupLooks
<1>0. path.seg # <<>> => FileName(nm)
  OBVIOUS
<1> HIDE DEF f, nm
<1>3. f \in Live /\ Sane(f, {}, {})
  BY <1>2, WorksSane DEF Arrives
<1>4. \A r \in B : Good1(Res(f, r))
  <2>1. \A r \in Results : Res(f, r) \in Live /\ SameStore(f, Res(f, r)) /\ Res(f, r).res = r
    BY <1>3, ResLive
  <2>2. \A r \in Results : Sane(Res(f, r), {}, {})
    BY <1>3, <2>1, WorksSane
  <2>3. B \subseteq Results /\ "OK" \notin B
    BY ResultsAre
  <2> HIDE DEF B
  <2> QED
    BY <2>1, <2>2, <2>3
<1>5. d \in Live /\ Sane(d, {}, {})
      /\ (d.res = "OK" => OnEntry(d) /\ dir(d).cl = 0)
  <2>1. /\ Roams(f, d)
        /\ d.res = "OK" => OnEntry(d) /\ dir(d) = Entry(d.dp.fn, FALSE, FALSE, 0, 0)
    BY <1>3, DirRegisterRoams
  <2> HIDE DEF d
  <2>2. d \in Live /\ Works(f, d)
    BY <2>1 DEF Roams
  <2>3. d.dp \in DirSet
    BY <2>2, LiveIs
  <2>4. d.dp.fn \in Words
    BY <2>3 DEF DirSet
  <2>5. Sane(d, {}, {})
    BY <1>3, <2>2, WorksSane
  <2> QED
    BY <2>1, <2>2, <2>4, <2>5, NewEntryIs
<1> HIDE DEF d
<1>6. d.res = "OK" => Good1(t)
  BY <1>5, ResetEntrySane
<1>7. f.res = "OK" /\ ~f.dp.origin => Good1(s)
  <2>1. SUFFICES ASSUME f.res = "OK", ~f.dp.origin PROVE Good1(s)
    OBVIOUS
  <2>2. OnEntry(f) /\ Met(f) /\ Tagged(f.dp, nm) /\ path.seg # <<>>
    BY <1>2, <2>1 DEF Arrives
  <2>3. Named(dir(f))
    <3>1. dir(f).nm = nm
      BY <2>2 DEF Met, Tagged
    <3> QED
      BY <1>0, <2>2, <3>1, Zenon DEF Named, FileName
  <2> QED
    BY <1>3, <2>1, <2>2, <2>3, ResetEntrySane
<1> HIDE DEF t, s
<1>8. CASE e = f /\ f.res # "OK"
  BY <1>3, <1>8 DEF e
<1>9. CASE \E r \in B : e = Res(f, r)
  BY <1>4, <1>9 DEF e
<1>10. CASE e = IF d.res = "OK" THEN t ELSE d
  BY <1>5, <1>6, <1>10 DEF e
<1>11. CASE f.res = "OK" /\ ~f.dp.origin /\ e = s
  BY <1>7, <1>11 DEF e
<1> QED
  BY <1>1, <1>8, <1>9, <1>10, <1>11

(* The file object of an entry.                                            *)
LEMMA FileForIs ==
  ASSUME NEW v \in Live, v.fs.winsect \in TableArea, NEW mode
  PROVE  LET w == FileFor(v, mode)
         IN  /\ w \in Live /\ SameStore(v, w) /\ w.res = v.res /\ w.fp.mod = v.fp.mod
             /\ w.fp.sclust = dir(v).cl /\ w.fp.size = dir(v).sz /\ w.fp.fptr = 0
             /\ w.fp.err = "OK"
<1> DEFINE x == [NoFil EXCEPT
                   !.open = TRUE, !.id = v.fs.id, !.mod = v.fp.mod,
                   !.r = "R" \in mode, !.w = "W" \in mode,
                   !.dsect = v.fs.winsect, !.dptr = Slot(v),
                   !.sclust = dir(v).cl, !.size = dir(v).sz]
           w == FileFor(v, mode)
<1>1. w = WithFp(v, x)
  BY Zenon DEF FileFor, WithFp
<1>2. \A q \in BOOLEAN : v \in Good(q) =>
        w \in Good(q) /\ w.fp.err = "OK" /\ w.fp.fptr = 0 /\ w.res = v.res
  BY FileForKeeps
<1>3. x.mod = v.fp.mod /\ x.sclust = dir(v).cl /\ x.size = dir(v).sz
  BY DEF NoFil
<1> HIDE DEF x, w
<1>4. w \in Live /\ w.fp.err = "OK" /\ w.fp.fptr = 0 /\ w.res = v.res
  <2>1. w \in Good(FALSE) /\ w.fp.err = "OK" /\ w.fp.fptr = 0 /\ w.res = v.res
    BY <1>2, LiveIs
  <2> QED
    BY <2>1, GoodLives
<1>5. SameStore(v, w) /\ w.fp = x
  <2>1. v \in CallSet
    BY LiveIs
  <2>2. SameStore(v, [v EXCEPT !.fp = x]) /\ [v EXCEPT !.fp = x].fp = x
    BY <2>1, FieldsStore DEF CallSet
  <2> QED
    BY <1>1, <2>2 DEF WithFp
<1> QED
  BY <1>3, <1>4, <1>5 DEF w

(* A file opened to be read: nothing has changed, and there is nothing to  *)
(* write to its entry.                                                     *)
LEMMA OpenReadLooks ==
  ASSUME NEW v \in Live, NEW path \in PathSet
  PROVE  LET w == f_open(v, path, {"R"})
         IN  w \in Live /\ Looks(v, w) /\ (w.res = "OK" => w.fp.mod = FALSE)
<1> DEFINE m == {"R"}
           b == WithFp(v, NoFil)
           e == EntryToOpen(b, path, m)
           o == FileFor(e, m)
           w == f_open(v, path, m)
<1>1. w = IF e.res # "OK" THEN e ELSE o
  <2>1. "END" \notin m
    OBVIOUS
  <2> QED
    BY <2>1, Zenon DEF f_open, With, Then, WithFp
<1> HIDE DEF w
<1>2. b \in Live /\ SameStore(v, b) /\ b.fp = NoFil
  BY NoFilIs, FpLive
<1>3. b.fp.mod = FALSE /\ b.fp.open = FALSE
  BY <1>2 DEF NoFil
<1> HIDE DEF b
<1>4. e \in Live /\ Looks(b, e)
  BY <1>2, EntryToReadLooks
<1>5. e.res = "OK" => e.fp.mod = FALSE /\ e.fs.winsect \in TableArea
  <2>1. \A q \in BOOLEAN : b \in Good(q) => FoundEntry(q, e)
    BY <1>3, EntryToOpenKeeps
  <2>2. FoundEntry(FALSE, e)
    BY <1>2, <2>1, LiveIs
  <2>3. e.fp = b.fp
    <3> DEFINE f == Lookup(b, path)
    <3>1. \/ e = f
          \/ \E r \in {"INVALID_NAME", "DENIED", "EXIST", "NO_FILE"} : e = Res(f, r)
      <4>1. ~Creates({"R"})
        BY DEF Creates
      <4> QED
        BY <4>1, Zenon DEF EntryToOpen, With, Then, Lookup
    <3>2. f \in Live /\ f.fp = b.fp
      <4>1. \A q \in BOOLEAN : b \in Good(q) => Reached(q, b, f)
        BY LookupKeeps
      <4> HIDE DEF f
      <4>2. Reached(FALSE, b, f)
        BY <1>2, <4>1, LiveIs
      <4> QED
        BY <4>2, GoodLives DEF Reached, Went, SameFile
    <3> HIDE DEF f, e
    <3>3. \A r : Res(f, r).fp = f.fp
      BY <3>2, LiveIs DEF Res, CallSet
    <3> QED
      BY <3>1, <3>2, <3>3
  <2> QED
    BY <1>3, <2>2, <2>3 DEF FoundEntry
<1> HIDE DEF e
<1>6. e.res = "OK" => o \in Live /\ SameStore(e, o) /\ o.fp.mod = FALSE
  BY <1>4, <1>5, FileForIs
<1> HIDE DEF o
<1>7. Looks(v, e)
  BY <1>2, <1>4, StoreLooks, LooksOn
<1>8. e.res = "OK" => Looks(v, o)
  BY <1>6, <1>7, StoreLooks, LooksOn
<1> QED
  BY <1>1, <1>4, <1>6, <1>7, <1>8 DEF w

(* A file opened to be written: it has no chain and no size.               *)
LEMMA OpenWriteSane ==
  ASSUME NEW v \in Live, NEW path \in PathSet, Sane(v, {}, {}),
         path.seg # <<>> => FileName(path.seg[Len(path.seg)])
  PROVE  LET w == f_open(v, path, {"W", "ALWAYS"})
         IN  /\ w \in Live /\ Sane(w, {}, {})
             /\ w.res = "OK" => w.fp.sclust = 0 /\ w.fp.size = 0 /\ w.fp.fptr = 0
<1> DEFINE m == {"W", "ALWAYS"}
           b == WithFp(v, NoFil)
           e == EntryToOpen(b, path, m)
           o == FileFor(e, m)
           w == f_open(v, path, m)
<1>1. w = IF e.res # "OK" THEN e ELSE o
  <2>1. "END" \notin m
    OBVIOUS
  <2> QED
    BY <2>1, Zenon DEF f_open, With, Then, WithFp
<1> HIDE DEF w
<1>2. b \in Live /\ SameStore(v, b)
  BY NoFilIs, FpLive
<1> HIDE DEF b
<1>3. Sane(b, {}, {})
  BY <1>2, WorksSane
<1>4. /\ e \in Live /\ Sane(e, {}, {})
      /\ e.res = "OK" => Blank(dir(e)) /\ e.fs.winsect \in TableArea
  BY <1>2, <1>3, EntryToWriteSane
<1> HIDE DEF e
<1>5. e.res = "OK" => /\ o \in Live /\ SameStore(e, o) /\ o.fp.sclust = dir(e).cl
                      /\ o.fp.size = dir(e).sz /\ o.fp.fptr = 0
  BY <1>4, FileForIs
<1> HIDE DEF o
<1>6. e.res = "OK" => Sane(o, {}, {})
  BY <1>4, <1>5, WorksSane
<1> QED
  BY <1>1, <1>4, <1>5, <1>6 DEF Blank, w

-----------------------------------------------------------------------------
(* An upload.  The window shows no entry that names a cluster; the chain   *)
(* of the file is not in its entry yet; it is long enough for z bytes, and *)
(* the file's cluster is its last.                                         *)
Clear(v) == \A i \in SlotNos : Blank(EntriesOf(v.fs.win)[i])
Pend(x) == {x.sclust} \ {0}
Built(m, x, z) ==
  IF x.sclust = 0 THEN z = 0
  ELSE \E n \in Nat \ {0} : \E p \in [1..n -> RealClusters] :
          Path(m, p, n) /\ p[1] = x.sclust /\ p[n] = x.clust /\ z <= n * ClusterBytes
Filling(v) == /\ v \in Live /\ Sane(v, Pend(v.fp), {})
              /\ Built(Sees(v), v.fp, v.fp.size) /\ v.fp.fptr = v.fp.size
SameFill(x, y) == /\ y.sclust = x.sclust /\ y.clust = x.clust /\ y.size = x.size
                  /\ y.fptr = x.fptr /\ y.err = x.err

(* A sector of the FAT, taken for entries, names no cluster; nor does one  *)
(* of data.                                                                *)
LEMMA JunkIsBlank ==
  ASSUME NEW c, c.k # "dir"
  PROVE  \A i \in SlotNos : Blank(EntriesOf(c)[i])
BY DEF EntriesOf, JunkEntry, Entry, Blank, SlotNos

(* A sector of the FAT in the window shows no entry. *)
LEMMA FatIsClear ==
  ASSUME NEW v \in Live, v.fs.winsect \in FatSects
  PROVE  Clear(v)
<1>1. \A q \in BOOLEAN : v \in Steady(q) => v.fs.win \in FatSet
  BY SeenInWindow
<1>2. v.fs.win \in FatSet
  BY <1>1, LiveIs
<1>3. v.fs.win.k # "dir"
  BY <1>2 DEF FatSet
<1> HIDE DEF Clear
<1> QED
  BY <1>3, JunkIsBlank DEF Clear

(* Bytes put into the window, over a sector of the tables or the files,    *)
(* leave the chains and the entries as they were, or take entries away.    *)
LEMMA DataWorks ==
  ASSUME NEW v \in Live, v.fs.winsect \in TableArea, NEW c \in TableSet,
         \A i \in SlotNos : Blank(EntriesOf(c)[i])
  PROVE  LET w == SetWin(v, c)
         IN  /\ Works(v, w) /\ w \in Live /\ w.res = v.res /\ w.fp = v.fp /\ w.cnt = v.cnt
             /\ Clear(w)
<1> DEFINE w == SetWin(v, c)
           s == v.fs.winsect
<1>1. s \in WinSects /\ c \in Holds(s) /\ s \notin FatSects /\ s \in Sectors
  BY TableHolds
<1>2. /\ w \in CallSet /\ w \in Live /\ w.disk = v.disk /\ w.media = v.media /\ w.to = v.to
      /\ w.fs.win = c /\ w.fs.winsect = s /\ w.res = v.res
      /\ Sees(w)[s] = c
      /\ \A t \in Sectors : t # s => Sees(w)[t] = Sees(v)[t]
      /\ WinTrue(w)
  BY <1>1, SetWinSees
<1>3. w.fp = v.fp /\ w.cnt = v.cnt
  BY LiveIs DEF SetWin, CallSet, Steady
<1> HIDE DEF w, s
<1>4. \A t \in FatSects \union TableArea : t # s => Sees(w)[t] = Sees(v)[t]
  <2>1. \A t \in FatSects \union TableArea : t \in Sectors
    BY TableHolds, AreasApart
  <2> QED
    BY <1>2, <2>1
<1>5. Under(Sees(v), Sees(w)) /\ SameFatIn(Sees(v), Sees(w))
  <2>1. s \in TableArea
    BY DEF s
  <2>2. \A i \in SlotNos : Blank(EntriesOf(Sees(w)[s])[i])
    BY <1>2
  <2> QED
    BY <1>4, <2>1, <2>2, UnderBut
<1>6. ASSUME NEW P \in SUBSET RealClusters, NEW X \in SUBSET Places, Sane(v, P, X)
      PROVE  Sane(w, P, X) /\ LinksKept(Sees(v), Sees(w)) /\ w.to = v.to
  <2>1. Kept(Sees(v), P, X)
    BY <1>6 DEF Sane
  <2>2. Kept(Sees(w), P, X)
    BY <1>5, <2>1, KeptUnder
  <2>3. Writes(v, w)
    BY <1>2 DEF Writes
  <2>4. Sane(w, P, X)
    BY <1>6, <2>2, <2>3, WritesSane
  <2> QED
    BY <1>2, <1>5, <2>4 DEF SameFatIn, LinksKept
<1>7. Works(v, w)
  BY <1>6, Zenon DEF Works
<1>8. Clear(w)
  BY <1>2 DEF Clear
<1> QED
  BY <1>2, <1>3, <1>7, <1>8 DEF w

(* Data has no entries. *)
LEMMA DataIsClear ==
  ASSUME NEW d
  PROVE  \A i \in SlotNos : Blank(EntriesOf(Data(d))[i])
<1>1. Data(d).k # "dir"
  BY DEF Data
<1> QED
  BY <1>1, JunkIsBlank

(* A file that is long enough stays so while the links of its chain stay.  *)
LEMMA BuiltOn ==
  ASSUME NEW m, NEW n, LinksKept(m, n), NEW x, NEW y, NEW z, Built(m, x, z),
         y.sclust = x.sclust, y.clust = x.clust
  PROVE  Built(n, y, z)
<1>1. CASE x.sclust = 0
  BY <1>1 DEF Built
<1>2. CASE x.sclust # 0
  <2>1. PICK k \in Nat \ {0} : \E p \in [1..k -> RealClusters] :
          Path(m, p, k) /\ p[1] = x.sclust /\ p[k] = x.clust /\ z <= k * ClusterBytes
    BY <1>2 DEF Built
  <2>2. PICK p \in [1..k -> RealClusters] :
          Path(m, p, k) /\ p[1] = x.sclust /\ p[k] = x.clust /\ z <= k * ClusterBytes
    BY <2>1
  <2>3. Path(n, p, k)
    <3>1. ASSUME NEW i \in 1 .. k - 1 PROVE FatEntry(n, p[i]) = p[i + 1]
      <4>1. FatEntry(m, p[i]) = p[i + 1] /\ p[i] \in RealClusters /\ p[i + 1] \in RealClusters
        BY <2>2 DEF Path
      <4> QED
        BY <4>1 DEF LinksKept
    <3> QED
      BY <3>1 DEF Path
  <2> QED
    BY <1>2, <2>2, <2>3 DEF Built
<1> QED
  BY <1>1, <1>2

(* A step that leaves the volume sound and the file alone goes on with the *)
(* upload.                                                                 *)
LEMMA PendIs ==
  ASSUME NEW v, NEW X, Sane(v, Pend(v.fp), X)
  PROVE  /\ Pend(v.fp) \in SUBSET RealClusters /\ {} \in SUBSET Places /\ WinTrue(v)
         /\ v.fp.sclust # 0 => v.fp.sclust \in RealClusters
<1>1. Pend(v.fp) \subseteq RealClusters /\ WinTrue(v)
  BY SanePending
<1> QED
  BY <1>1 DEF Pend

(* A step that keeps the volume sound and leaves the file keeps its chain. *)
LEMMA FillingOn ==
  ASSUME NEW v, Filling(v), NEW w \in Live, Works(v, w) \/ Looks(v, w) \/ SameStore(v, w),
         SameFill(v.fp, w.fp)
  PROVE  Filling(w) /\ \A z : Built(Sees(v), v.fp, z) => Built(Sees(w), w.fp, z)
<1>1. Sane(v, Pend(v.fp), {}) /\ Built(Sees(v), v.fp, v.fp.size) /\ v.fp.fptr = v.fp.size
  BY DEF Filling
<1>2. Pend(v.fp) \in SUBSET RealClusters /\ {} \in SUBSET Places
  BY <1>1, PendIs
<1>3. Works(v, w)
  BY LooksWorks, StoreLooks
<1>4. Sane(w, Pend(v.fp), {}) /\ LinksKept(Sees(v), Sees(w))
  BY <1>1, <1>2, <1>3, Zenon DEF Works
<1>5. Pend(w.fp) = Pend(v.fp)
  BY DEF Pend, SameFill
<1>6. ASSUME NEW z, Built(Sees(v), v.fp, z) PROVE Built(Sees(w), w.fp, z)
  BY <1>4, <1>6, BuiltOn DEF SameFill
<1>7. Built(Sees(w), w.fp, v.fp.size)
  BY <1>1, <1>6
<1>8. Filling(w)
  BY <1>1, <1>4, <1>5, <1>7 DEF Filling, SameFill
<1> QED
  BY <1>6, <1>8

(* ABORT leaves the volume and the file's chain alone. *)
LEMMA AbortFills ==
  ASSUME NEW v, Filling(v), NEW e \in {"DISK_ERR", "INT_ERR"}
  PROVE  LET w == Abort(v, e)
         IN  Filling(w) /\ w.fp.err = e /\ w.res = e
<1> DEFINE w == Abort(v, e)
           x == [v.fp EXCEPT !.err = e]
           y == WithFp(v, x)
           z == Res(y, e)
<1>1. v \in Live /\ v \in CallSet /\ v.fp \in FilSet
  BY LiveIs DEF Filling
<1>2. e \in Results
  BY ResultsAre
<1>3. [v EXCEPT !.fp.err = e] = y
  BY <1>1, FpChanges
<1>4. w = z
  <2>1. w = [[v EXCEPT !.fp.err = e] EXCEPT !.res = e]
    BY Zenon DEF Abort
  <2> HIDE DEF w, y
  <2> QED
    BY <1>3, <2>1 DEF Res
<1>5. x \in FilSet /\ x.err = e
  BY <1>1, <1>2 DEF FilSet
<1> HIDE DEF w, x
<1>6. y \in Live /\ SameStore(v, y) /\ y.fp = x
  BY <1>1, <1>5, FpLive
<1> HIDE DEF y
<1>7. z \in Live /\ z.res = e /\ SameStore(y, z) /\ z.fp = y.fp
  BY <1>2, <1>6, ResLive
<1> HIDE DEF z
<1>8. SameStore(v, z)
  BY <1>6, <1>7, StoreOn
<1>9. x.sclust = v.fp.sclust /\ x.clust = v.fp.clust /\ x.size = v.fp.size /\ x.fptr = v.fp.fptr
  BY <1>1 DEF FilSet, x
<1>10. Filling(z)
  <2>1. Sane(v, Pend(v.fp), {}) /\ Built(Sees(v), v.fp, v.fp.size) /\ v.fp.fptr = v.fp.size
    BY DEF Filling
  <2>2. Pend(v.fp) \in SUBSET RealClusters /\ {} \in SUBSET Places
    BY <2>1, PendIs
  <2>3. Works(v, z)
    BY <1>8, StoreLooks
  <2>4. Sane(z, Pend(v.fp), {}) /\ LinksKept(Sees(v), Sees(z))
    BY <2>1, <2>2, <2>3, Zenon DEF Works
  <2>5. Pend(z.fp) = Pend(v.fp)
    BY <1>6, <1>7, <1>9 DEF Pend
  <2>6. Built(Sees(z), z.fp, v.fp.size)
    BY <1>6, <1>7, <1>9, <2>1, <2>4, BuiltOn
  <2> QED
    BY <1>6, <1>7, <1>9, <2>1, <2>4, <2>5, <2>6 DEF Filling
<1> QED
  BY <1>4, <1>5, <1>6, <1>7, <1>10 DEF w

(* Bytes, sectors and clusters. *)
LEMMA ClusterSize ==
  ASSUME NEW n \in Nat
  PROVE  /\ n * ClusterBytes = (n * ClusterSectors) * SectorBytes
         /\ n * ClusterSectors \in Nat /\ n * ClusterBytes \in Nat
         /\ SectorBytes \in Nat \ {0} /\ ClusterSectors \in Nat \ {0}
<1> DEFINE b == SectorBytes
           s == ClusterSectors
<1>1. b \in Nat \ {0} /\ s \in Nat \ {0}
  BY GeometryAssumption
<1>2. ClusterBytes = b * s
  BY DEF ClusterBytes
<1> HIDE DEF b, s
<1>3. n * (b * s) = (n * s) * b /\ n * s \in Nat /\ (n * s) * b \in Nat
  BY <1>1
<1> QED
  BY <1>1, <1>2, <1>3 DEF b, s

(* Whole numbers of sectors and clusters. *)
LEMMA DivOfProduct ==
  ASSUME NEW d \in Nat \ {0}, NEW k \in Nat
  PROVE  (k * d) % d = 0 /\ (k * d) \div d = k
<1> DEFINE x == k * d
           q == x \div d
           r == x % d
<1>1. (0 + k * d) % d = 0 % d
  BY ModWhole
<1>2. x \in Nat /\ 0 % d = 0 /\ 0 + k * d = x
  OBVIOUS
<1>3. r = 0
  BY <1>1, <1>2
<1> HIDE DEF x
<1>4. q \in Nat /\ x = q * d + r
  BY <1>2
<1>5. q * d = k * d
  BY <1>3, <1>4 DEF x
<1> HIDE DEF q, r
<1>6. q = k
  <2>1. CASE q < k
    <3>1. k = q + (k - q) /\ k - q \in Nat /\ k - q >= 1
      BY <1>4, <2>1
    <3> DEFINE j == k - q
    <3>2. k * d = q * d + j * d
      BY <1>4, <3>1
    <3>3. j * d >= 1
      <4> HIDE DEF j
      <4>1. j \in Nat /\ j >= 1
        BY <3>1 DEF j
      <4> QED
        BY <4>1
    <3> QED
      BY <1>4, <1>5, <3>2, <3>3
  <2>2. CASE q > k
    <3> DEFINE j == q - k
    <3>1. q = k + j /\ j \in Nat /\ j >= 1
      BY <1>4, <2>2
    <3> HIDE DEF j
    <3>2. q * d = k * d + j * d /\ j * d >= 1
      BY <3>1
    <3> QED
      BY <1>4, <1>5, <3>2
  <2> QED
    BY <1>4, <2>1, <2>2
<1> QED
  BY <1>3, <1>6 DEF q, r, x

(* More clusters have more bytes. *)
LEMMA TimesGrows == \A j, k, n \in Nat : j <= k => j * n <= k * n
OBVIOUS

(* The end of a chain's bytes is the end of a cluster. *)
LEMMA AtChainEnd ==
  ASSUME NEW n \in Nat, NEW a, a = n * ClusterBytes
  PROVE  a % SectorBytes = 0 /\ (a \div SectorBytes) % ClusterSectors = 0
<1> DEFINE k == n * ClusterSectors
<1>1. a = k * SectorBytes /\ k \in Nat /\ SectorBytes \in Nat \ {0} /\ ClusterSectors \in Nat \ {0}
  BY ClusterSize
<1>2. k % ClusterSectors = 0
  BY <1>1, DivOfProduct
<1> HIDE DEF k
<1>3. a % SectorBytes = 0 /\ a \div SectorBytes = k
  BY <1>1, DivOfProduct
<1> QED
  BY <1>2, <1>3

(* What a step writes ends within the cluster it begins in. *)
LEMMA PartFits ==
  ASSUME NEW n \in Nat, NEW a \in Nat, a < n * ClusterBytes,
         NEW k \in Nat, (a % SectorBytes) + k <= SectorBytes
  PROVE  a + k <= n * ClusterBytes
<1> DEFINE d == SectorBytes
           j == n * ClusterSectors
           i == a \div d
           r == a % d
<1>1. n * ClusterBytes = j * d /\ j \in Nat /\ d \in Nat \ {0}
  BY ClusterSize
<1> HIDE DEF d, j
<1>2. i \in 0 .. j - 1
  BY <1>1, BelowProduct
<1>3. a = i * d + r /\ i \in Nat
  BY <1>1
<1>4. (i + 1) * d <= j * d
  <2>1. i + 1 \in Nat /\ i + 1 <= j
    BY <1>1, <1>2
  <2> QED
    BY <1>1, <2>1, TimesGrows
<1>5. (i + 1) * d = i * d + d
  BY <1>1, <1>3
<1>6. r + k <= d /\ r \in Nat
  BY <1>1 DEF d
<1> HIDE DEF i, r
<1>7. i * d \in Nat /\ j * d \in Nat
  BY <1>1, <1>3
<1> DEFINE x == i * d
           y == j * d
<1>8. a + k = x + (r + k)
  BY <1>3, <1>6, <1>7
<1>9. x + d <= y
  BY <1>4, <1>5
<1> HIDE DEF x, y
<1> QED
  BY <1>1, <1>6, <1>7, <1>8, <1>9 DEF x, y

(* The sectors that are left of a cluster fit the chain. *)
LEMMA WholeFits ==
  ASSUME NEW n \in Nat, NEW a \in Nat, a < n * ClusterBytes, a % SectorBytes = 0,
         NEW k \in Nat, k + ((a \div SectorBytes) % ClusterSectors) <= ClusterSectors
  PROVE  a + k * SectorBytes <= n * ClusterBytes
<1> DEFINE d == SectorBytes
           s == ClusterSectors
           j == n * s
           i == a \div d
           h == i \div s
           t == i % s
<1>1. n * ClusterBytes = j * d /\ j \in Nat /\ d \in Nat \ {0} /\ s \in Nat \ {0}
  BY ClusterSize
<1>2. k + t <= s
  OBVIOUS
<1>3. i \in Nat /\ a = i * d
  <2> HIDE DEF j, s
  <2>1. d \in Nat \ {0} /\ a % d = 0
    BY <1>1
  <2> HIDE DEF d
  <2>2. a = (a \div d) * d + (a % d) /\ a \div d \in Nat
    BY <2>1
  <2> QED
    BY <2>1, <2>2
<1>4. i < j
  <2>1. a < j * d
    BY <1>1
  <2> HIDE DEF d, j, s, t, h
  <2>2. i \in 0 .. j - 1
    BY <1>1, <2>1, BelowProduct
  <2> QED
    BY <1>1, <2>2
<1> HIDE DEF d, i
<1>5. h \in 0 .. n - 1
  BY <1>1, <1>3, <1>4, BelowProduct
<1> HIDE DEF s
<1>6. i = h * s + t /\ t \in Nat
  BY <1>1, <1>3
<1>7. (h + 1) * s <= j /\ (h + 1) * s = h * s + s
  <2>1. h + 1 \in Nat /\ h + 1 <= n
    BY <1>5
  <2>2. (h + 1) * s <= n * s
    BY <1>1, <2>1, TimesGrows
  <2> QED
    BY <1>1, <1>5, <2>2
<1> HIDE DEF h, t, j
<1>8. i + k <= j
  <2> DEFINE x == h * s
  <2>1. x \in Nat
    BY <1>1, <1>5
  <2>2. i = x + t /\ x + s <= j
    BY <1>6, <1>7
  <2> HIDE DEF x
  <2> QED
    BY <1>1, <1>2, <1>6, <2>1, <2>2
<1>9. (i + k) * d <= j * d /\ (i + k) * d = i * d + k * d
  BY <1>1, <1>3, <1>8, TimesGrows
<1> QED
  BY <1>1, <1>3, <1>9 DEF d

-----------------------------------------------------------------------------
(* The cluster that f_write goes on in.                                    *)
EndOfCluster(v) == AtSector(v) /\ SectInClust(v) = 0
Going(v) == Filling(v) /\ \/ Clear(v)
                          \/ EndOfCluster(v) /\ (v.fp.fptr = 0 => v.fp.sclust = 0)
Reaches(m, c, d, z) == \E n \in Nat \ {0} : \E p \in [1..n -> RealClusters] :
                          Path(m, p, n) /\ p[1] = c /\ p[n] = d /\ z < n * ClusterBytes
Room(v) == v.fp.sclust # 0 /\ Reaches(Sees(v), v.fp.sclust, v.fp.clust, v.fp.fptr)
ClusterFor(v) == IF v.fp.fptr # 0 THEN create_chain(v, v.fp.clust)
                 ELSE IF v.fp.sclust = 0 THEN create_chain(v, 0)
                 ELSE Ret(v, v.fp.sclust)
HeadOf(v, c) == IF v.fp.sclust = 0 THEN c.ret ELSE v.fp.sclust

(* A chain with room for a byte is one with a place for it. *)
LEMMA RoomBuilt ==
  ASSUME NEW m, NEW x, x.sclust # 0, NEW z \in Nat,
         Reaches(m, x.sclust, x.clust, z), NEW y \in Nat, y <= z
  PROVE  Built(m, x, y)
<1>1. PICK n \in Nat \ {0} : \E p \in [1..n -> RealClusters] :
          Path(m, p, n) /\ p[1] = x.sclust /\ p[n] = x.clust /\ z < n * ClusterBytes
  BY DEF Reaches
<1>2. PICK p \in [1..n -> RealClusters] :
          Path(m, p, n) /\ p[1] = x.sclust /\ p[n] = x.clust /\ z < n * ClusterBytes
  BY <1>1
<1>3. y <= n * ClusterBytes
  <2> DEFINE b == n * ClusterBytes
  <2>1. b \in Nat /\ z < b
    BY <1>2, ClusterSize
  <2> HIDE DEF b
  <2> QED
    BY <2>1 DEF b
<1> QED
  BY <1>2, <1>3 DEF Built

(* Within a cluster the chain has room, *)
LEMMA WithinRoom ==
  ASSUME NEW v, Filling(v), ~EndOfCluster(v)
  PROVE  Room(v)
<1> DEFINE x == v.fp
<1>1. v \in Live /\ Built(Sees(v), x, x.fptr)
  BY DEF Filling
<1>2. x.fptr \in Nat
  BY <1>1, FileIs
<1>3. x.sclust # 0
  <2>1. SUFFICES ASSUME x.sclust = 0 PROVE FALSE
    OBVIOUS
  <2>2. x.fptr = 0
    BY <1>1, <2>1 DEF Built
  <2>3. x.fptr = 0 * ClusterBytes
    BY <2>2, LayoutIs
  <2>4. EndOfCluster(v)
    BY <2>3, AtChainEnd DEF EndOfCluster, AtSector, SectInClust
  <2> QED
    BY <2>4
<1>4. PICK n \in Nat \ {0} : \E p \in [1..n -> RealClusters] :
          Path(Sees(v), p, n) /\ p[1] = x.sclust /\ p[n] = x.clust /\ x.fptr <= n * ClusterBytes
  BY <1>1, <1>3 DEF Built
<1>5. x.fptr # n * ClusterBytes
  <2>1. SUFFICES ASSUME x.fptr = n * ClusterBytes PROVE FALSE
    OBVIOUS
  <2>2. EndOfCluster(v)
    BY <2>1, AtChainEnd DEF EndOfCluster, AtSector, SectInClust
  <2> QED
    BY <2>2
<1>6. \A p : x.fptr <= n * ClusterBytes => x.fptr < n * ClusterBytes
  <2> DEFINE b == n * ClusterBytes
  <2>1. b \in Nat /\ x.fptr # b
    BY <1>5, ClusterSize
  <2> HIDE DEF b, x
  <2>2. x.fptr <= b => x.fptr < b
    BY <1>2, <2>1
  <2> QED
    BY <2>2 DEF b
<1> QED
  BY <1>3, <1>4, <1>6 DEF Room, Reaches

(* A chain of one cluster. *)
LEMMA ReachesSelf ==
  ASSUME NEW m, NEW c \in RealClusters, NEW z, z = 0
  PROVE  Reaches(m, c, c, z)
<1> DEFINE k == 1
           e == [i \in 1..k |-> c]
<1>1. k \in Nat \ {0} /\ e \in [1..k -> RealClusters] /\ e[1] = c /\ e[k] = c /\ 1..k - 1 = {}
  OBVIOUS
<1>2. z < k * ClusterBytes
  BY LayoutIs
<1> HIDE DEF e, k
<1>3. Path(m, e, k)
  BY <1>1 DEF Path
<1> QED
  BY <1>1, <1>2, <1>3, Zenon DEF Reaches

(* and at its end the next cluster, if there is one, gives it room. *)
LEMMA ClusterForSane ==
  ASSUME NEW v, Going(v), EndOfCluster(v)
  PROVE  LET c == ClusterFor(v)
             s == HeadOf(v, c)
         IN  /\ c \in Live /\ c.fp = v.fp /\ c.ret \in {0, 1, DISKERR} \union RealClusters
             /\ c.ret \notin RealClusters => Filling(c) /\ (v.fp.fptr = 0 => v.fp.sclust = 0)
             /\ c.ret \in RealClusters =>
                  /\ Clear(c) /\ s \in RealClusters /\ Sane(c, {s}, {})
                  /\ Reaches(Sees(c), s, c.ret, v.fp.fptr)
<1> DEFINE x == v.fp
           c == ClusterFor(v)
           s == HeadOf(v, c)
           g == create_chain(v, x.clust)
           h == create_chain(v, 0)
           r == Ret(v, x.sclust)
<1>0. /\ v \in Live /\ Filling(v) /\ Sane(v, Pend(x), {}) /\ Built(Sees(v), x, x.fptr)
      /\ Pend(x) \in SUBSET RealClusters /\ {} \in SUBSET Places
      /\ x.sclust # 0 => x.sclust \in RealClusters
  BY PendIs DEF Going, Filling
<1>1. x.fptr \in Nat /\ x.clust \in Nat /\ x.sclust \in Nat /\ v \in CallSet
  BY <1>0, FileIs
<1>2. Pend(x) \subseteq RealClusters /\ {} \subseteq Places
  BY <1>0
<1>3. CASE x.fptr # 0
  <2>1. c = g
    BY <1>3, Zenon DEF ClusterFor
  <2>2. Chained(v, g, x.clust, Pend(x), {})
    BY <1>0, <1>1, <1>2, CreateChainSane
  <2> HIDE DEF g
  <2>3. /\ g \in Live /\ g.fp = x /\ g.ret \in {0, 1, DISKERR} \union RealClusters
    BY <2>2, GoodLives DEF Chained, Created, SameWork
  <2>4. x.sclust # 0
    BY <1>0, <1>3 DEF Built
  <2>5. Pend(x) = {x.sclust} /\ s = x.sclust
    BY <2>4, Zenon DEF Pend, HeadOf
  <2>6. PICK n \in Nat \ {0} : \E p \in [1..n -> RealClusters] :
          Path(Sees(v), p, n) /\ p[1] = x.sclust /\ p[n] = x.clust /\ x.fptr <= n * ClusterBytes
    BY <1>0, <2>4 DEF Built
  <2>7. PICK p \in [1..n -> RealClusters] :
          Path(Sees(v), p, n) /\ p[1] = x.sclust /\ p[n] = x.clust /\ x.fptr <= n * ClusterBytes
    BY <2>6
  <2>8. x.clust # 0
    BY <2>7, NumbersApart
  <2>9. Sane(g, Pend(x), {}) /\ LinksKept(Sees(v), Sees(g))
    BY <2>2, <2>8 DEF Chained
  <2>10. g.ret \notin RealClusters => Filling(g)
    <3>1. Built(Sees(g), g.fp, x.fptr)
      BY <1>0, <2>3, <2>9, BuiltOn
    <3>2. x.fptr = x.size
      BY <1>0 DEF Filling
    <3> QED
      BY <2>3, <2>9, <3>1, <3>2 DEF Filling
  <2>11. ASSUME g.ret \in RealClusters
         PROVE  Clear(g) /\ Sane(g, {x.sclust}, {}) /\ x.sclust \in RealClusters
                /\ Reaches(Sees(g), x.sclust, g.ret, x.fptr)
    <3>1. g.fs.winsect \in FatSects /\ FatEntry(Sees(g), x.clust) = g.ret
      BY <2>2, <2>8, <2>11 DEF Chained
    <3>2. Clear(g)
      BY <2>3, <3>1, FatIsClear
    <3> DEFINE k == n + 1
               e == [i \in 1..k |-> IF i = k THEN g.ret ELSE p[i]]
    <3>3. e \in [1..k -> RealClusters]
      BY <2>11
    <3>4. Path(Sees(g), e, k)
      <4>1. ASSUME NEW i \in 1 .. k - 1 PROVE FatEntry(Sees(g), e[i]) = e[i + 1]
        <5>1. CASE i = n
          <6>1. e[i] = p[n] /\ e[i + 1] = g.ret
            BY <5>1
          <6> HIDE DEF e
          <6> QED
            BY <2>7, <3>1, <6>1
        <5>2. CASE i # n
          <6>1. i \in 1 .. n - 1 /\ e[i] = p[i] /\ e[i + 1] = p[i + 1]
            BY <5>2
          <6>2. FatEntry(Sees(v), p[i]) = p[i + 1] /\ p[i] \in RealClusters /\ p[i + 1] \in RealClusters
            BY <2>7, <6>1 DEF Path
          <6> HIDE DEF e
          <6> QED
            BY <2>9, <6>1, <6>2 DEF LinksKept
        <5> QED
          BY <5>1, <5>2
      <4> HIDE DEF e, k
      <4> QED
        BY <3>3, <4>1 DEF Path
    <3>5. e[1] = x.sclust /\ e[k] = g.ret
      BY <2>7
    <3>6. x.fptr < k * ClusterBytes
      <4>1. n * ClusterBytes \in Nat /\ ClusterBytes \in Nat /\ ClusterBytes >= 1
        BY ClusterSize, LayoutIs
      <4>2. k * ClusterBytes = n * ClusterBytes + ClusterBytes
        BY <4>1
      <4> DEFINE b == n * ClusterBytes
      <4>3. x.fptr <= b /\ b \in Nat
        BY <2>7, <4>1
      <4> HIDE DEF b, k, x
      <4> QED
        BY <1>1, <4>1, <4>2, <4>3 DEF b
    <3>7. Reaches(Sees(g), x.sclust, g.ret, x.fptr)
      <4>1. k \in Nat \ {0}
        OBVIOUS
      <4> HIDE DEF e, k
      <4> QED
        BY <3>3, <3>4, <3>5, <3>6, <4>1 DEF Reaches
    <3> QED
      BY <1>0, <2>4, <2>5, <2>9, <3>2, <3>7
  <2> QED
    BY <1>3, <2>1, <2>3, <2>5, <2>10, <2>11
<1>4. CASE x.fptr = 0 /\ x.sclust = 0
  <2>1. c = h
    BY <1>4, Zenon DEF ClusterFor
  <2>2. Chained(v, h, 0, Pend(x), {})
    BY <1>0, <1>2, CreateChainSane
  <2> HIDE DEF h
  <2>3. /\ h \in Live /\ h.fp = x /\ h.ret \in {0, 1, DISKERR} \union RealClusters
    BY <2>2, GoodLives DEF Chained, Created, SameWork
  <2>4. Pend(x) = {} /\ s = c.ret
    BY <1>4, Zenon DEF Pend, HeadOf
  <2>5. h.ret \notin RealClusters => Filling(h)
    <3>1. h.ret \notin RealClusters => Sane(h, Pend(x), {}) /\ Built(Sees(h), h.fp, x.fptr)
      BY <1>4, <2>2, <2>3 DEF Chained, Built
    <3>2. x.fptr = x.size
      BY <1>0 DEF Filling
    <3> QED
      BY <2>3, <3>1, <3>2 DEF Filling
  <2>6. ASSUME h.ret \in RealClusters
        PROVE  Clear(h) /\ Sane(h, {h.ret}, {}) /\ Reaches(Sees(h), h.ret, h.ret, x.fptr)
    <3>1. h.fs.winsect \in FatSects /\ Sane(h, {} \union {h.ret}, {})
      BY <2>2, <2>4, <2>6 DEF Chained
    <3>2. Clear(h)
      BY <2>3, <3>1, FatIsClear
    <3>6. Reaches(Sees(h), h.ret, h.ret, x.fptr)
      BY <1>4, <2>6, ReachesSelf
    <3> QED
      BY <3>1, <3>2, <3>6
  <2> QED
    BY <1>4, <2>1, <2>3, <2>4, <2>5, <2>6
<1>5. CASE x.fptr = 0 /\ x.sclust # 0
  <2>1. c = r
    BY <1>5, Zenon DEF ClusterFor
  <2>2. r \in Live /\ SameStore(v, r) /\ r.ret = x.sclust /\ r.fp = x
    BY <1>0, <1>1, RetLive
  <2> HIDE DEF r
  <2>3. Sane(r, Pend(x), {}) /\ r.fs = v.fs /\ Sees(r) = Sees(v)
    BY <1>0, <1>2, <2>2, WorksSane DEF SameStore, Sees
  <2>4. Pend(x) = {x.sclust} /\ s = x.sclust
    BY <1>5 DEF Pend, HeadOf
  <2>5. Clear(r)
    BY <1>5, <2>3 DEF Going, Clear
  <2>6. x.sclust \in RealClusters
    BY <1>0, <1>5
  <2>9. Reaches(Sees(r), x.sclust, r.ret, x.fptr)
    BY <1>5, <2>2, <2>6, ReachesSelf
  <2> QED
    BY <2>1, <2>2, <2>3, <2>4, <2>5, <2>6, <2>9
<1> HIDE DEF c, s
<1> QED
  BY <1>3, <1>4, <1>5 DEF c, s

(* f_write goes on in a cluster that has room, gives up on a full card, or *)
(* aborts; in each case the file's chain is as long as its size says.      *)
Went1(w) == \/ w.res = "OK" /\ w.fp.err = "OK" /\ Clear(w) /\ Room(w)
            \/ w.res = "FULL" /\ w.fp.err = "OK" /\ Going(w)
            \/ w.res \notin {"OK", "FULL"} /\ w.fp.err # "OK"

(* The first part of a write to a cluster: it is there, or there is none. *)
LEMMA WriteClusterFills ==
  ASSUME NEW v, Going(v), v.fp.err = "OK"
  PROVE  LET w == WriteCluster(v) IN Filling(w) /\ Went1(w)
<1> DEFINE c == ClusterFor(v)
           s == HeadOf(v, c)
           x == [c.fp EXCEPT !.clust = c.ret]
           y == WithFp(c, x)
           x2 == [y.fp EXCEPT !.sclust = s]
           z == WithFp(y, x2)
           w == OK(z)
           o == OK(v)
           f == Res(c, "FULL")
           b == Abort(c, ClusterError(c.ret))
<1>1. WriteCluster(v) = IF ~EndOfCluster(v) THEN o
                        ELSE IF c.ret = 0 THEN f
                        ELSE IF c.ret \in {1, DISKERR} THEN b
                        ELSE OK([c EXCEPT !.fp.clust = c.ret, !.fp.sclust = s])
  <2>1. WriteCluster(v) = IF ~AtSector(v) \/ SectInClust(v) # 0 THEN o
                          ELSE IF c.ret = 0 THEN f
                          ELSE IF c.ret \in {1, DISKERR} THEN b
                          ELSE OK([c EXCEPT !.fp.clust = c.ret, !.fp.sclust = s])
    BY Zenon DEF WriteCluster, With, ClusterFor, HeadOf
  <2>2. ~EndOfCluster(v) <=> ~AtSector(v) \/ SectInClust(v) # 0
    BY DEF EndOfCluster
  <2> DEFINE w1 == OK([c EXCEPT !.fp.clust = c.ret, !.fp.sclust = s])
  <2> HIDE DEF w1, c, o, f, b
  <2> QED
    BY <2>1, <2>2 DEF w1
<1>2. v \in Live /\ Filling(v)
  BY DEF Going, Filling
<1>3. CASE ~EndOfCluster(v)
  <2>1. o \in Live /\ o.res = "OK" /\ SameStore(v, o) /\ o.fp = v.fp /\ o.fs = v.fs
    BY <1>2, OKLive
  <2> HIDE DEF o
  <2>2. Filling(o)
    BY <1>2, <2>1, FillingOn DEF SameFill
  <2>3. Clear(o)
    BY <1>3, <2>1 DEF Going, Clear
  <2>4. Room(v) /\ Sees(o) = Sees(v)
    BY <1>2, <1>3, <2>1, WithinRoom DEF Sees, SameStore
  <2>5. Room(o)
    BY <2>1, <2>4 DEF Room
  <2>6. WriteCluster(v) = o
    BY <1>1, <1>3
  <2> QED
    BY <2>1, <2>2, <2>3, <2>5, <2>6 DEF Went1
<1>4. CASE EndOfCluster(v)
  <2>1. /\ c \in Live /\ c.fp = v.fp /\ c.ret \in {0, 1, DISKERR} \union RealClusters
        /\ c.ret \notin RealClusters => Filling(c) /\ (v.fp.fptr = 0 => v.fp.sclust = 0)
        /\ c.ret \in RealClusters =>
             /\ Clear(c) /\ s \in RealClusters /\ Sane(c, {s}, {})
             /\ Reaches(Sees(c), s, c.ret, v.fp.fptr)
    BY <1>4, ClusterForSane
  <2> HIDE DEF c, s
  <2>2. CASE c.ret = 0
    <3>1. WriteCluster(v) = f
      BY <1>1, <1>4, <2>2
    <3>2. f \in Live /\ f.res = "FULL" /\ SameStore(c, f) /\ f.fp = c.fp
      BY <2>1, ResultsAre, ResLive
    <3> HIDE DEF f
    <3>3. Filling(c) /\ (v.fp.fptr = 0 => v.fp.sclust = 0)
      BY <2>1, <2>2, NumbersApart
    <3>4. Filling(f)
      BY <3>2, <3>3, FillingOn DEF SameFill
    <3>5. EndOfCluster(f)
      BY <1>4, <2>1, <3>2 DEF EndOfCluster, AtSector, SectInClust
    <3> QED
      BY <2>1, <3>1, <3>2, <3>3, <3>4, <3>5 DEF Going, Went1
  <2>3. CASE c.ret \in {1, DISKERR}
    <3>1. WriteCluster(v) = b
      <4>1. c.ret # 0
        BY <2>3, NumbersApart
      <4> QED
        BY <1>1, <1>4, <2>3, <4>1
    <3>2. Filling(c)
      BY <2>1, <2>3, NumbersApart
    <3>3. Filling(b) /\ b.fp.err = ClusterError(c.ret) /\ b.res = ClusterError(c.ret)
      BY <3>2, ClusterErrorIs, AbortFills
    <3> HIDE DEF b
    <3>4. ClusterError(c.ret) \in {"DISK_ERR", "INT_ERR"}
      BY ClusterErrorIs
    <3> QED
      BY <3>1, <3>3, <3>4 DEF Went1
  <2>4. CASE c.ret \in RealClusters
    <3>1. c.ret \in FileClusters /\ c.ret # 0 /\ c.ret \notin {1, DISKERR}
      BY <2>4, NumbersApart DEF FileClusters
    <3>2. c \in CallSet /\ c.fp \in FilSet
      BY <2>1, FileIs
    <3>3. x \in FilSet /\ x.clust = c.ret /\ x.sclust = c.fp.sclust /\ x.size = c.fp.size
          /\ x.fptr = c.fp.fptr /\ x.err = c.fp.err
      BY <3>1, <3>2 DEF FilSet
    <3>4. [c EXCEPT !.fp.clust = c.ret] = y
      BY <3>2, FpChanges
    <3> HIDE DEF x
    <3>5. y \in Live /\ y.fp = x /\ SameStore(c, y)
      BY <2>1, <3>3, FpLive
    <3>6. [c EXCEPT !.fp.clust = c.ret, !.fp.sclust = s] = [y EXCEPT !.fp.sclust = s]
      BY <3>4
    <3> HIDE DEF y
    <3>7. y \in CallSet /\ y.fp \in FilSet /\ s \in ClusterNos
      BY <2>1, <2>4, <3>5, FileIs, NumbersApart
    <3>8. [y EXCEPT !.fp.sclust = s] = z
      BY <3>7, FpChanges
    <3>9. x2 \in FilSet /\ x2.clust = y.fp.clust /\ x2.sclust = s /\ x2.size = y.fp.size
          /\ x2.fptr = y.fp.fptr /\ x2.err = y.fp.err
      BY <3>7 DEF FilSet
    <3> HIDE DEF x2
    <3>10. z \in Live /\ z.fp = x2 /\ SameStore(y, z)
      BY <3>5, <3>9, FpLive
    <3> HIDE DEF z
    <3>11. w \in Live /\ w.res = "OK" /\ w.fp = z.fp /\ SameStore(z, w)
      BY <3>10, OKLive
    <3>12. WriteCluster(v) = w
      BY <1>1, <1>4, <3>1, <3>6, <3>8
    <3> HIDE DEF w
    <3>13. SameStore(c, w)
      BY <3>5, <3>10, <3>11, StoreOn
    <3>14. /\ w.fp.clust = c.ret /\ w.fp.sclust = s /\ w.fp.size = v.fp.size
           /\ w.fp.fptr = v.fp.fptr /\ w.fp.err = "OK"
      BY <2>1, <3>3, <3>5, <3>9, <3>10, <3>11
    <3>15. s \in RealClusters /\ Sane(c, {s}, {}) /\ Reaches(Sees(c), s, c.ret, v.fp.fptr) /\ Clear(c)
      BY <2>1, <2>4
    <3>16. Sees(w) = Sees(c) /\ Clear(w)
      BY <3>13, <3>15 DEF SameStore, Sees, Clear
    <3>17. Sane(w, {s}, {})
      <4>1. {s} \subseteq RealClusters /\ {} \subseteq Places
        BY <3>15
      <4> QED
        BY <3>13, <3>15, <4>1, WorksSane
    <3>18. w.fp.sclust # 0 /\ Pend(w.fp) = {s}
      <4>1. s # 0
        BY <3>15, NumbersApart
      <4> QED
        BY <3>14, <4>1 DEF Pend
    <3>19. Room(w)
      BY <3>14, <3>15, <3>16, <3>18 DEF Room
    <3>20. v.fp.fptr = v.fp.size /\ v.fp.size \in Nat /\ v.fp.fptr \in Nat
      BY <1>2, FileIs DEF Filling
    <3>21. Built(Sees(w), w.fp, w.fp.size)
      BY <3>14, <3>18, <3>19, <3>20, RoomBuilt DEF Room
    <3>22. Filling(w)
      BY <3>11, <3>14, <3>17, <3>18, <3>20, <3>21 DEF Filling
    <3> QED
      BY <3>11, <3>12, <3>14, <3>16, <3>19, <3>22 DEF Went1
  <2> QED
    BY <2>1, <2>2, <2>3, <2>4
<1> QED
  BY <1>3, <1>4

(* Written bytes that the chain has a place for make the file longer. *)
LEMMA GrowFills ==
  ASSUME NEW v \in Live, Sane(v, Pend(v.fp), {}), v.fp.fptr = v.fp.size, NEW k \in Nat,
         Built(Sees(v), v.fp, v.fp.fptr + k)
  PROVE  LET w == Grow(v, k)
         IN  Filling(w) /\ w.res = v.res /\ w.fp.err = v.fp.err /\ w.fs = v.fs
<1> DEFINE z == v.fp.fptr + k
           w == Advance(v, k)
           s == IF w.fp.fptr > w.fp.size THEN w.fp.fptr ELSE w.fp.size
           x == [w.fp EXCEPT !.size = s]
           y == WithFp(w, x)
<1>0. v \in CallSet /\ v.fp \in FilSet /\ v.fp.fptr \in Nat /\ v.fp.size \in Nat
  BY FileIs
<1>1. w \in Live /\ SameStore(v, w) /\ w.res = v.res /\ w.fp = [v.fp EXCEPT !.fptr = z]
  <2>1. \A q \in BOOLEAN : v \in Good(q) => /\ w \in Good(q) /\ w.res = v.res
                                           /\ w.fp = [v.fp EXCEPT !.fptr = z]
    BY AdvanceKeeps
  <2>2. SameStore(v, w)
    BY <1>0, AdvanceStore
  <2> HIDE DEF w
  <2> QED
    BY <2>1, <2>2, LiveIs, GoodLives
<1>2. Grow(v, k) = [w EXCEPT !.fp.size = s]
  BY Zenon DEF Grow, With
<1> HIDE DEF w
<1>3. w \in CallSet /\ w.fp \in FilSet
  BY <1>1, FileIs
<1>4. Grow(v, k) = y
  <2> HIDE DEF s
  <2>1. [w EXCEPT !.fp.size = s] = y
    BY <1>3, FpChanges
  <2> HIDE DEF y
  <2> QED
    BY <1>2, <2>1
<1>5. /\ w.fp.fptr = z /\ w.fp.size = v.fp.size /\ w.fp.err = v.fp.err
      /\ w.fp.sclust = v.fp.sclust /\ w.fp.clust = v.fp.clust
  <2> HIDE DEF z
  <2> QED
    BY <1>0, <1>1 DEF FilSet
<1>6. s = z /\ z \in Nat
  BY <1>0, <1>5
<1> HIDE DEF s, z
<1>7. /\ x \in FilSet /\ x.size = z /\ x.fptr = z /\ x.err = v.fp.err
      /\ x.sclust = v.fp.sclust /\ x.clust = v.fp.clust
  BY <1>3, <1>5, <1>6 DEF FilSet
<1> HIDE DEF x
<1>8. y \in Live /\ y.fp = x /\ y.res = w.res /\ SameStore(w, y)
  BY <1>1, <1>7, FpLive
<1> HIDE DEF y
<1>9. SameStore(v, y)
  BY <1>1, <1>8, StoreOn
<1>10. Pend(y.fp) = Pend(v.fp) /\ Sees(y) = Sees(v) /\ y.fs = v.fs
  BY <1>7, <1>8, <1>9 DEF Pend, Sees, SameStore
<1>11. Sane(y, Pend(y.fp), {})
  <2>1. Pend(v.fp) \subseteq RealClusters /\ {} \subseteq Places
    BY PendIs
  <2> QED
    BY <1>9, <1>10, <2>1, WorksSane
<1>12. Built(Sees(y), y.fp, z)
  <2>1. LinksKept(Sees(v), Sees(y))
    BY <1>10 DEF LinksKept
  <2>2. Built(Sees(v), v.fp, z)
    BY DEF z
  <2> QED
    BY <1>7, <1>8, <2>1, <2>2, BuiltOn
<1>13. Filling(y)
  BY <1>7, <1>8, <1>11, <1>12 DEF Filling
<1> QED
  BY <1>1, <1>4, <1>7, <1>8, <1>10, <1>13

(* Room for a byte is room for all that a step writes. *)
LEMMA RoomForStep ==
  ASSUME NEW v \in Live, Room(v), NEW k \in Nat
  PROVE  /\ (v.fp.fptr % SectorBytes) + k <= SectorBytes => Built(Sees(v), v.fp, v.fp.fptr + k)
         /\ AtSector(v) /\ k + SectInClust(v) <= ClusterSectors =>
              Built(Sees(v), v.fp, v.fp.fptr + k * SectorBytes)
<1> DEFINE x == v.fp
<1>1. x.fptr \in Nat
  BY FileIs
<1>2. PICK n \in Nat \ {0} : \E p \in [1..n -> RealClusters] :
          Path(Sees(v), p, n) /\ p[1] = x.sclust /\ p[n] = x.clust /\ x.fptr < n * ClusterBytes
  BY DEF Room, Reaches
<1>3. PICK p \in [1..n -> RealClusters] :
          Path(Sees(v), p, n) /\ p[1] = x.sclust /\ p[n] = x.clust /\ x.fptr < n * ClusterBytes
  BY <1>2
<1>4. \A z : z <= n * ClusterBytes => Built(Sees(v), x, z)
  BY <1>3 DEF Room, Built
<1>5. (x.fptr % SectorBytes) + k <= SectorBytes => x.fptr + k <= n * ClusterBytes
  BY <1>1, <1>3, PartFits
<1>6. AtSector(v) /\ k + SectInClust(v) <= ClusterSectors => x.fptr + k * SectorBytes <= n * ClusterBytes
  BY <1>1, <1>3, WholeFits DEF AtSector, SectInClust
<1> HIDE DEF x
<1> QED
  BY <1>4, <1>5, <1>6 DEF x

(* Bytes put into the window at the file's sector. *)
LEMMA WritePartFills ==
  ASSUME NEW v, Filling(v), v.fp.err = "OK", v.fp.sect \in TableArea, NEW b \in Seq(Words),
         Built(Sees(v), v.fp, v.fp.fptr + Len(b))
  PROVE  LET w == WritePart(v, b)
         IN  Filling(w) /\ (w.fp.err = "OK" => Clear(w))
<1> DEFINE m == move_window(v, v.fp.sect)
           ofs == v.fp.fptr % SectorBytes
           c == Patched(m.fs.win, ofs, b)
           y == SetWin(m, c)
           z == Len(b)
           w == Grow(y, z)
           e == Abort(m, "DISK_ERR")
<1>1. WritePart(v, b) = IF m.res # "OK" THEN e ELSE w
  BY Zenon DEF WritePart, With
<1>2. v \in Live /\ v.fp.sect \in WinSects /\ ofs \in Nat /\ z \in Nat
  <2>1. v \in Live
    BY DEF Filling
  <2>2. v.fp.fptr \in Nat /\ SectorBytes \in Nat \ {0}
    BY <2>1, FileIs, GeometryAssumption
  <2>3. v.fp.sect \in WinSects
    BY TableHolds
  <2>4. ofs \in Nat
    BY <2>2
  <2> HIDE DEF ofs
  <2> QED
    BY <2>1, <2>3, <2>4
<1>3. Looks(v, m) /\ m \in Live /\ m.fp = v.fp /\ (m.res = "OK" => m.fs.winsect = v.fp.sect)
  <2>1. \A q \in BOOLEAN : v \in Good(q) => Went(q, v, m)
    BY <1>2, MoveGoes
  <2>2. Looks(v, m) /\ m \in Live
    BY <1>2, MoveWindowLooks
  <2>3. m.res = "OK" => m.fs.winsect = v.fp.sect
    BY <1>2, MoveSeeks
  <2> HIDE DEF m
  <2>4. m.fp = v.fp
    BY <1>2, <2>1, LiveIs DEF Went, SameFile
  <2> QED
    BY <2>2, <2>3, <2>4
<1> HIDE DEF m, ofs, z
<1>4. Filling(m) /\ \A j : Built(Sees(v), v.fp, j) => Built(Sees(m), m.fp, j)
  BY <1>3, FillingOn DEF SameFill
<1>5. Filling(e) /\ e.fp.err = "DISK_ERR"
  BY <1>4, AbortFills
<1> HIDE DEF e
<1>6. ASSUME m.res = "OK" PROVE Filling(w) /\ Clear(w)
  <2>1. c \in TableSet /\ \A i \in SlotNos : Blank(EntriesOf(c)[i])
    <3>1. m.fs.win \in SectorSet
      BY <1>3, LiveIs
    <3>2. c \in TableSet
      BY <1>2, <3>1, PatchedIs
    <3>3. \E d : c = Data(d)
      BY Zenon DEF Patched
    <3> HIDE DEF c
    <3> QED
      BY <3>2, <3>3, DataIsClear
  <2> HIDE DEF c
  <2>2. Works(m, y) /\ y \in Live /\ y.fp = m.fp /\ Clear(y)
    BY <1>3, <1>6, <2>1, DataWorks
  <2> HIDE DEF y
  <2>3. Filling(y) /\ \A j : Built(Sees(m), m.fp, j) => Built(Sees(y), y.fp, j)
    BY <1>4, <2>2, FillingOn DEF SameFill
  <2>4. Built(Sees(y), y.fp, y.fp.fptr + z)
    BY <1>3, <1>4, <2>2, <2>3 DEF z
  <2>5. y.fp.fptr = y.fp.size /\ Sane(y, Pend(y.fp), {})
    BY <2>3 DEF Filling
  <2>6. Filling(w) /\ w.fs = y.fs
    BY <1>2, <2>2, <2>4, <2>5, GrowFills
  <2> QED
    BY <2>2, <2>6 DEF Clear
<1> HIDE DEF w
<1> QED
  BY <1>1, <1>5, <1>6

(* A clear window that needs no writing may be taken to another sector.    *)
LEMMA WindowAtLooks ==
  ASSUME NEW v \in Live, ~v.fs.wflag, Clear(v), NEW s \in TableArea
  PROVE  LET w == Placed(v, s, v.fs.win)
         IN  /\ Looks(v, w) /\ w \in Live /\ w.res = v.res /\ w.fp = v.fp /\ w.fs.win = v.fs.win
<1> DEFINE c == v.fs.win
           w == Placed(v, s, c)
           g == [[v.fs EXCEPT !.win = c] EXCEPT !.winsect = s]
<1>0. v \in CallSet /\ v.fs \in FsSet /\ c \in SectorSet
  BY LiveIs DEF Volumes
<1>1. \A q \in BOOLEAN : v \in Good(q) => Went(q, v, w) /\ w \in Good(q) /\ w.res = v.res
  BY WindowAt
<1>2. w = [v EXCEPT !.fs = g]
  BY Zenon DEF Placed
<1> HIDE DEF c
<1>3. g.win = c /\ g.winsect = s /\ g.wflag = v.fs.wflag
  BY <1>0 DEF FsSet
<1> HIDE DEF g
<1>4. w.media = v.media /\ w.to = v.to /\ w.disk = v.disk /\ w.fs = g
  BY <1>0, <1>2 DEF CallSet
<1> HIDE DEF w
<1>5. w \in Live /\ w.res = v.res /\ w.fp = v.fp
  BY <1>1, LiveIs, GoodLives DEF Went, SameFile
<1>6. Sees(w) = w.disk /\ Sees(v) = v.disk
  BY <1>0, <1>3, <1>4, <1>5, SeesIs, LiveIs
<1>7. WinTrue(w)
  <2>1. s \notin FatSects
    BY TableHolds
  <2> QED
    BY <1>3, <1>4, <2>1 DEF WinTrue, Clear, c
<1>8. Looks(v, w)
  BY <1>4, <1>6, <1>7 DEF Looks, SameHere
<1> QED
  BY <1>3, <1>4, <1>5, <1>8 DEF w, c

(* f_write goes to a new sector without reading it. *)
LEMMA GrowingEdgeFills ==
  ASSUME NEW v, Filling(v), Clear(v), v.fp.err = "OK", NEW s \in TableArea
  PROVE  LET w == GrowingEdge(v, s)
         IN  /\ Filling(w)
             /\ w.res = "OK" => /\ w.fp.err = "OK" /\ w.fp.sect = s /\ w.fp.fptr = v.fp.fptr
                                /\ \A j : Built(Sees(v), v.fp, j) => Built(Sees(w), w.fp, j)
             /\ w.res # "OK" => w.fp.err # "OK"
<1> DEFINE w == sync_window(v)
           b == Abort(w, "DISK_ERR")
           p == Placed(w, s, w.fs.win)
           z == [p EXCEPT !.fp.sect = s]
<1>0. v \in Live /\ v.fp.fptr = v.fp.size /\ v.fp.fptr \in Nat
  BY FileIs DEF Filling
<1>1. /\ Looks(v, w) /\ w \in Live /\ w.fp = v.fp
      /\ w.res = "OK" => ~w.fs.wflag /\ w.fs.win = v.fs.win
  <2>1. \A q \in BOOLEAN : v \in Steady(q) => SameRest(v, w)
    BY SyncWindowKeeps
  <2>2. /\ Looks(v, w) /\ w \in Live
        /\ w.res = "OK" => ~w.fs.wflag /\ w.fs.win = v.fs.win
    BY <1>0, SyncWindowLooks
  <2> HIDE DEF w
  <2> QED
    BY <1>0, <2>1, <2>2, LiveIs DEF SameRest, SameWork
<1>2. GrowingEdge(v, s) = IF w.res # "OK" THEN b
                          ELSE [w EXCEPT !.fs.winsect = s, !.fp.sect = s]
  <2>1. GrowingEdge(v, s) = IF v.fp.fptr < v.fp.size THEN [v EXCEPT !.fp.sect = s]
                            ELSE IF w.res # "OK" THEN b
                            ELSE [w EXCEPT !.fs.winsect = s, !.fp.sect = s]
    BY Zenon DEF GrowingEdge, With
  <2>2. ~(v.fp.fptr < v.fp.size)
    BY <1>0
  <2> HIDE DEF w, b
  <2> QED
    BY <2>1, <2>2
<1> HIDE DEF w
<1>3. Filling(w) /\ \A j : Built(Sees(v), v.fp, j) => Built(Sees(w), w.fp, j)
  BY <1>1, FillingOn DEF SameFill
<1>4. Filling(b) /\ b.fp.err = "DISK_ERR" /\ b.res = "DISK_ERR"
  BY <1>3, AbortFills
<1> HIDE DEF b
<1>5. ASSUME w.res = "OK"
      PROVE  /\ [w EXCEPT !.fs.winsect = s, !.fp.sect = s] = z
             /\ Filling(z) /\ z.res = "OK" /\ z.fp.err = "OK" /\ z.fp.sect = s
             /\ z.fp.fptr = v.fp.fptr
             /\ \A j : Built(Sees(v), v.fp, j) => Built(Sees(z), z.fp, j)
  <2>1. w \in CallSet /\ w.fs \in FsSet
    BY <1>1, LiveIs DEF Volumes
  <2>2. [w EXCEPT !.fs.winsect = s, !.fp.sect = s] = z
    <3>1. p = [w EXCEPT !.fs.winsect = s]
      BY <2>1 DEF Placed, CallSet, FsSet
    <3> HIDE DEF p
    <3> QED
      BY <2>1, <3>1
  <2>3. Clear(w)
    BY <1>1, <1>5 DEF Clear
  <2>4. Looks(w, p) /\ p \in Live /\ p.res = "OK" /\ p.fp = w.fp
    BY <1>1, <1>5, <2>3, WindowAtLooks
  <2> HIDE DEF p
  <2>5. Filling(p) /\ \A j : Built(Sees(w), w.fp, j) => Built(Sees(p), p.fp, j)
    BY <1>3, <2>4, FillingOn DEF SameFill
  <2> DEFINE x == [p.fp EXCEPT !.sect = s]
  <2>6. p \in CallSet /\ p.fp \in FilSet
    BY <2>4, FileIs
  <2>7. z = WithFp(p, x)
    BY <2>6, FpChanges
  <2>8. x \in FilSet /\ x.sect = s /\ SameFill(p.fp, x)
    BY <2>6 DEF FilSet, SameFill
  <2> HIDE DEF x, z
  <2>9. z \in Live /\ SameStore(p, z) /\ z.fp = x /\ z.res = p.res
    BY <2>4, <2>7, <2>8, FpLive
  <2>10. Filling(z) /\ \A j : Built(Sees(p), p.fp, j) => Built(Sees(z), z.fp, j)
    BY <2>5, <2>8, <2>9, FillingOn
  <2> QED
    BY <1>1, <1>3, <2>2, <2>4, <2>5, <2>8, <2>9, <2>10 DEF SameFill
<1> HIDE DEF z
<1> QED
  BY <1>2, <1>4, <1>5

(* The window takes over the data that a direct write put in its sector.   *)
LEMMA RefreshWorks ==
  ASSUME NEW v \in Live, NEW s \in Int, NEW z \in Nat,
         \A i \in 1..z : /\ s + i - 1 \in TableArea
                         /\ \A j \in SlotNos : Blank(EntriesOf(v.disk[s + i - 1])[j])
  PROVE  LET w == RefreshWin(v, s, z)
         IN  /\ Works(v, w) /\ w \in Live /\ w.fp = v.fp /\ w.res = v.res
             /\ Clear(v) => Clear(w)
<1> DEFINE t == v.fs.winsect
           c == v.disk[t]
           f == v.fs
           h == [f EXCEPT !.wflag = FALSE]
           g == [h EXCEPT !.win = c]
           w == [v EXCEPT !.fs = g]
           y == RefreshWin(v, s, z)
<1>1. v \in CallSet /\ f \in FsSet /\ v.disk \in Cards /\ f.wflag \in BOOLEAN
  BY LiveIs DEF Volumes
<1>2. CASE ~(s <= t /\ t < s + z)
  <2>1. y = v
    BY <1>2, Zenon DEF RefreshWin
  <2>2. Works(v, v)
    <3>1. SameStore(v, v)
      BY DEF SameStore
    <3> QED
      BY <3>1, StoreLooks
  <2> HIDE DEF y
  <2> QED
    BY <2>1, <2>2 DEF y
<1>3. CASE s <= t /\ t < s + z
  <2>1. y = w
    <3>1. y = [v EXCEPT !.fs.win = c, !.fs.wflag = FALSE]
      BY <1>3, Zenon DEF RefreshWin
    <3>2. [v EXCEPT !.fs.win = c, !.fs.wflag = FALSE] = w
      BY <1>1 DEF CallSet, FsSet
    <3> HIDE DEF y, w
    <3> QED
      BY <3>1, <3>2
  <2>2. t \in TableArea /\ \A j \in SlotNos : Blank(EntriesOf(c)[j])
    <3>1. t \in Int
      <4>1. t \in WinSects \union {NOSECT}
        BY <1>1 DEF FsSet
      <4> QED
        BY <4>1, AreasApart DEF WinSects, Sectors, NOSECT
    <3> DEFINE i == t - s + 1
    <3>2. i \in 1 .. z /\ s + i - 1 = t
      BY <1>3, <3>1
    <3> HIDE DEF i, t
    <3> QED
      BY <3>2
  <2>3. \A q \in BOOLEAN : v \in Good(q) =>
           LET u == RefreshWin(v, s, z)
           IN  Went(q, v, u) /\ u \in Good(q) /\ u.res = v.res
    BY RefreshKeeps
  <2>4. y \in Live /\ y.fp = v.fp /\ y.res = v.res
    <3>1. \A q \in BOOLEAN : v \in Good(q) => Went(q, v, y) /\ y \in Good(q) /\ y.res = v.res
      BY <2>3, Zenon
    <3> HIDE DEF y
    <3> QED
      BY <3>1, LiveIs, GoodLives DEF Went, SameFile
  <2> HIDE DEF c, y
  <2>5. g.win = c /\ g.winsect = t /\ g.wflag = FALSE /\ g.type = f.type
    <3>1. h.winsect = t /\ h.wflag = FALSE /\ h.type = f.type /\ h = [f EXCEPT !.wflag = FALSE]
      BY <1>1 DEF FsSet
    <3> QED
      BY <1>1 DEF FsSet
  <2> HIDE DEF g
  <2>6. w.fs = g /\ w.disk = v.disk /\ w.media = v.media /\ w.to = v.to
    BY <1>1 DEF CallSet
  <2> HIDE DEF w
  <2>7. \A p \in Sectors : p # t => Sees(w)[p] = Sees(v)[p]
    <3>1. w \in CallSet /\ ~w.fs.wflag
      BY <2>1, <2>4, <2>5, <2>6, LiveIs
    <3>2. Sees(w) = w.disk
      BY <3>1, SeesIs
    <3>3. \A p \in Sectors :
             Sees(v)[p] = IF v.fs.wflag /\ p = v.fs.winsect THEN v.fs.win ELSE v.disk[p]
      BY <1>1, SeesIs
    <3> QED
      BY <2>6, <3>2, <3>3
  <2>8. Sees(w)[t] = c
    <3>1. Sees(w) = w.disk
      BY <2>1, <2>4, <2>5, <2>6, SeesIs, LiveIs
    <3> QED
      BY <2>6, <3>1 DEF c
  <2>9. WinTrue(w)
    <3>1. t \notin FatSects
      BY <2>2, TableHolds
    <3> QED
      BY <2>2, <2>5, <2>6, <3>1 DEF WinTrue
  <2>10. Under(Sees(v), Sees(w)) /\ SameFatIn(Sees(v), Sees(w))
    <3>1. \A p \in FatSects \union TableArea : p # t => Sees(w)[p] = Sees(v)[p]
      <4>1. \A p \in FatSects \union TableArea : p \in Sectors
        BY TableHolds, AreasApart
      <4> QED
        BY <2>7, <4>1
    <3>2. \A j \in SlotNos : Blank(EntriesOf(Sees(w)[t])[j])
      BY <2>2, <2>8
    <3> HIDE DEF t
    <3> QED
      BY <2>2, <3>1, <3>2, UnderBut
  <2>11. ASSUME NEW P \in SUBSET RealClusters, NEW X \in SUBSET Places, Sane(v, P, X)
         PROVE  Sane(w, P, X) /\ LinksKept(Sees(v), Sees(w)) /\ w.to = v.to
    <3>1. Kept(Sees(v), P, X)
      BY <2>11 DEF Sane
    <3>2. Kept(Sees(w), P, X)
      BY <2>10, <3>1, KeptUnder
    <3>3. Writes(v, w)
      BY <2>6, <2>9 DEF Writes
    <3>4. Sane(w, P, X)
      BY <2>11, <3>2, <3>3, WritesSane
    <3> QED
      BY <2>6, <2>10, <3>4 DEF SameFatIn, LinksKept
  <2>12. Works(v, w)
    BY <2>11, Zenon DEF Works
  <2>13. Clear(w)
    BY <2>2, <2>5, <2>6 DEF Clear
  <2> QED
    BY <2>1, <2>4, <2>12, <2>13 DEF y
<1> HIDE DEF y
<1> QED
  BY <1>2, <1>3 DEF y

(* Whole sectors are written past the window. *)
LEMMA WriteWholeFills ==
  ASSUME NEW v, Filling(v), Clear(v), v.fp.err = "OK",
         NEW s \in Nat, NEW b \in Seq(Words), NEW z \in Nat, z * SectorBytes <= Len(b),
         z * SectorBytes \in Nat, \A i \in 1..z : s + i - 1 \in TableArea,
         Built(Sees(v), v.fp, v.fp.fptr + z * SectorBytes)
  PROVE  LET w == WriteWhole(v, s, b, z)
         IN  Filling(w) /\ (w.fp.err = "OK" => Clear(w))
<1> DEFINE c == SectorsOf(b, z)
           d == WriteSectors(v, s, c, z)
           r == RefreshWin(d, s, z)
           k == z * SectorBytes
           w == Grow(r, k)
           e == Abort(d, "DISK_ERR")
<1>1. WriteWhole(v, s, b, z) = IF d.res # "OK" THEN e ELSE w
  BY Zenon DEF WriteWhole, With
<1>2. \A i \in 1..z : /\ s + i - 1 \in TableArea /\ c[i] \in TableSet
                      /\ \A j \in SlotNos : Blank(EntriesOf(c[i])[j])
  <2>1. \A i \in 1..z : c[i] \in TableSet
    BY SectorsOfIs
  <2>2. \A i \in 1..z : \E x : c[i] = Data(x)
    BY DEF SectorsOf
  <2> HIDE DEF c
  <2>3. \A i \in 1..z : \A j \in SlotNos : Blank(EntriesOf(c[i])[j])
    BY <2>2, DataIsClear, Zenon
  <2> QED
    BY <2>1, <2>3
<1> HIDE DEF c
<1>3. v \in Live
  BY DEF Filling
<1>4. /\ d \in Live /\ Works(v, d) /\ d.fs = v.fs /\ SameRest(v, d)
      /\ d.res = "OK" => \A i \in 1..z : d.disk[s + i - 1] = c[i]
  <2>1. v.fs.wflag \/ \A i \in SlotNos : Blank(EntriesOf(v.fs.win)[i])
    BY DEF Clear
  <2> HIDE DEF d
  <2> QED
    BY <1>2, <1>3, <2>1, WriteSectorsWorks DEF d
<1> HIDE DEF d
<1>5. d.fp = v.fp
  BY <1>4 DEF SameRest, SameWork
<1>6. Filling(d) /\ \A j : Built(Sees(v), v.fp, j) => Built(Sees(d), d.fp, j)
  BY <1>4, <1>5, FillingOn DEF SameFill
<1>7. Filling(e) /\ e.fp.err = "DISK_ERR"
  BY <1>6, AbortFills
<1> HIDE DEF e
<1>8. ASSUME d.res = "OK" PROVE Filling(w) /\ Clear(w)
  <2>1. \A i \in 1..z : /\ s + i - 1 \in TableArea
                        /\ \A j \in SlotNos : Blank(EntriesOf(d.disk[s + i - 1])[j])
    BY <1>2, <1>4, <1>8
  <2>2. Clear(d)
    BY <1>4 DEF Clear
  <2>3. Works(d, r) /\ r \in Live /\ r.fp = d.fp /\ Clear(r)
    <3>1. s \in Int
      OBVIOUS
    <3> HIDE DEF r
    <3> QED
      BY <1>4, <2>1, <2>2, <3>1, RefreshWorks DEF r
  <2> HIDE DEF r
  <2>4. Filling(r) /\ \A j : Built(Sees(d), d.fp, j) => Built(Sees(r), r.fp, j)
    BY <1>6, <2>3, FillingOn DEF SameFill
  <2>5. Built(Sees(r), r.fp, r.fp.fptr + k)
    BY <1>5, <1>6, <2>3, <2>4
  <2>6. r.fp.fptr = r.fp.size /\ Sane(r, Pend(r.fp), {}) /\ k \in Nat
    BY <2>4 DEF Filling
  <2> HIDE DEF k
  <2>7. Filling(w) /\ w.fs = r.fs
    BY <2>3, <2>5, <2>6, GrowFills
  <2> QED
    BY <2>3, <2>7 DEF Clear
<1> HIDE DEF w
<1> QED
  BY <1>1, <1>7, <1>8

(* A step of f_write in a cluster with room for it keeps the file's chain  *)
(* and leaves data in the window, or aborts.                               *)
LEMMA WriteStepFills ==
  ASSUME NEW v, Filling(v), Clear(v), Room(v), v.fp.err = "OK", AtData(v.fp), NEW b \in Seq(Words)
  PROVE  LET w == WriteStep(v, b)
         IN  Filling(w) /\ (w.fp.err = "OK" => Clear(w))
<1> DEFINE top == clst2sect(v.fp.clust)
           sect == top + SectInClust(v)
           z == WholeSectors(v, Len(b))
           k == PartBytes(v, Len(b))
           part == SubSeq(b, 1, k)
           y == sync_window(v)
           u == IF v.fs.winsect = v.fp.sect THEN y ELSE v
           p == WritePart(v, part)
           b1 == Abort(u, "DISK_ERR")
           b2 == Abort(u, "INT_ERR")
           g == GrowingEdge(u, sect)
           gp == WritePart(g, part)
           h == WriteWhole(u, sect, b, z)
<1>1. WriteStep(v, b) = IF ~AtSector(v) THEN p
                        ELSE IF u.res # "OK" THEN b1
                        ELSE IF top = 0 THEN b2
                        ELSE IF z = 0 THEN IF g.res = "OK" THEN gp ELSE g
                        ELSE h
  BY Zenon DEF WriteStep, With, Then
<1>2. v \in Live /\ Len(b) \in Nat
  BY DEF Filling
<1>3. /\ z \in Nat /\ z * SectorBytes \in Nat /\ z * SectorBytes <= Len(b)
      /\ z + SectInClust(v) <= ClusterSectors
      /\ k \in Nat /\ k <= Len(b) /\ (v.fp.fptr % SectorBytes) + k <= SectorBytes
  BY <1>2, StepIs
<1>4. top # 0 => sect \in TableArea /\ sect \in Int /\ \A j \in 1 .. z : sect + j - 1 \in TableArea
  BY <1>2, StepSectors
<1>5. part \in Seq(Words) /\ Len(part) = k
  <2> HIDE DEF k
  <2>1. \A j \in 1 .. k : j \in 1 .. Len(b)
    BY <1>2, <1>3
  <2> QED
    BY <1>2, <1>3, <2>1
<1> HIDE DEF top, z, k, part
<1>6. /\ Built(Sees(v), v.fp, v.fp.fptr + Len(part))
      /\ AtSector(v) => Built(Sees(v), v.fp, v.fp.fptr + z * SectorBytes)
  <2>1. Built(Sees(v), v.fp, v.fp.fptr + k)
    BY <1>2, <1>3, RoomForStep
  <2>2. AtSector(v) => Built(Sees(v), v.fp, v.fp.fptr + z * SectorBytes)
    BY <1>2, <1>3, RoomForStep
  <2> QED
    BY <1>5, <2>1, <2>2
<1>7. /\ u \in Live /\ Looks(v, u) /\ u.fp = v.fp
      /\ u.res = "OK" \/ u = v => Clear(u)
  <2>1. \A q \in BOOLEAN : v \in Steady(q) => SameRest(v, y)
    BY SyncWindowKeeps
  <2>2. Looks(v, y) /\ y \in Live /\ (y.res = "OK" => y.fs.win = v.fs.win)
    BY <1>2, SyncWindowLooks
  <2>3. Looks(v, v)
    <3>1. SameStore(v, v)
      BY DEF SameStore
    <3> QED
      BY <3>1, StoreLooks
  <2> HIDE DEF y
  <2>4. y.fp = v.fp
    BY <1>2, <2>1, LiveIs DEF SameRest, SameWork
  <2>5. y.res = "OK" => Clear(y)
    BY <2>2 DEF Clear
  <2>6. u = y \/ u = v
    OBVIOUS
  <2> HIDE DEF u
  <2> QED
    BY <1>2, <2>2, <2>3, <2>4, <2>5, <2>6
<1>8. CASE ~AtSector(v)
  <2>1. v.fp.sect \in TableArea
    BY <1>8 DEF AtSector, AtData
  <2>2. Filling(p) /\ (p.fp.err = "OK" => Clear(p))
    BY <1>5, <1>6, <2>1, WritePartFills
  <2> HIDE DEF p, u
  <2> QED
    BY <1>1, <1>8, <2>2
<1> HIDE DEF u
<1>9. /\ Filling(u) /\ \A j : Built(Sees(v), v.fp, j) => Built(Sees(u), u.fp, j)
  BY <1>7, FillingOn DEF SameFill
<1>10. Filling(b1) /\ b1.fp.err = "DISK_ERR" /\ Filling(b2) /\ b2.fp.err = "INT_ERR"
  BY <1>9, AbortFills
<1> HIDE DEF b1, b2
<1>11. CASE AtSector(v) /\ u.res = "OK" /\ top # 0
  <2>1. sect \in TableArea /\ sect \in Nat /\ \A j \in 1 .. z : sect + j - 1 \in TableArea
    <3> HIDE DEF sect
    <3>1. sect \in TableArea
      BY <1>4, <1>11
    <3>2. sect \in Sectors
      BY <3>1, TableHolds
    <3> QED
      BY <1>4, <1>11, <3>1, <3>2 DEF Sectors
  <2> HIDE DEF sect
  <2>2. Clear(u) /\ u.fp.err = "OK" /\ u.fp = v.fp
    BY <1>7, <1>11
  <2>3. /\ Filling(g)
        /\ g.res = "OK" => /\ g.fp.err = "OK" /\ g.fp.sect = sect /\ g.fp.fptr = u.fp.fptr
                           /\ \A j : Built(Sees(u), u.fp, j) => Built(Sees(g), g.fp, j)
        /\ g.res # "OK" => g.fp.err # "OK"
    BY <1>9, <2>1, <2>2, GrowingEdgeFills
  <2> HIDE DEF g
  <2>4. g.res = "OK" => Filling(gp) /\ (gp.fp.err = "OK" => Clear(gp))
    <3>1. ASSUME g.res = "OK"
          PROVE  Built(Sees(g), g.fp, g.fp.fptr + Len(part)) /\ g.fp.sect \in TableArea /\ g.fp.err = "OK"
      <4>1. Built(Sees(u), u.fp, v.fp.fptr + Len(part))
        BY <1>6, <1>9
      <4>2. Built(Sees(g), g.fp, v.fp.fptr + Len(part))
        BY <2>3, <3>1, <4>1
      <4> QED
        BY <2>1, <2>2, <2>3, <3>1, <4>2
    <3> QED
      BY <1>5, <2>3, <3>1, WritePartFills
  <2> HIDE DEF gp
  <2>5. Filling(h) /\ (h.fp.err = "OK" => Clear(h))
    <3>1. Built(Sees(u), u.fp, u.fp.fptr + z * SectorBytes)
      BY <1>6, <1>9, <1>11, <2>2
    <3> QED
      BY <1>3, <1>9, <2>1, <2>2, <3>1, WriteWholeFills
  <2> HIDE DEF h
  <2> QED
    BY <1>1, <1>11, <2>3, <2>4, <2>5
<1> HIDE DEF p, g, gp, h
<1> QED
  BY <1>1, <1>8, <1>10, <1>11

(* What f_write's loop keeps: the chain leads to the pointer, and the next *)
(* cluster can be asked for.                                               *)
Uploading(v) == Writing(FALSE, v) /\ Filling(v) /\ (v.fp.err = "OK" => Going(v))

(* It does not depend on the result.                                       *)
LEMMA UploadingAs ==
  ASSUME NEW v, Uploading(v), v.fp.err = "OK", NEW r \in Results
  PROVE  LET w == Res(v, r) IN Uploading(w) /\ w.res = r /\ w.fp = v.fp
<1> DEFINE w == Res(v, r)
<1>1. v \in Live /\ Filling(v) /\ Going(v)
  BY DEF Uploading, Filling
<1>2. w \in Live
  BY <1>1, ResLive
<1>3. SameStore(v, w) /\ w.fp = v.fp /\ w.res = r
  BY <1>1, ResLive
<1>4. Writing(FALSE, w)
  <2>1. \A q \in BOOLEAN : Writing(q, v) => Writing(q, w)
    BY WritingAs
  <2> HIDE DEF w
  <2> QED
    BY <2>1 DEF Uploading
<1> HIDE DEF w
<1>5. Filling(w)
  BY <1>1, <1>2, <1>3, FillingOn DEF SameFill
<1>6. Clear(v) => Clear(w)
  BY <1>3 DEF Clear, SameStore
<1>7. EndOfCluster(v) => EndOfCluster(w)
  BY <1>3 DEF EndOfCluster, AtSector, SectInClust
<1>8. Going(w)
  BY <1>1, <1>3, <1>5, <1>6, <1>7 DEF Going
<1> QED
  BY <1>3, <1>4, <1>5, <1>8 DEF Uploading, w

(* A round of the loop keeps it,                                           *)
LEMMA WriteRoundFills ==
  ASSUME NEW b \in Seq(Words), NEW v, Uploading(v), v.res = GO
  PROVE  Uploading(WriteRound(v, b))
<1> DEFINE o == Res(v, "OK")
           c == WriteCluster(v)
           t == SubSeq(b, c.cnt + 1, Len(b))
           d == WriteStep(c, t)
           a == Res(d, GO)
           w == WriteRound(v, b)
<1>1. w = IF v.cnt = Len(b) THEN o
          ELSE IF c.res # "OK" THEN c
          ELSE IF d.res # "OK" THEN d ELSE a
  BY Zenon DEF WriteRound, Then, Again, OK
<1>2. v.fp.err = "OK" /\ Going(v) /\ Filling(v) /\ v \in Live
  BY DEF Uploading, Writing, Filling
<1>3. Writing(FALSE, w)
  <2>1. \A q \in BOOLEAN : Writing(q, v) => Writing(q, w)
    BY WriteRoundKeeps
  <2> HIDE DEF w
  <2> QED
    BY <2>1 DEF Uploading
<1>4. Uploading(o)
  BY <1>2, UploadingAs, ResultsAre
<1> HIDE DEF o
<1>5. Filling(c) /\ Went1(c)
  BY <1>2, WriteClusterFills
<1>6. Aborted(FALSE, c) \/ (Stays(FALSE, v, c) /\ c.res \in {"OK", "FULL"})
  <2>1. \A q \in BOOLEAN : v \in Good(q) =>
           Aborted(q, c) \/ (Stays(q, v, c) /\ c.res \in {"OK", "FULL"})
    <3>1. Held(v.fp)
      BY DEF Uploading, Writing
    <3>2. v.fp.err = "OK"
      BY <1>2
    <3> QED
      BY <3>1, <3>2, WriteClusterKeeps
  <2> HIDE DEF c
  <2> QED
    BY <1>2, <2>1, LiveIs
<1> HIDE DEF c
<1>7. c.res # "OK" => (c.fp.err = "OK" => Going(c))
  BY <1>5 DEF Went1
<1>8. ASSUME c.res = "OK" PROVE Filling(d) /\ (d.fp.err = "OK" => Clear(d))
  <2>1. c.fp.err = "OK" /\ Clear(c) /\ Room(c)
    BY <1>5, <1>8 DEF Went1
  <2>2. AtData(v.fp)
    BY <1>2 DEF Uploading, Writing
  <2>3. AtData(c.fp)
    <3>1. Aborted(FALSE, c) => c.res # "OK"
      BY DEF Aborted
    <3>2. Stays(FALSE, v, c) => c.fp.fptr = v.fp.fptr /\ c.fp.sect = v.fp.sect
      BY DEF Stays, SameSpot
    <3>3. c.fp.fptr = v.fp.fptr /\ c.fp.sect = v.fp.sect
      BY <1>6, <1>8, <3>1, <3>2
    <3> QED
      BY <2>2, <3>3 DEF AtData
  <2>4. t \in Seq(Words)
    <3>0. c \in Live
      BY <1>5 DEF Filling
    <3>1. c.cnt \in Nat /\ Len(b) \in Nat
      BY <3>0, FileIs
    <3> DEFINE j == c.cnt + 1
               z == Len(b)
    <3>2. j \in Nat /\ z \in Nat /\ \A k \in j .. z : k \in 1 .. Len(b)
      BY <3>1
    <3> HIDE DEF j, z
    <3>3. SubSeq(b, j, z) \in Seq(Words)
      BY <3>2
    <3> QED
      BY <3>3 DEF j, z
  <2> HIDE DEF t
  <2> QED
    BY <1>5, <2>1, <2>3, <2>4, WriteStepFills
<1> HIDE DEF d
<1>9. c.res = "OK" => Filling(a) /\ a.fp = d.fp /\ (a.fp.err = "OK" => Clear(a))
  <2>1. ASSUME c.res = "OK" PROVE Filling(a) /\ a.fp = d.fp /\ (a.fp.err = "OK" => Clear(a))
    <3>1. d \in Live /\ d \in CallSet
      BY <1>8, <2>1, LiveIs DEF Filling
    <3>2. a \in Live /\ SameStore(d, a) /\ a.fp = d.fp
      BY <3>1, ResLive, ResultsAre
    <3> HIDE DEF a
    <3> QED
      BY <1>8, <2>1, <3>2, FillingOn DEF SameFill, SameStore, Clear
  <2> QED
    BY <2>1
<1> HIDE DEF a
<1>10. w = o \/ (Filling(w) /\ (w.fp.err = "OK" => Going(w)))
  <2>1. c.res = "OK" => /\ Filling(d) /\ (d.fp.err = "OK" => Going(d))
                        /\ Filling(a) /\ (a.fp.err = "OK" => Going(a))
    BY <1>8, <1>9 DEF Going
  <2> HIDE DEF w
  <2> QED
    BY <1>1, <1>5, <1>7, <2>1
<1> HIDE DEF w
<1> QED
  BY <1>3, <1>4, <1>10 DEF Uploading, w

(* The rule for the loop of f_write.                                        *)
LEMMA WriteLoopLoop ==
  ASSUME NEW v, NEW b \in Seq(Words), NEW V, Again(v) \in V,
         \A u \in V : \A k \in 1..(Len(b) + 1) : u.res = GO => WriteRound(u, b) \in V
  PROVE  \E e \in V : WriteLoop(v, b) = IF e.res = GO THEN Res(e, "ENDLESS") ELSE e
<1> DEFINE n == (Len(b) + 1)
           a == Again(v)
           B(u, k) == IF u.res = GO THEN WriteRound(u, b) ELSE u
           F(h) == [k \in 0..n |-> IF k = 0 THEN a ELSE B(h[k - 1], k)]
           at == CHOOSE h : h = F(h)
           G == [p \in V \X (1..n) |-> B(p[1], p[2])]
<1>1. n \in Nat /\ a \in V
  BY SMT
<1>2. \A u \in V : \A k \in 1..n : B(u, k) \in V
  OBVIOUS
<1>3. WriteLoop(v, b) = IF at[n].res = GO THEN Res(at[n], "ENDLESS") ELSE at[n]
  BY Zenon DEF WriteLoop, Rounds, With
<1> HIDE DEF a, B, n
<1>4. G \in [V \X (1..n) -> V] /\ \A u \in V : \A k \in 1..n : G[<<u, k>>] = B(u, k)
  BY <1>2
<1> HIDE DEF G
<1>5. PICK g \in [0..n -> V] : Runs(g, V, a, G, n)
  BY <1>1, <1>4, LoopRuns, Zenon
<1>6. g = F(g)
  <2>1. \A k \in 1..n : g[k] = B(g[k - 1], k)
    BY <1>4, <1>5, Zenon DEF Runs
  <2>2. \A k \in 0..n : g[k] = IF k = 0 THEN a ELSE B(g[k - 1], k)
    BY <1>5, <2>1 DEF Runs
  <2> QED
    BY <2>2
<1>7. at = F(at)
  BY <1>6
<1> HIDE DEF at
<1>8. at[0] = a /\ \A k \in 1..n : at[k] = B(at[k - 1], k)
  BY <1>1, <1>7
<1>9. at[n] \in V
  <2>1. \A k \in 1..n : at[k - 1] \in V => at[k] \in V
    BY <1>2, <1>8, Zenon
  <2> QED
    BY <1>1, <1>8, <2>1, LoopStays, Zenon
<1> QED
  BY <1>3, <1>9, Zenon

(* and so does the loop, for every number of bytes.                        *)
LEMMA WriteLoopFills ==
  ASSUME NEW b \in Seq(Words), NEW v, Uploading(v), v.fp.err = "OK"
  PROVE  Uploading(WriteLoop(v, b))
<1> DEFINE V == {u \in Live : Uploading(u)}
<1>1. Again(v) \in V
  <2> DEFINE a == Res(v, GO)
  <2>1. Uploading(a)
    BY UploadingAs, ResultsAre
  <2>2. Again(v) = a
    BY Zenon DEF Again
  <2> HIDE DEF a
  <2> QED
    BY <2>1, <2>2 DEF Uploading, Filling
<1>2. \A u \in V : \A k : u.res = GO => WriteRound(u, b) \in V
  <2>1. ASSUME NEW u \in V, u.res = GO PROVE WriteRound(u, b) \in V
    <3> DEFINE w == WriteRound(u, b)
    <3>1. Uploading(w)
      BY <2>1, WriteRoundFills
    <3> HIDE DEF w
    <3>2. w \in V
      BY <3>1 DEF Uploading, Filling
    <3> QED
      BY <3>2 DEF w
  <2> HIDE DEF V
  <2> QED
    BY <2>1
<1> HIDE DEF V
<1>3. PICK e \in V : WriteLoop(v, b) = IF e.res = GO THEN Res(e, "ENDLESS") ELSE e
  BY <1>1, <1>2, WriteLoopLoop
<1>4. Uploading(e)
  BY DEF V
<1> DEFINE z == Res(e, "ENDLESS")
<1>5. e.res = GO => Uploading(z)
  <2>1. e.res = GO => e.fp.err = "OK"
    BY <1>4 DEF Uploading, Writing
  <2> QED
    BY <1>4, <2>1, UploadingAs, ResultsAre
<1>6. WriteLoop(v, b) = IF e.res = GO THEN z ELSE e
  BY <1>3
<1> HIDE DEF z
<1> QED
  BY <1>4, <1>5, <1>6
(* A file that is being uploaded, between two calls of f_write.            *)
Loading(v) == v \in Fine(FALSE) /\ Filling(v) /\ (v.fp.err = "OK" => Going(v))

(* Only the mark of a change, the count and the result may differ.         *)
LEMMA LoadingOn ==
  ASSUME NEW v, Loading(v), NEW w \in Live, SameStore(v, w), SameSpot(v.fp, w.fp), SameFill(v.fp, w.fp)
  PROVE  Loading(w)
<1>1. Filling(v) /\ (v.fp.err = "OK" => Going(v)) /\ FileOK(v.fp)
  BY DEF Loading, Fine
<1>2. Filling(w)
  BY <1>1, FillingOn
<1>3. FileOK(w.fp)
  BY <1>1 DEF FileOK, SameSpot, AtData
<1>4. w \in Fine(FALSE)
  BY <1>3, LiveIs DEF Fine
<1>5. Clear(v) => Clear(w)
  BY DEF Clear, SameStore
<1>6. EndOfCluster(v) => EndOfCluster(w)
  BY DEF EndOfCluster, AtSector, SectInClust, SameFill
<1>7. w.fp.err = "OK" => Going(w)
  BY <1>1, <1>2, <1>5, <1>6 DEF Going, SameFill
<1> QED
  BY <1>2, <1>4, <1>7 DEF Loading

(* F_write of any bytes keeps the file's chain long enough for its size.   *)
LEMMA FWriteFills ==
  ASSUME NEW v, Loading(v), NEW b \in Seq(Words)
  PROVE  Loading(f_write(v, b))
<1> DEFINE z == [v EXCEPT !.cnt = 0]
           u == Usable(z, v.fp.w)
           e == Unwrapped(u, b)
           w == WriteLoop(u, e)
           m == [w EXCEPT !.fp.mod = TRUE]
           o == Res(m, "OK")
<1>1. f_write(v, b) = IF u.res = "OK" THEN IF w.res \in {"OK", "FULL"} THEN o ELSE w ELSE u
  BY Zenon DEF f_write, Then, With, OK
<1>2. v \in Live /\ v.fp.w \in BOOLEAN
  <2>1. v \in Live
    BY DEF Loading, Filling
  <2> QED
    BY <2>1, FileIs DEF FilSet
<1>3. z \in Live /\ SameStore(v, z) /\ z.fp = v.fp
  BY <1>2, CntLive
<1> HIDE DEF z
<1>4. u \in Live /\ SameStore(z, u) /\ u.fp = z.fp /\ (u.res = "OK" => z.fp.open /\ z.fp.err = "OK")
  BY <1>2, <1>3, UsableLooks
<1> HIDE DEF u
<1>5. Loading(u)
  <2>1. SameStore(v, u) /\ SameSpot(v.fp, u.fp) /\ SameFill(v.fp, u.fp)
    BY <1>3, <1>4 DEF SameStore, SameSpot, SameFill
  <2> QED
    BY <1>4, <2>1, LoadingOn
<1>7. e \in Seq(Words)
  <2>1. u.fp.fptr \in Nat
    BY <1>4, FileIs
  <2> QED
    BY <2>1, UnwrappedIs
<1> HIDE DEF e
<1>6. ASSUME u.res = "OK" PROVE Loading(w) /\ Loading(o)
  <2>1. u.fp.err = "OK" /\ u.fp.open /\ Going(u) /\ Filling(u) /\ FileOK(u.fp)
    BY <1>3, <1>4, <1>5, <1>6 DEF Loading, Fine
  <2>2. Writing(FALSE, u)
    BY <1>4, <2>1, LiveIs DEF Writing, FileOK, Held
  <2>3. Uploading(u)
    BY <2>1, <2>2 DEF Uploading
  <2>4. Uploading(w)
    BY <1>7, <2>1, <2>3, WriteLoopFills
  <2> HIDE DEF w
  <2>5. w \in Live /\ w \in Fine(FALSE)
    BY <2>4, GoodLives DEF Uploading, Writing, Fine, FileOK, Held
  <2>6. Loading(w)
    BY <2>4, <2>5 DEF Loading, Uploading
  <2>7. m \in Live /\ SameStore(w, m) /\ SameSpot(w.fp, m.fp) /\ SameFill(w.fp, m.fp)
    <3>1. /\ m \in Live /\ SameStore(w, m) /\ SameSpot(w.fp, m.fp)
          /\ m.fp.sclust = w.fp.sclust /\ m.fp.clust = w.fp.clust
      BY <2>5, ModLive
    <3> HIDE DEF m
    <3> QED
      BY <3>1 DEF SameFill, SameSpot
  <2> HIDE DEF m
  <2>8. o \in Live /\ SameStore(m, o) /\ o.fp = m.fp
    BY <2>7, ResLive, ResultsAre
  <2> HIDE DEF o
  <2>9. SameStore(w, o) /\ SameSpot(w.fp, o.fp) /\ SameFill(w.fp, o.fp)
    BY <2>7, <2>8 DEF SameStore
  <2> QED
    BY <2>6, <2>8, <2>9, LoadingOn
<1> HIDE DEF w, o
<1> QED
  BY <1>1, <1>5, <1>6

(* The directory entry of a file that was written names the chain it got.  *)
LEMMA UpdateEntrySane ==
  ASSUME NEW v \in Live, v.fs.winsect \in TableArea, Sane(v, Pend(v.fp), {}),
         Built(Sees(v), v.fp, v.fp.size)
  PROVE  LET w == UpdateEntry(v) IN w \in Live /\ Sane(w, {}, {})
<1> DEFINE s == v.fs.winsect
           es == EntriesOf(v.fs.win)
           i == v.fp.dptr
           e1 == [es[i] EXCEPT !.cl = v.fp.sclust]
           e == [e1 EXCEPT !.sz = v.fp.size]
           f == [es EXCEPT ![i] = e]
           w == SetWin(v, DirSector(f))
           a == <<s, i>>
           m == Sees(v)
           z == Sees(w)
<1>1. UpdateEntry(v) = w
  <2>1. UpdateEntry(v) = SetWin(v, DirSector([es EXCEPT ![i] = [@ EXCEPT !.cl = v.fp.sclust,
                                                                       !.sz = v.fp.size]]))
    BY Zenon DEF UpdateEntry
  <2> HIDE DEF es
  <2> QED
    BY <2>1
<1>2. /\ i \in SlotNos /\ v.fp.sclust \in ClusterNos /\ v.fp.size \in Nat
  BY FileIs DEF FilSet, SlotNos
<1>3. es \in [SlotNos -> EntrySet]
  BY SlotIs
<1> HIDE DEF es, i
<1>4. e1 \in EntrySet /\ e1.cl = v.fp.sclust
  BY <1>2, <1>3 DEF EntrySet
<1> HIDE DEF e1
<1>5. e \in EntrySet /\ e.cl = v.fp.sclust /\ e.sz = v.fp.size
  BY <1>2, <1>4 DEF EntrySet
<1> HIDE DEF e
<1>6. f \in [SlotNos -> EntrySet] /\ f[i] = e /\ \A k \in SlotNos : k # i => f[k] = es[k]
  BY <1>2, <1>3, <1>5
<1> HIDE DEF f
<1>7. /\ w \in Live /\ w.disk = v.disk /\ w.media = v.media /\ w.to = v.to
      /\ SameFatIn(m, z)
      /\ \A k \in SlotNos : At(z, <<s, k>>) = f[k]
      /\ \A b \in Places : b[1] # s => At(z, b) = At(m, b)
      /\ WinTrue(w)
  BY <1>6, SetTable
<1> HIDE DEF w, m, z
<1>8. Writes(v, w)
  BY <1>7 DEF Writes
<1>9. At(z, a) = e /\ a \in Places
  BY <1>2, <1>6, <1>7 DEF Places
<1>10. ASSUME NEW b \in Places \ {a}
       PROVE  At(z, b) = At(m, b) \/ Harmless(At(z, b))
  <2> DEFINE k == b[2]
  <2>1. b = <<b[1], k>> /\ k \in SlotNos
    BY DEF Places
  <2>2. CASE b[1] # s
    BY <1>7, <2>2
  <2>3. CASE b[1] = s
    <3>1. k # i
      BY <2>1, <2>3
    <3>2. At(z, b) = es[k]
      BY <1>6, <1>7, <2>1, <2>3, <3>1
    <3>3. WinTrue(v)
      BY DEF Sane
    <3>4. es[k] = At(m, b) \/ Blank(es[k])
      BY <2>1, <2>3, <3>3 DEF WinTrue, es, m
    <3> QED
      BY <3>2, <3>4 DEF Blank, Harmless
  <2> QED
    BY <2>2, <2>3
<1>11. Named(e) => /\ e.cl = 0 => e.sz = 0
                   /\ e.cl # 0 => Long(m, e.cl, e.sz) /\ e.cl \in Pend(v.fp)
  <2>1. e.cl = 0 => e.sz = 0
    BY <1>5 DEF Built
  <2>2. e.cl # 0 => Long(m, e.cl, e.sz)
    <3>1. ASSUME e.cl # 0 PROVE Long(m, e.cl, e.sz)
      <4>1. \E j \in Nat \ {0} : \E p \in [1..j -> RealClusters] :
               Path(m, p, j) /\ p[1] = e.cl /\ e.sz <= j * ClusterBytes
        BY <1>5, <3>1, Zenon DEF Built, m
      <4> QED
        BY <4>1, Zenon DEF Long
    <3> QED
      BY <3>1
  <2>3. e.cl # 0 => e.cl \in Pend(v.fp)
    BY <1>5 DEF Pend
  <2> QED
    BY <2>1, <2>2, <2>3
<1>12. Kept(m, Pend(v.fp), {})
  BY DEF Sane, m
<1>13. Kept(z, {}, {})
  <2>1. Claim(At(z, a)) \notin {}
    OBVIOUS
  <2>2. Named(At(z, a)) => /\ At(z, a).cl = 0 => At(z, a).sz = 0
                           /\ At(z, a).cl # 0 => /\ Long(m, At(z, a).cl, At(z, a).sz)
                                                 /\ \/ At(z, a).cl \in Pend(v.fp)
                                                    \/ a \notin {} /\ Claim(At(m, a)) = At(z, a).cl
    BY <1>9, <1>11
  <2> HIDE DEF a
  <2> QED
    BY <1>7, <1>9, <1>10, <1>12, <2>1, <2>2, KeptSlot
<1>14. Sane(w, {}, {})
  BY <1>8, <1>13, WritesSane DEF z
<1> QED
  BY <1>1, <1>7, <1>14

(* F_sync makes a new file's chain the entry's, or leaves it unnamed.      *)
LEMMA FSyncSane ==
  ASSUME NEW v \in Live, FileOK(v.fp), Sane(v, Pend(v.fp), {}), Built(Sees(v), v.fp, v.fp.size)
  PROVE  LET w == f_sync(v) IN w \in Live /\ Sane(w, {}, {})
<1> DEFINE u == validate(v, v.fp)
           m == move_window(u, u.fp.dsect)
           e == UpdateEntry(m)
           s == sync_fs(e)
           w == [s EXCEPT !.fp.mod = FALSE]
           P == Pend(v.fp)
<1>1. f_sync(v) = IF u.res = "OK" THEN IF ~u.fp.mod THEN u ELSE IF m.res = "OK" THEN w ELSE m ELSE u
  BY Zenon DEF f_sync, Then
<1>2. P \subseteq RealClusters /\ {} \subseteq Places /\ {} \subseteq P /\ {} \subseteq RealClusters
  BY PendIs
<1>3. u \in Live /\ Looks(v, u) /\ SameStore(v, u) /\ u.fp = v.fp
  BY ValidateLooks
<1>4. u.res = "OK" => v.fp.open
  <2>1. \A q \in BOOLEAN : v \in Good(q) => (u.res = "OK" => v.fp.open)
    BY ValidFile
  <2> HIDE DEF u
  <2> QED
    BY <2>1, LiveIs
<1> HIDE DEF u, P
<1>5. Sane(u, P, {})
  BY <1>2, <1>3, WorksSane DEF P
<1>6. Sane(u, {}, {})
  BY <1>2, <1>5, SaneFewer
<1>7. ASSUME u.res = "OK"
      PROVE  m \in Live /\ Sane(m, {}, {}) /\ (m.res = "OK" => w \in Live /\ Sane(w, {}, {}))
  <2>1. u.fp.dsect \in TableArea /\ u.fp.dsect \in WinSects
    <3>1. u.fp.dsect \in TableArea
      BY <1>3, <1>4, <1>7 DEF FileOK
    <3> QED
      BY <3>1, TableHolds
  <2>2. Looks(u, m) /\ m \in Live /\ m.fp = u.fp /\ (m.res = "OK" => m.fs.winsect = u.fp.dsect)
    <3>1. \A q \in BOOLEAN : u \in Good(q) => Went(q, u, m)
      BY <2>1, MoveGoes
    <3>2. Looks(u, m) /\ m \in Live
      BY <1>3, <2>1, MoveWindowLooks
    <3>3. m.res = "OK" => m.fs.winsect = u.fp.dsect
      BY <1>3, <2>1, MoveSeeks
    <3> HIDE DEF m
    <3>4. m.fp = u.fp
      BY <1>3, <3>1, LiveIs DEF Went, SameFile
    <3> QED
      BY <3>2, <3>3, <3>4
  <2> HIDE DEF m
  <2>3. Sane(m, P, {}) /\ Built(Sees(m), m.fp, m.fp.size)
    <3>1. Sane(m, P, {})
      BY <1>2, <1>5, <2>2, WorksSane
    <3>2. LinksKept(Sees(v), Sees(u))
      BY <1>3 DEF SameStore, Sees, LinksKept
    <3>3. LinksKept(Sees(u), Sees(m))
      BY <2>2, LooksSlots DEF SameFatIn, LinksKept
    <3>4. Built(Sees(u), u.fp, v.fp.size)
      BY <1>3, <3>2, BuiltOn
    <3>5. Built(Sees(m), m.fp, v.fp.size)
      BY <2>2, <3>3, <3>4, BuiltOn
    <3> QED
      BY <1>3, <2>2, <3>1, <3>5
  <2>4. Sane(m, {}, {})
    BY <1>2, <2>3, SaneFewer
  <2>5. ASSUME m.res = "OK" PROVE w \in Live /\ Sane(w, {}, {})
    <3>1. e \in Live /\ Sane(e, {}, {})
      <4>1. Pend(m.fp) = P /\ m.fs.winsect \in TableArea
        BY <1>3, <2>1, <2>2, <2>5 DEF P
      <4> QED
        BY <2>2, <2>3, <4>1, UpdateEntrySane
    <3> HIDE DEF e
    <3>2. Looks(e, s) /\ s \in Live
      BY <3>1, SyncFsLooks
    <3> HIDE DEF s
    <3>3. Sane(s, {}, {})
      BY <1>2, <3>1, <3>2, WorksSane
    <3>4. w \in Live /\ SameStore(s, w)
      BY <3>2, ModLive
    <3> HIDE DEF w
    <3> QED
      BY <1>2, <3>3, <3>4, WorksSane
  <2> QED
    BY <2>2, <2>4, <2>5
<1> HIDE DEF m, w
<1> QED
  BY <1>1, <1>3, <1>6, <1>7

(* The file object is open no more.                                        *)
LEMMA OpenEnds ==
  ASSUME NEW v \in Live
  PROVE  LET w == [v EXCEPT !.fp.open = FALSE] IN w \in Live /\ SameStore(v, w)
<1> DEFINE x == [v.fp EXCEPT !.open = FALSE]
           y == WithFp(v, x)
<1>1. v \in CallSet /\ v.fp \in FilSet
  BY FileIs
<1>2. [v EXCEPT !.fp.open = FALSE] = y
  <2>1. \A a : [v EXCEPT !.fp.open = a] = WithFp(v, [v.fp EXCEPT !.open = a])
    BY <1>1, FpChanges
  <2> QED
    BY <2>1, Zenon
<1>3. x \in FilSet
  BY <1>1 DEF FilSet
<1> HIDE DEF x
<1> QED
  BY <1>2, <1>3, FpLive

(* And f_close too.                                                        *)
LEMMA FCloseSane ==
  ASSUME NEW v \in Live, FileOK(v.fp), Sane(v, Pend(v.fp), {}), Built(Sees(v), v.fp, v.fp.size)
  PROVE  LET w == f_close(v) IN w \in Live /\ Sane(w, {}, {})
<1> DEFINE s == f_sync(v)
           u == validate(s, s.fp)
           w == [u EXCEPT !.fp.open = FALSE]
<1>1. f_close(v) = IF s.res = "OK" THEN IF u.res = "OK" THEN w ELSE u ELSE s
  BY Zenon DEF f_close, Then
<1>2. s \in Live /\ Sane(s, {}, {}) /\ {} \subseteq RealClusters /\ {} \subseteq Places
  BY FSyncSane
<1> HIDE DEF s
<1>3. u \in Live /\ SameStore(s, u)
  BY <1>2, ValidateLooks
<1> HIDE DEF u
<1>4. w \in Live /\ SameStore(u, w)
  BY <1>3, OpenEnds
<1> HIDE DEF w
<1>5. Sane(u, {}, {})
  BY <1>2, <1>3, WorksSane
<1>6. Sane(w, {}, {})
  BY <1>2, <1>4, <1>5, WorksSane
<1> QED
  BY <1>1, <1>2, <1>3, <1>4, <1>5, <1>6

(* F_close of a file that was only read writes nothing of its own.         *)
LEMMA FCloseLooks ==
  ASSUME NEW v \in Live, v.fp.mod = FALSE
  PROVE  LET w == f_close(v) IN w \in Live /\ Looks(v, w)
<1> DEFINE s == validate(v, v.fp)
           u == validate(s, s.fp)
           w == [u EXCEPT !.fp.open = FALSE]
           y == f_sync(v)
           j == validate(y, y.fp)
<1>1. s \in Live /\ SameStore(v, s) /\ s.fp = v.fp
  BY ValidateLooks
<1>2. y = s
  <2> DEFINE m == move_window(s, s.fp.dsect)
             z == [sync_fs(UpdateEntry(m)) EXCEPT !.fp.mod = FALSE]
  <2>1. y = IF s.res = "OK" THEN IF ~s.fp.mod THEN s ELSE IF m.res = "OK" THEN z ELSE m ELSE s
    BY Zenon DEF f_sync, Then
  <2> HIDE DEF m, z, s, y
  <2> QED
    BY <1>1, <2>1
<1>3. f_close(v) = IF y.res = "OK" THEN IF j.res = "OK" THEN [j EXCEPT !.fp.open = FALSE] ELSE j ELSE y
  BY Zenon DEF f_close, Then
<1> HIDE DEF y
<1>4. f_close(v) = IF s.res = "OK" THEN IF u.res = "OK" THEN w ELSE u ELSE s
  <2> HIDE DEF s
  <2> QED
    BY <1>2, <1>3, Zenon
<1> HIDE DEF s
<1>5. u \in Live /\ SameStore(s, u)
  BY <1>1, ValidateLooks
<1> HIDE DEF u
<1>6. w \in Live /\ SameStore(u, w)
  BY <1>5, OpenEnds
<1> HIDE DEF w
<1>7. Looks(v, s) /\ Looks(s, u) /\ Looks(u, w)
  BY <1>1, <1>5, <1>6, StoreLooks
<1>8. Looks(v, u)
  BY <1>7, LooksOn
<1>9. Looks(v, w)
  BY <1>7, <1>8, LooksOn
<1> QED
  BY <1>1, <1>4, <1>5, <1>6, <1>7, <1>8, <1>9

-----------------------------------------------------------------------------
(* A call that meets no disk error.                                        *)

(* Its window is written and moved without one,                            *)
LEMMA QuietDisk ==
  ASSUME NEW v \in CallSet, v.to = -1
  PROVE  /\ \A s \in Sectors : \A c \in Holds(s) :
                DiskWrite(v, s, c).res = "OK" /\ DiskWrite(v, s, c).to = -1
         /\ \A s : DiskRead(v, s).res = "OK"
<1>1. ~Fails(v)
  BY DEF CallSet, Fails
<1>2. ASSUME NEW s \in Sectors, NEW c \in Holds(s)
      PROVE  DiskWrite(v, s, c).res = "OK" /\ DiskWrite(v, s, c).to = -1
  <2> DEFINE w == DiskWrite(v, s, c)
  <2>1. w.to = v.to /\ w.res \in {"OK", "DISK_ERR"} /\ (w.res # "OK" => Fails(v))
    BY DiskWriteKeeps
  <2> HIDE DEF w
  <2> QED
    BY <1>1, <2>1 DEF w
<1>3. ASSUME NEW s PROVE DiskRead(v, s).res = "OK"
  <2> DEFINE w == DiskRead(v, s)
  <2>1. w.res \in {"OK", "DISK_ERR"} /\ (w.res # "OK" => Fails(v))
    BY DiskReadKeeps
  <2> HIDE DEF w
  <2> QED
    BY <1>1, <2>1 DEF w
<1> QED
  BY <1>2, <1>3

(* the window is written back, *)
LEMMA QuietSyncWindow ==
  ASSUME NEW v \in Live, v.to = -1
  PROVE  sync_window(v).res = "OK" /\ sync_window(v).to = -1
<1> DEFINE w == sync_window(v)
           x == v.fs.winsect
           u == DiskWrite(v, x, v.fs.win)
<1>1. v \in CallSet /\ v.fs \in Volumes
  BY LiveIs
<1>2. w.to = v.to /\ w.res \in {"OK", "DISK_ERR"}
  <2>1. \A q \in BOOLEAN : v \in Steady(q) => w.to = v.to /\ w.res \in {"OK", "DISK_ERR"}
    BY SyncWindowKeeps
  <2> HIDE DEF w
  <2> QED
    BY <2>1, LiveIs
<1>3. CASE ~v.fs.wflag
  <2>1. w = OK(v)
    BY <1>3, Zenon DEF sync_window
  <2> QED
    BY <1>2, <2>1, OKLive
<1>4. CASE v.fs.wflag
  <2>1. x \in Sectors /\ v.fs.win \in Holds(x)
    BY <1>1, <1>4, AreasApart DEF Volumes, WindowHolds
  <2>2. u.res = "OK"
    BY <1>1, <2>1, QuietDisk
  <2>3. u \in CallSet
    BY <1>1, <2>1, DiskWriteKeeps
  <2> HIDE DEF u
  <2> DEFINE c == [u EXCEPT !.fs.wflag = FALSE]
             k == DiskWrite(c, c.fs.winsect + FatSize, c.fs.win)
  <2>4. w = IF InFat1(c.fs.winsect) /\ FatCopies = 2 THEN OK(k) ELSE c
    BY <1>4, <2>2, Zenon DEF sync_window, Then, u
  <2>5. c.res = "OK"
    BY <2>2, <2>3 DEF CallSet
  <2>6. k \in CallSet => OK(k).res = "OK"
    BY DEF OK, Res, CallSet
  <2>7. OK(k).res = "OK" \/ w = c
    <3>1. ASSUME w # c PROVE OK(k).res = "OK"
      <4>1. w = OK(k)
        BY <2>4, <3>1
      <4>2. OK(k) = [k EXCEPT !.res = "OK"]
        BY Zenon DEF OK, Res
      <4>3. "res" \in DOMAIN w
        <5>1. w \in CallSet
          BY SyncWindowLooks, LiveIs
        <5> HIDE DEF w
        <5> QED
          BY <5>1 DEF CallSet
      <4>4. DOMAIN OK(k) = DOMAIN k
        BY <4>2
      <4> HIDE DEF k, w
      <4> QED
        BY <4>1, <4>2, <4>3, <4>4
    <3> QED
      BY <3>1
  <2> HIDE DEF k, c
  <2>8. w.res = "OK"
    <3> HIDE DEF w
    <3> QED
      BY <2>4, <2>5, <2>7
  <2> QED
    BY <1>2, <2>8
<1> QED
  BY <1>3, <1>4

(* moved, *)
LEMMA QuietMoveWindow ==
  ASSUME NEW v \in Live, v.to = -1, NEW s \in WinSects
  PROVE  move_window(v, s).res = "OK" /\ move_window(v, s).to = -1
<1> DEFINE w == sync_window(v)
           r == DiskRead(w, s)
           m == move_window(v, s)
<1>1. m \in Live /\ Looks(v, m)
  BY MoveWindowLooks
<1>2. m.to = -1
  BY <1>1 DEF Looks
<1>3. CASE s = v.fs.winsect
  <2>1. m = OK(v)
    BY <1>3, Zenon DEF move_window
  <2> QED
    BY <1>2, <2>1, OKLive
<1>4. CASE s # v.fs.winsect
  <2>1. w.res = "OK" /\ w.to = -1 /\ w \in CallSet
    BY QuietSyncWindow, SyncWindowLooks, LiveIs
  <2>2. r.res = "OK" /\ r \in CallSet
    <3> HIDE DEF w
    <3> QED
      BY <2>1, QuietDisk, DiskReadKeeps
  <2>3. m = [r EXCEPT !.fs.win = r.disk[s], !.fs.winsect = s]
    <3>1. m = IF r.res = "OK"
              THEN [r EXCEPT !.fs.win = r.disk[s], !.fs.winsect = s]
              ELSE [r EXCEPT !.fs.winsect = NOSECT]
      BY <1>4, <2>1, Zenon DEF move_window, Then, With
    <3> HIDE DEF m, r, w
    <3> QED
      BY <2>2, <3>1
  <2> HIDE DEF r
  <2>4. m.res = "OK"
    <3> HIDE DEF m
    <3> QED
      BY <2>2, <2>3 DEF CallSet
  <2> QED
    BY <1>2, <2>4
<1> QED
  BY <1>3, <1>4

(* and the volume synchronised. *)
LEMMA QuietSyncFs ==
  ASSUME NEW v \in Live, v.to = -1
  PROVE  sync_fs(v).res = "OK"
<1> DEFINE w == sync_window(v)
           j == [w EXCEPT !.fs.win = FsInfo(w.fs.free, w.fs.last), !.fs.winsect = FsInfoSect]
           d == [DiskWrite(j, FsInfoSect, j.fs.win) EXCEPT !.fs.fsi = 0]
           s == sync_fs(v)
<1>1. w.res = "OK"
  BY QuietSyncWindow
<1>2. s = IF FatType = 3 /\ w.fs.fsi = 1 THEN OK(d) ELSE w
  BY <1>1, Zenon DEF sync_fs, Then
<1>3. s \in CallSet
  BY SyncFsLooks, LiveIs
<1>4. OK(d) = [d EXCEPT !.res = "OK"]
  BY Zenon DEF OK, Res
<1> HIDE DEF d, w, s
<1>5. CASE s = w
  BY <1>1, <1>5 DEF s
<1>6. CASE s = OK(d)
  <2>1. "res" \in DOMAIN s
    BY <1>3 DEF CallSet
  <2>2. s.res = "OK"
    BY <1>4, <1>6, <2>1
  <2> QED
    BY <2>2 DEF s
<1> QED
  BY <1>2, <1>5, <1>6

(* and it can remove a directory entry.                                    *)
LEMMA QuietDirRemove ==
  ASSUME NEW v \in Live, v.to = -1, InTable(v.dp)
  PROVE  dir_remove(v).res = "OK"
<1> DEFINE m == move_window(v, v.dp.sect)
           e == [dir(m) EXCEPT !.nm = Deleted]
           s == SetDir(m, e)
<1>1. dir_remove(v) = IF m.res = "OK" THEN s ELSE m
  BY Zenon DEF dir_remove, Then
<1>2. v.dp.sect \in TableArea /\ v.dp.sect \in WinSects
  <2>1. v.dp.sect \in TableArea
    BY LiveIs, InTableIs
  <2> QED
    BY <2>1, TableHolds
<1>3. m \in Live /\ m.res = "OK" /\ m.fs.winsect = v.dp.sect
  BY <1>2, MoveSeeks, MoveWindowLooks, QuietMoveWindow
<1> HIDE DEF m
<1>4. e \in EntrySet
  <2>1. dir(m) \in EntrySet
    BY <1>3, SlotIs
  <2>2. Deleted \in Words
    BY Zenon DEF Words
  <2> QED
    BY <2>1, <2>2 DEF EntrySet
<1> HIDE DEF e
<1>5. s.res = m.res
  <2>1. \A q \in BOOLEAN : m \in Good(q) => s.res = m.res
    BY <1>2, <1>3, <1>4, SetDirKeeps
  <2> HIDE DEF s
  <2> QED
    BY <1>3, <2>1, LiveIs
<1> QED
  BY <1>1, <1>3, <1>5
-----------------------------------------------------------------------------
(* F_rename.                                                               *)

(* A chain that is long enough stays so.                                   *)
LEMMA LongOn ==
  ASSUME NEW m, NEW n, LinksKept(m, n), NEW c, NEW z, Long(m, c, z)
  PROVE  Long(n, c, z)
<1>1. CASE z = 0
  BY <1>1, Zenon DEF Long
<1>2. CASE z # 0
  <2>1. PICK k \in Nat \ {0} : \E p \in [1..k -> RealClusters] :
          Path(m, p, k) /\ p[1] = c /\ z <= k * ClusterBytes
    BY <1>2, Zenon DEF Long
  <2>2. PICK p \in [1..k -> RealClusters] : Path(m, p, k) /\ p[1] = c /\ z <= k * ClusterBytes
    BY <2>1
  <2>3. Path(n, p, k)
    <3>1. ASSUME NEW i \in 1 .. k - 1 PROVE FatEntry(n, p[i]) = p[i + 1]
      <4>1. FatEntry(m, p[i]) = p[i + 1] /\ p[i] \in RealClusters /\ p[i + 1] \in RealClusters
        BY <2>2 DEF Path
      <4> QED
        BY <4>1 DEF LinksKept
    <3> QED
      BY <3>1 DEF Path
  <2> QED
    BY <2>2, <2>3, Zenon DEF Long
<1> QED
  BY <1>1, <1>2

(* A card that is sound is so with a slot left out of account.             *)
LEMMA KeptLess ==
  ASSUME NEW m, Kept(m, {}, {}), NEW X
  PROVE  Kept(m, {}, X)
<1>1. EntriesSound(m, X)
  BY Zenon DEF Kept, EntriesSound
<1>2. Owned(m, {}, X)
  BY Zenon DEF Kept, Owned
<1> QED
  BY <1>1, <1>2 DEF Kept

(* The ".." of a moved directory names no chain of its own.                *)
LEMMA UpdateDotDotWorks ==
  ASSUME NEW v \in Live, NEW c \in ClusterNos
  PROVE  LET w == UpdateDotDot(v, c)
         IN  /\ w \in Live /\ Works(v, w)
             /\ c \in RealClusters /\ v.to = -1 => w.res = "OK"
<1> DEFINE t == clst2sect(c)
           m == move_window(v, t)
           es == EntriesOf(m.fs.win)
           e == [es[1] EXCEPT !.cl = v.dp.sclust]
           f == [es EXCEPT ![1] = e]
           w == SetWin(m, DirSector(f))
           y == Res(v, "INT_ERR")
           z == UpdateDotDot(v, c)
<1>1. z = IF t = 0 THEN y ELSE IF m.res = "OK" /\ es[1].nm = ".." THEN w ELSE m
  <2>1. z = IF t = 0 THEN y
            ELSE IF m.res = "OK" /\ es[1].nm = ".."
            THEN SetWin(m, DirSector([es EXCEPT ![1] = [@ EXCEPT !.cl = v.dp.sclust]])) ELSE m
    BY Zenon DEF UpdateDotDot, With
  <2> QED
    BY <2>1
<1> HIDE DEF z
<1>2. y \in Live /\ Works(v, y)
  <2>1. y \in Live /\ SameStore(v, y)
    BY ResLive, ResultsAre
  <2> HIDE DEF y
  <2> QED
    BY <2>1, StoreLooks
<1> HIDE DEF y
<1>3. t # 0 => c \in RealClusters
  BY ClusterIsThere, LayoutIs DEF ClusterNos
<1>4. c \in RealClusters => t \in TableArea /\ t \in WinSects /\ t # 0
  <2>1. c \in RealClusters => t \in TableArea /\ t \in WinSects
    BY TableTop
  <2>2. c \in RealClusters => t # 0
    BY ClusterIsThere DEF RealClusters
  <2> QED
    BY <2>1, <2>2
<1>5. CASE t = 0
  BY <1>1, <1>2, <1>4, <1>5 DEF z
<1>6. CASE t # 0
  <2>1. t \in TableArea /\ t \in WinSects
    BY <1>3, <1>4, <1>6
  <2> HIDE DEF t
  <2>2. m \in Live /\ Looks(v, m)
    BY <2>1, MoveWindowLooks
  <2>3. m.res = "OK" => m.fs.winsect = t
    BY <2>1, MoveSeeks
  <2>4. v.to = -1 => m.res = "OK"
    BY <2>1, QuietMoveWindow
  <2> HIDE DEF m
  <2>5. Works(v, m)
    BY <2>2, LooksWorks
  <2>6. m.res = "OK" /\ es[1].nm = ".." => w \in Live /\ Works(m, w) /\ w.res = m.res
    <3>1. ASSUME m.res = "OK" /\ es[1].nm = ".." PROVE w \in Live /\ Works(m, w) /\ w.res = m.res
      <4>1. es \in [SlotNos -> EntrySet] /\ 1 \in SlotNos
        BY <2>2, SlotIs, GeometryAssumption DEF SlotNos
      <4> HIDE DEF es
      <4>2. v.dp.sclust \in ClusterNos
        BY LiveIs DEF DirSet
      <4>3. e \in EntrySet /\ e.nm = ".."
        <5>1. es[1] \in EntrySet
          BY <4>1
        <5> QED
          BY <3>1, <4>2, <5>1 DEF EntrySet
      <4> HIDE DEF e
      <4>4. Harmless(e)
        BY <4>3, Zenon DEF Harmless, Named
      <4>5. f \in [SlotNos -> EntrySet] /\ \A i \in SlotNos : f[i] = es[i] \/ Harmless(f[i])
        BY <4>1, <4>3, <4>4
      <4> HIDE DEF f
      <4>6. m.fs.winsect \in TableArea
        BY <2>1, <2>3, <3>1
      <4> QED
        BY <2>2, <4>5, <4>6, TableWorks DEF es
    <3> QED
      BY <3>1
  <2> HIDE DEF w, es
  <2>7. m.res = "OK" /\ es[1].nm = ".." => Works(v, w)
    BY <2>5, <2>6, WorksOn
  <2> QED
    BY <1>1, <1>6, <2>2, <2>4, <2>5, <2>6, <2>7 DEF z
<1> QED
  BY <1>5, <1>6

(* An entry that has no chain moves.                                       *)
LEMMA MoveBlankWorks ==
  ASSUME NEW v \in Live, NEW e \in EntrySet, Blank(e), NEW old \in DirSet, InTable(old)
  PROVE  LET w == MoveEntry(v, e, old) IN w \in Live /\ Works(v, w)
<1> DEFINE r == dir_register(v)
           f == [e EXCEPT !.nm = r.dp.fn]
           n == SetDir(r, f)
           d == UpdateDotDot(n, e.cl)
           w == IF e.dir /\ old.sclust # n.dp.sclust THEN d ELSE n
           p == WithDp(w, old)
           x == dir_remove(p)
           s == sync_fs(x)
<1>1. MoveEntry(v, e, old) =
        IF r.res = "OK" THEN IF w.res = "OK" THEN IF x.res = "OK" THEN s ELSE x ELSE w ELSE r
  BY Zenon DEF MoveEntry, Then, With, WithDp
<1>2. r \in Live /\ Works(v, r) /\ (r.res = "OK" => OnEntry(r))
  BY DirRegisterRoams DEF Roams
<1> HIDE DEF r
<1>3. ASSUME r.res = "OK"
      PROVE  w \in Live /\ Works(v, w) /\ x \in Live /\ Works(v, x) /\ s \in Live /\ Works(v, s)
  <2>1. f \in EntrySet /\ Harmless(f)
    <3>1. r.dp.fn \in Words
      BY <1>2, LiveIs DEF DirSet
    <3>2. f \in EntrySet /\ f.cl = e.cl /\ f.sz = e.sz
      BY <3>1 DEF EntrySet
    <3> HIDE DEF f
    <3> QED
      BY <3>2 DEF Blank, Harmless
  <2> HIDE DEF f
  <2>2. r.fs.winsect \in TableArea
    <3>1. r.dp \in DirSet
      BY <1>2, LiveIs
    <3> QED
      BY <1>2, <1>3, <3>1, InTableIs DEF OnEntry
  <2>3. n \in Live
    <3>1. \A q \in BOOLEAN : r \in Good(q) => n \in Good(q)
      BY <2>1, <2>2, SetDirKeeps
    <3> HIDE DEF n
    <3> QED
      BY <1>2, <3>1, LiveIs, GoodLives
  <2>4. Works(r, n)
    BY <1>2, <2>1, <2>2, SetDirWorks
  <2> HIDE DEF n
  <2>5. d \in Live /\ Works(n, d)
    <3>1. e.cl \in ClusterNos
      BY DEF EntrySet
    <3> QED
      BY <2>3, <3>1, UpdateDotDotWorks
  <2> HIDE DEF d
  <2>6. Works(v, n)
    BY <1>2, <2>4, WorksOn
  <2>7. Works(v, d)
    BY <2>5, <2>6, WorksOn
  <2>8. w \in Live /\ Works(v, w)
    BY <2>3, <2>5, <2>6, <2>7
  <2> HIDE DEF w
  <2>9. p \in Live /\ SameStore(w, p) /\ p.dp = old
    BY <2>8, DpLive
  <2> HIDE DEF p
  <2>10. x \in Live /\ Works(p, x)
    BY <2>9, DirRemoveSane DEF Roams
  <2> HIDE DEF x
  <2>11. Works(w, p)
    BY <2>9, StoreLooks
  <2>12. Works(v, p)
    BY <2>8, <2>11, WorksOn
  <2>13. Works(v, x)
    BY <2>10, <2>12, WorksOn
  <2>14. s \in Live /\ Looks(x, s)
    BY <2>10, SyncFsLooks
  <2> HIDE DEF s
  <2>15. Works(x, s)
    BY <2>14, LooksWorks
  <2>16. Works(v, s)
    BY <2>13, <2>15, WorksOn
  <2> QED
    BY <2>8, <2>10, <2>13, <2>14, <2>16
<1> HIDE DEF w, x, s
<1> QED
  BY <1>1, <1>2, <1>3
(* The volume after a call: sound as the program sees it and as the card   *)
(* alone holds it.                                                         *)
Restful(v) == /\ v \in Live /\ Kept(v.disk, {}, {}) /\ Kept(Sees(v), {}, {}) /\ WinTrue(v)

(* Such a volume is one between two calls. *)
LEMMA SaneRests ==
  ASSUME NEW v \in Live, Sane(v, {}, {})
  PROVE  Restful(v)
BY DEF Sane, Restful

(* An entry that has a chain moves: with the old entry set aside the new   *)
(* one names it, and then the old one is gone.                             *)
LEMMA MoveChainRests ==
  ASSUME NEW v \in Live, v.to = -1, NEW e \in EntrySet, e.cl \in RealClusters,
         NEW old \in DirSet, InTable(old), NEW a \in Places,
         \A u \in Live : u.dp = old => a = <<old.sect, Slot(u)>>,
         Sane(v, {}, {}), Sane(v, {e.cl}, {a}), Long(Sees(v), e.cl, e.sz)
  PROVE  Restful(MoveEntry(v, e, old))
<1> DEFINE r == dir_register(v)
           f == [e EXCEPT !.nm = r.dp.fn]
           n == SetDir(r, f)
           d == UpdateDotDot(n, e.cl)
           w == IF e.dir /\ old.sclust # n.dp.sclust THEN d ELSE n
           p == WithDp(w, old)
           x == dir_remove(p)
           s == sync_fs(x)
           c == e.cl
           A == {a}
           C == {c}
           O == {}
<1>1. MoveEntry(v, e, old) =
        IF r.res = "OK" THEN IF w.res = "OK" THEN IF x.res = "OK" THEN s ELSE x ELSE w ELSE r
  BY Zenon DEF MoveEntry, Then, With, WithDp
<1>2. r \in Live /\ Works(v, r) /\ (r.res = "OK" => OnEntry(r))
  BY DirRegisterRoams DEF Roams
<1>3. c \in ClusterNos /\ c # 0
  BY LayoutIs DEF EntrySet, RealClusters
<1> HIDE DEF r
<1>4. C \in SUBSET RealClusters /\ A \in SUBSET Places /\ O \in SUBSET RealClusters /\ O \in SUBSET Places
  OBVIOUS
<1>5. Sane(v, O, O) /\ Sane(v, C, A)
  OBVIOUS
<1> HIDE DEF A, C, O
<1>6. Sane(r, O, O) /\ Sane(r, C, A) /\ LinksKept(Sees(v), Sees(r)) /\ r.to = v.to
  BY <1>2, <1>4, <1>5, Zenon DEF Works
<1>7. r.res # "OK" => Restful(r)
  BY <1>2, <1>6, SaneRests DEF O
<1>8. ASSUME r.res = "OK" PROVE w.res = "OK" /\ x.res = "OK" /\ Restful(s)
  <2>1. f \in EntrySet /\ f.cl = c /\ f.sz = e.sz
    <3>1. r.dp.fn \in Words
      BY <1>2, LiveIs DEF DirSet
    <3> QED
      BY <3>1 DEF EntrySet
  <2> HIDE DEF f
  <2>2. r.fs.winsect \in TableArea
    <3>1. r.dp \in DirSet
      BY <1>2, LiveIs
    <3> QED
      BY <1>2, <1>8, <3>1, InTableIs DEF OnEntry
  <2>3. n \in Live /\ n.res = r.res
    <3>1. \A q \in BOOLEAN : r \in Good(q) => n \in Good(q) /\ n.res = r.res
      BY <2>1, <2>2, SetDirKeeps
    <3> HIDE DEF n
    <3> QED
      BY <1>2, <3>1, LiveIs, GoodLives
  <2>4. Long(Sees(r), c, e.sz)
    BY <1>6, LongOn
  <2>5. Fits(Sees(r), f, Place(r), C, A)
    BY <1>3, <2>1, <2>4 DEF Fits, C
  <2>6. Sane(n, O, A)
    <3>1. \A j \in O : j \in C \/ (j # 0 /\ Place(r) \notin A /\ j = Claim(At(Sees(r), Place(r))))
      BY DEF O
    <3>2. Claim(f) \notin O
      BY DEF O
    <3> HIDE DEF n
    <3> QED
      BY <1>2, <1>6, <2>1, <2>2, <2>5, <3>1, <3>2, SetDirSane DEF n
  <2>7. n.to = -1
    <3>1. WinTrue(r)
      BY <1>6 DEF Sane
    <3>2. n.to = r.to
      BY <1>2, <2>1, <2>2, <3>1, SetDirSees
    <3> HIDE DEF n
    <3> QED
      BY <1>6, <3>2
  <2> HIDE DEF n
  <2>8. d \in Live /\ Works(n, d) /\ d.res = "OK"
    BY <1>3, <2>3, <2>7, UpdateDotDotWorks
  <2> HIDE DEF d
  <2>9. Sane(d, O, A) /\ d.to = n.to
    BY <1>4, <2>6, <2>8, Zenon DEF Works
  <2>10. w \in Live /\ Sane(w, O, A) /\ w.to = -1 /\ w.res = "OK"
    <3>1. n.res = "OK"
      BY <1>8, <2>3
    <3>2. w = d \/ w = n
      OBVIOUS
    <3> HIDE DEF w
    <3> QED
      BY <2>3, <2>6, <2>7, <2>8, <2>9, <3>1, <3>2
  <2> HIDE DEF w
  <2>11. p \in Live /\ SameStore(w, p) /\ p.dp = old
    BY <2>10, DpLive
  <2> HIDE DEF p
  <2>12. Sane(p, O, A) /\ p.to = -1
    <3>1. Sane(p, O, A)
      BY <1>4, <2>10, <2>11, WorksSane
    <3> QED
      BY <2>10, <2>11, <3>1 DEF SameStore
  <2>13. x.res = "OK"
    BY <2>11, <2>12, QuietDirRemove
  <2>14. x \in Live /\ Harmless(At(Sees(x), a)) /\ Sane(x, O, A)
    <3> DEFINE t == <<p.dp.sect, Slot(p)>>
    <3>1. t = a
      BY <2>11
    <3>2. /\ Roams(p, x)
          /\ \A P \in SUBSET RealClusters : \A X \in SUBSET Places : Sane(p, P, X) =>
               /\ x.res = "OK" => Harmless(At(Sees(x), t)) /\ t \in Places
               /\ \A Q : (x.res = "OK" /\ \A j \in Q : j \in P \/ (j # 0 /\ t \notin X /\ j = Claim(At(Sees(p), t))))
                            => Sane(x, Q, X)
      BY <2>11, DirRemoveSane
    <3> HIDE DEF t, x
    <3>3. /\ x.res = "OK" => Harmless(At(Sees(x), t)) /\ t \in Places
          /\ \A Q : (x.res = "OK" /\ \A j \in Q : j \in O \/ (j # 0 /\ t \notin A /\ j = Claim(At(Sees(p), t))))
                       => Sane(x, Q, A)
      BY <1>4, <2>12, <3>2, Zenon
    <3>4. Sane(x, O, A)
      BY <2>13, <3>3, Zenon
    <3> QED
      BY <2>13, <3>1, <3>2, <3>3, <3>4 DEF Roams
  <2>15. x.to = -1
    <3>1. Works(p, x)
      BY <2>11, DirRemoveSane DEF Roams
    <3> HIDE DEF x
    <3>2. x.to = p.to
      BY <1>4, <2>12, <3>1, Zenon DEF Works
    <3> QED
      BY <2>12, <3>2
  <2> HIDE DEF x
  <2>16. Looks(x, s) /\ s \in Live /\ ~s.fs.wflag
    <3>1. s.res = "OK"
      BY <2>14, <2>15, QuietSyncFs
    <3> QED
      BY <2>14, <3>1, SyncFsLooks
  <2> HIDE DEF s
  <2>17. Sane(s, O, A) /\ SameSlots(Sees(x), Sees(s)) /\ Sees(s) = s.disk
    <3>1. Sane(s, O, A)
      BY <1>4, <2>14, <2>16, WorksSane
    <3> QED
      BY <2>16, <3>1, LooksSlots, LiveIs, SeesIs
  <2>18. Harmless(At(Sees(s), a))
    BY <2>14, <2>17 DEF SameSlots
  <2>19. Kept(Sees(s), O, {a}) /\ WinTrue(s)
    BY <2>17 DEF Sane, A
  <2>20. Kept(Sees(s), O, {})
    BY <2>18, <2>19, KeptBack
  <2> QED
    BY <2>10, <2>13, <2>16, <2>17, <2>19, <2>20 DEF Restful, O
<1> HIDE DEF w, x, s
<1> QED
  BY <1>1, <1>7, <1>8

(* A named entry without a chain has no size.                              *)
LEMMA FoundBlank ==
  ASSUME NEW v \in Live, OnEntry(v), Sane(v, {}, {}), Named(dir(v)), dir(v).cl = 0
  PROVE  Blank(dir(v))
<1>1. v.fs.winsect \in TableArea
  <2>1. \A q \in BOOLEAN : v \in Good(q) => v.fs.winsect \in TableArea
    BY OnEntryIs
  <2> QED
    BY <2>1, LiveIs
<1> DEFINE m == Sees(v)
           a == Place(v)
           e == dir(v)
<1>2. a \in Places /\ (e = At(m, a) \/ Blank(e))
  BY <1>1, DirSeen, SlotIs DEF Sane
<1>3. Kept(m, {}, {})
  BY DEF Sane
<1> HIDE DEF m, a
<1>4. e = At(m, a) => Rooted(m, e)
  <2>1. Named(e)
    OBVIOUS
  <2> HIDE DEF e
  <2> QED
    BY <1>2, <1>3, <2>1 DEF Kept, EntriesSound
<1>5. e = At(m, a) => e.sz = 0
  BY <1>4 DEF Rooted
<1> QED
  BY <1>2, <1>5 DEF Blank

(* F_rename that meets no disk error keeps the volume sound.               *)
LEMMA RenameRests ==
  ASSUME NEW v \in Live, v.to = -1, NEW old \in PathSet, NEW new \in PathSet, Sane(v, {}, {}),
         old.seg # <<>> => Unmarked(old.seg[Len(old.seg)])
  PROVE  Restful(f_rename(v, old, new))
<1> DEFINE f == Lookup(v, old)
           nm == old.seg[Len(old.seg)]
           g == follow_path(f, new)
           o == Res(g, "OK")
           e == dir(f)
           m == MoveEntry(o, e, f.dp)
           x == Res(f, "INVALID_NAME")
           y == Res(g, "EXIST")
           z == f_rename(v, old, new)
<1>1. z = IF f.res = "OK"
          THEN IF f.dp.dot \/ f.dp.origin THEN x
               ELSE IF g.res = "NO_FILE" \/ (g.res = "OK" /\ SameEntry(g.dp, f.dp)) THEN m
               ELSE IF g.res = "OK" THEN y ELSE g
          ELSE f
  BY Zenon DEF f_rename, Then, With, OK
<1> HIDE DEF z
<1>2. Arrives(v, f, nm) /\ (f.res = "OK" /\ old.seg = <<>> => f.dp.origin)
  BY LookupLooks
<1>0. old.seg # <<>> => Unmarked(nm)
  OBVIOUS
<1> HIDE DEF f, nm
<1>3. f \in Live /\ Sane(f, {}, {}) /\ f.to = -1
  <2>1. f \in Live /\ Looks(v, f)
    BY <1>2 DEF Arrives
  <2> QED
    BY <2>1, WorksSane DEF Looks
<1>4. e \in EntrySet
  BY <1>3, SlotIs
<1>5. g \in Live /\ Looks(f, g)
  BY <1>3, FollowPathLooks DEF Arrives
<1> HIDE DEF g
<1>6. Sane(g, {}, {}) /\ g.to = -1
  BY <1>3, <1>5, WorksSane DEF Looks
<1>7. x \in Live /\ Sane(x, {}, {}) /\ y \in Live /\ Sane(y, {}, {})
  <2>1. x \in Live /\ SameStore(f, x) /\ y \in Live /\ SameStore(g, y)
    BY <1>3, <1>5, ResLive, ResultsAre
  <2> HIDE DEF x, y
  <2> QED
    BY <1>3, <1>6, <2>1, WorksSane
<1> HIDE DEF x, y
<1>8. o \in Live /\ SameStore(g, o) /\ o.to = -1
  <2>1. o \in Live /\ SameStore(g, o)
    BY <1>5, ResLive, ResultsAre
  <2> HIDE DEF o
  <2> QED
    BY <1>6, <2>1 DEF SameStore
<1> HIDE DEF o
<1>9. ASSUME f.res = "OK", ~f.dp.dot, ~f.dp.origin PROVE Restful(m)
  <2>1. OnEntry(f) /\ Met(f) /\ Tagged(f.dp, nm) /\ old.seg # <<>>
    BY <1>2, <1>9 DEF Arrives
  <2>2. Named(e)
    <3>1. e.nm = nm /\ nm \notin {".", ".."}
      BY <1>9, <2>1 DEF Met, Tagged
    <3> HIDE DEF e
    <3> QED
      BY <1>0, <2>1, <3>1, Zenon DEF Named, Unmarked
  <2> DEFINE a == Place(f)
  <2>3. /\ a \in Places /\ a = <<f.dp.sect, Slot(f)>>
        /\ e.cl # 0 => /\ e = At(Sees(f), a) /\ e.cl \in RealClusters /\ Claim(At(Sees(f), a)) = e.cl
                       /\ Long(Sees(f), e.cl, e.sz)
    BY <1>3, <2>1, <2>2, FoundIs
  <2>4. f.dp \in DirSet /\ InTable(f.dp)
    BY <1>3, <2>1, LiveIs DEF OnEntry
  <2>5. Sane(o, {}, {})
    BY <1>6, <1>8, WorksSane
  <2>6. CASE e.cl = 0
    <3>1. Blank(e)
      BY <1>3, <2>1, <2>2, <2>6, FoundBlank
    <3>2. m \in Live /\ Works(o, m)
      BY <1>4, <1>8, <2>4, <3>1, MoveBlankWorks
    <3> HIDE DEF m
    <3>3. Sane(m, {}, {})
      BY <2>5, <3>2, WorksSane
    <3> QED
      BY <3>2, <3>3, SaneRests
  <2>7. CASE e.cl # 0
    <3> DEFINE A == {a}
               C == {e.cl}
    <3>1. C \subseteq RealClusters /\ A \subseteq Places
      BY <2>3, <2>7
    <3>2. Sane(f, C, A)
      <4>1. Kept(Sees(f), {}, {}) /\ Kept(f.disk, {}, {}) /\ WinTrue(f)
            /\ \A d \in f.media : Kept(d, {}, {})
        BY <1>3 DEF Sane
      <4>2. Kept(Sees(f), C, A)
        <5>1. Kept(Sees(f), {Claim(At(Sees(f), a))}, {a})
          BY <2>3, <2>7, <4>1, KeptAside
        <5> QED
          BY <2>3, <2>7, <5>1
      <4> HIDE DEF A, C
      <4> QED
        BY <4>1, <4>2, KeptLess DEF Sane
    <3>3. Sane(g, C, A) /\ Long(Sees(g), e.cl, e.sz)
      <4>1. LinksKept(Sees(f), Sees(g))
        BY <1>5, LooksSlots DEF SameFatIn, LinksKept
      <4>2. Long(Sees(f), e.cl, e.sz)
        BY <2>3, <2>7
      <4> HIDE DEF A, C, e
      <4>3. Sane(g, C, A)
        BY <1>5, <3>1, <3>2, WorksSane
      <4> QED
        BY <4>1, <4>2, <4>3, LongOn
    <3>4. Sane(o, C, A) /\ Long(Sees(o), e.cl, e.sz)
      <4> HIDE DEF A, C, e
      <4>1. Sane(o, C, A)
        BY <1>8, <3>1, <3>3, WorksSane
      <4> QED
        BY <1>8, <3>3, <4>1 DEF SameStore, Sees
    <3>5. \A u \in Live : u.dp = f.dp => a = <<f.dp.sect, Slot(u)>>
      BY <2>3 DEF Slot
    <3>6. e.cl \in RealClusters /\ a \in Places
      BY <2>3, <2>7
    <3>7. Sane(o, {e.cl}, {a})
      BY <3>4
    <3>8. Long(Sees(o), e.cl, e.sz)
      BY <3>4
    <3> HIDE DEF a, e, A, C
    <3> QED
      BY <1>4, <1>8, <2>4, <2>5, <3>5, <3>6, <3>7, <3>8, MoveChainRests DEF e
  <2> QED
    BY <2>6, <2>7
<1> HIDE DEF m
<1>10. Restful(f) /\ Restful(g) /\ Restful(x) /\ Restful(y)
  BY <1>3, <1>5, <1>6, <1>7, SaneRests
<1> QED
  BY <1>1, <1>9, <1>10 DEF z

=============================================================================

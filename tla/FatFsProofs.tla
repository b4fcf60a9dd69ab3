---------------------------- MODULE FatFsProofs -----------------------------
(***************************************************************************)
(* What the functions of FatFs keep, for every size of card, cluster,      *)
(* sector and FAT, every card that has the form of a volume (whatever its  *)
(* FAT and its tables say) and every sector transfer that may fail: the    *)
(* objects and the card keep their form; and while no transfer fails, the  *)
(* two copies of the FAT agree, and the count of free clusters is that of  *)
(* the FAT. First the window, the FAT, its chains and the tables; then the *)
(* walks over tables and paths; then the calls by name; then the calls on  *)
(* an open file, which has its pointer within its size, the sector of its  *)
(* entry and the sector of its next byte, for every length, offset and     *)
(* mode; last, the mount.                                                  *)
(***************************************************************************)
EXTENDS FatVolume, NaturalRecursion, FiniteSetTheorems

-----------------------------------------------------------------------------
(* The layout of the volume.                                               *)
FatSects == FatBase .. FatBase + FatSize - 1
TableArea == RootSect .. DataBase + Clusters * ClusterSectors - 1
(* The sectors that the window may hold: all but the second FAT's.         *)
WinSects == {s \in Sectors : s < FatBase + FatSize \/ s >= RootSect}
ClusterNos == 0 .. NFatEnt - 1
RealClusters == 2 .. NFatEnt - 1

(* The areas of a volume follow one another: boot sector, FSInfo, the      *)
(* FATs, the root directory of FAT16, the clusters.                        *)
LEMMA LayoutIs ==
  /\ NFatEnt \in Nat /\ NFatEnt >= 3 /\ NFatEnt = Clusters + 2
  /\ FatSize \in Nat /\ FatSize >= 1
  /\ FatBase \in {1, 2} /\ FatCopies \in {1, 2}
  /\ RootSect \in Nat /\ RootSect >= FatBase + FatSize
  /\ (FatCopies = 2 => RootSect = FatBase + FatSize + FatSize)
  /\ DataBase \in Nat /\ DataBase >= RootSect
  /\ ClusterBytes \in Nat /\ ClusterBytes >= 1
<1>1. /\ Clusters \in Nat /\ Clusters >= 1 /\ FatEntriesPerSector \in Nat /\ FatEntriesPerSector >= 1
      /\ DirEntriesPerSector \in Nat /\ DirEntriesPerSector >= 2 /\ RootEntries \in Nat
      /\ SectorBytes \in Nat /\ SectorBytes >= 1 /\ ClusterSectors \in Nat /\ ClusterSectors >= 1
      /\ FatCopies \in {1, 2}
  BY GeometryAssumption
<1>2. NFatEnt \in Nat /\ NFatEnt >= 3 /\ NFatEnt = Clusters + 2
  BY <1>1 DEF NFatEnt
<1>3. FatSize \in Nat /\ FatSize >= 1
  <2> DEFINE a == NFatEnt + FatEntriesPerSector - 1
             q == a \div FatEntriesPerSector
  <2>1. a \in Nat /\ a >= FatEntriesPerSector
    BY <1>1, <1>2
  <2> HIDE DEF a
  <2>2. q \in Nat
    BY <1>1, <2>1
  <2>3. q >= 1
    BY <1>1, <2>1
  <2> QED
    BY <2>2, <2>3 DEF FatSize, a
<1>4. FatBase \in {1, 2}
  BY DEF FatBase
<1>5. /\ RootSect \in Nat /\ RootSect >= FatBase + FatSize
      /\ (FatCopies = 2 => RootSect = FatBase + FatSize + FatSize)
  BY <1>1, <1>3, <1>4 DEF RootSect
<1>6. DataBase \in Nat /\ DataBase >= RootSect
  <2>1. RootEntries \div DirEntriesPerSector \in Nat
    BY <1>1
  <2> QED
    BY <1>5, <2>1 DEF DataBase
<1>7. ClusterBytes \in Nat /\ ClusterBytes >= 1
  <2>1. \A a, b \in Nat : a >= 1 /\ b >= 1 => a * b \in Nat /\ a * b >= 1
    OBVIOUS
  <2> QED
    BY <1>1, <2>1 DEF ClusterBytes
<1> QED
  BY <1>1, <1>2, <1>3, <1>4, <1>5, <1>6, <1>7

(* The FAT has an entry for every cluster. *)
LEMMA FatHasRoom ==
  ASSUME NEW c \in ClusterNos
  PROVE  /\ c \div FatEntriesPerSector \in 0 .. FatSize - 1
         /\ c % FatEntriesPerSector \in 0 .. FatEntriesPerSector - 1
         /\ FatBase + c \div FatEntriesPerSector \in FatSects
<1> DEFINE N == FatEntriesPerSector
           a == NFatEnt + N - 1
<1>1. N \in Nat /\ N >= 1 /\ NFatEnt \in Nat /\ c \in Nat /\ c <= NFatEnt - 1
  BY GeometryAssumption, LayoutIs DEF ClusterNos
<1>2. a \in Nat /\ c + N <= a
  BY <1>1
<1>3. FatSize = a \div N
  BY DEF FatSize
<1> HIDE DEF N, a
<1>4. \A x, y \in Nat : x + N <= y => x \div N + 1 <= y \div N
  <2>1. ASSUME NEW x \in Nat, NEW y \in Nat, x + N <= y
        PROVE  x \div N + 1 <= y \div N
    <3>1. /\ x \div N \in Nat /\ y \div N \in Nat
      BY <1>1
    <3>2. x = N * (x \div N) + (x % N) /\ x % N \in 0..N-1
      BY <1>1
    <3>3. y = N * (y \div N) + (y % N) /\ y % N \in 0..N-1
      BY <1>1
    <3> DEFINE qx == x \div N
               qy == y \div N
               rx == x % N
               ry == y % N
    <3>4. /\ qx \in Nat /\ qy \in Nat /\ rx \in 0..N-1 /\ ry \in 0..N-1
          /\ x = N * qx + rx /\ y = N * qy + ry
      BY <3>1, <3>2, <3>3
    <3> HIDE DEF qx, qy, rx, ry
    <3>5. SUFFICES ASSUME ~(qx + 1 <= qy) PROVE FALSE
      BY DEF qx, qy
    <3>6. qy <= qx
      BY <3>4, <3>5
    <3>7. \A i, j \in Nat : i <= j => N * i <= N * j
      BY <1>1
    <3>8. N * qy <= N * qx
      BY <3>4, <3>6, <3>7
    <3>9. N * qx \in Int /\ N * qy \in Int
      BY <1>1, <3>4
    <3> QED
      BY <1>1, <2>1, <3>4, <3>8, <3>9
  <2> QED
    BY <2>1
<1>5. c \div N + 1 <= FatSize
  BY <1>1, <1>2, <1>3, <1>4
<1>6. c \div N \in Nat /\ c % N \in 0 .. N - 1
  BY <1>1
<1>7. c \div N \in 0 .. FatSize - 1
  BY <1>5, <1>6, LayoutIs
<1>8. FatBase + c \div N \in FatSects
  BY <1>7, LayoutIs DEF FatSects
<1> QED
  BY <1>6, <1>7, <1>8 DEF N

(* Where a cluster's sectors are. *)
LEMMA ClusterIsThere ==
  ASSUME NEW c \in Int
  PROVE  /\ clst2sect(c) \in Nat
         /\ clst2sect(c) # 0 => c \in RealClusters
         /\ c \in RealClusters =>
              /\ clst2sect(c) >= DataBase /\ clst2sect(c) # 0
              /\ \A i \in 0 .. ClusterSectors - 1 : clst2sect(c) + i \in TableArea
<1> USE GeometryAssumption, LayoutIs
<1>1. CASE c \notin RealClusters
  BY <1>1 DEF clst2sect, RealClusters
<1>2. CASE c \in RealClusters
  <2> DEFINE m == ClusterSectors * (c - 2)
             t == Clusters * ClusterSectors
  <2>1. c - 2 \in Nat /\ c - 2 <= Clusters - 1
    BY <1>2 DEF RealClusters
  <2>2. m \in Nat
    BY <2>1
  <2>3. t \in Nat /\ m + ClusterSectors <= t
    <3>1. \A a, b, k \in Nat : a <= b - 1 => k * a + k <= b * k
      <4>1. ASSUME NEW a \in Nat, NEW b \in Nat, NEW k \in Nat, a <= b - 1 PROVE k * a + k <= b * k
        <5>1. PICK d \in Nat : b = a + 1 + d
          <6>1. b - 1 - a \in Nat /\ b = a + 1 + (b - 1 - a)
            BY <4>1
          <6> QED BY <6>1
        <5>2. b * k = k * a + k + d * k /\ d * k \in Nat
          BY <5>1
        <5>3. k * a + k \in Int
          OBVIOUS
        <5> QED
          BY <5>2, <5>3
      <4> QED BY <4>1
    <3> QED
      BY <2>1, <3>1
  <2>4. clst2sect(c) = DataBase + m
    BY <1>2 DEF clst2sect, RealClusters
  <2>5. TableArea = RootSect .. DataBase + t - 1
    BY DEF TableArea
  <2> HIDE DEF m, t
  <2>6. clst2sect(c) \in Nat /\ clst2sect(c) >= DataBase /\ clst2sect(c) # 0
    BY <2>2, <2>4
  <2>7. \A i \in 0 .. ClusterSectors - 1 : clst2sect(c) + i \in TableArea
    BY <2>2, <2>3, <2>4, <2>5
  <2> QED
    BY <1>2, <2>6, <2>7
<1> QED
  BY <1>1, <1>2

(* The sectors the window may hold, those of the FAT and those of tables   *)
(* and files, as sets: the copy of the FAT is never in the window.         *)
LEMMA AreasApart ==
  /\ FatSects \subseteq WinSects /\ TableArea \subseteq WinSects /\ 0 \in WinSects
  /\ WinSects \subseteq Sectors /\ Sectors \subseteq Nat
  /\ (FatType = 3 => FsInfoSect \in WinSects /\ FsInfoSect < FatBase /\ FsInfoSect # 0)
  /\ \A s \in TableArea : s >= RootSect /\ s \notin FatSects /\ s # 0
  /\ (FatCopies = 2 => \A s \in FatSects : s + FatSize \in Sectors \ WinSects)
  /\ \A s \in WinSects : s >= RootSect => s \in TableArea
  /\ \A s \in WinSects : s >= FatBase /\ s < RootSect => s \in FatSects
<1>1. Clusters * ClusterSectors \in Nat /\ Clusters * ClusterSectors >= 1
  <2>1. \A a, b \in Nat : a >= 1 /\ b >= 1 => a * b \in Nat /\ a * b >= 1
    OBVIOUS
  <2> QED BY <2>1, GeometryAssumption
<1> DEFINE t == Clusters * ClusterSectors
<1>2. /\ Sectors = 0 .. DataBase + t - 1 /\ TableArea = RootSect .. DataBase + t - 1
      /\ t \in Nat /\ t >= 1
  BY <1>1 DEF Sectors, TableArea
<1> HIDE DEF t
<1>3. FatType = 3 => FatBase = 2
  BY DEF FatBase
<1> QED
  BY <1>2, <1>3, LayoutIs DEF FatSects, WinSects, FsInfoSect

-----------------------------------------------------------------------------
(* What the card, the FATFS, FIL and DIR objects and a call can be.        *)
Results == {"OK", GO, "ENDLESS", "FULL", "DISK_ERR", "INT_ERR", "NOT_READY",
            "NO_FILE", "NO_PATH", "INVALID_NAME", "DENIED", "EXIST",
            "INVALID_OBJECT", "NOT_ENABLED", "NO_FILESYSTEM",
            "NOT_ENOUGH_CORE"}
Words   == STRING \union {"", Deleted, JUNK, ".", "..", "x", "y"}   \* names and bytes
FatValues == {0} \union RealClusters \union {EOC}
EntrySet  == [nm : Words, dir : BOOLEAN, ro : BOOLEAN, cl : ClusterNos, sz : Nat]
BootSet   == {Boot}
InfoSet   == [k : {"fsinfo"}, free : Int, last : Nat]
FatSet    == [k : {"fat"}, e : [0 .. FatEntriesPerSector - 1 -> FatValues]]
TableSet  == [k : {"dir"}, e : [0 .. DirEntriesPerSector - 1 -> EntrySet]]
               \union [k : {"data"}, d : [1 .. SectorBytes -> Words]]
SectorSet == BootSet \union InfoSet \union FatSet \union TableSet
Holds(s)  == IF s = 0 THEN BootSet ELSE IF s < FatBase THEN InfoSet
             ELSE IF s < RootSect THEN FatSet ELSE TableSet
Cards == {d \in [Sectors -> SectorSet] : \A s \in Sectors : d[s] \in Holds(s)}

(* A mounted volume's window outside the tables and the files holds the    *)
(* sector it says, and so does one that has to be written.                 *)
WindowHolds(f) ==
  /\ f.type # 0 /\ f.winsect \in WinSects \ TableArea => f.win \in Holds(f.winsect)
  /\ f.wflag => f.type # 0 /\ f.winsect \in WinSects /\ f.win \in Holds(f.winsect)
FsSet == [reg : BOOLEAN, type : {0, FatType}, id : Nat, win : SectorSet,
          winsect : WinSects \union {NOSECT}, wflag : BOOLEAN, last : Nat,
          free : Int, fsi : Nat, cdir : ClusterNos]
Volumes == {f \in FsSet : WindowHolds(f)}

FileClusters == FatValues \union {1}
FilSet == [open : BOOLEAN, id : Nat, sclust : ClusterNos, size : Nat,
           r : BOOLEAN, w : BOOLEAN, mod : BOOLEAN, err : Results, fptr : Nat,
           clust : FileClusters, sect : TableArea \union {0},
           dsect : TableArea \union {0}, dptr : 0 .. DirEntriesPerSector - 1]

DirSet == [open : BOOLEAN, id : Nat, sclust : ClusterNos, dptr : Nat,
           clust : ClusterNos, sect : TableArea \union {0}, fn : Words,
           last : BOOLEAN, dot : BOOLEAN, origin : BOOLEAN, dir : BOOLEAN,
           ro : BOOLEAN]
(* A DIR that is at an entry of its table is in the sector that holds it.  *)
InTable(x) ==
  \/ /\ x.clust = 0 /\ x.dptr < RootEntries
     /\ x.sect = RootSect + x.dptr \div DirEntriesPerSector
  \/ /\ x.clust \in RealClusters
     /\ x.sect = clst2sect(x.clust)
                    + ((x.dptr \div DirEntriesPerSector) % ClusterSectors)
CallSet == [disk : Cards, fs : Volumes, fp : FilSet, dp : DirSet,
            res : Results, ret : Nat, buf : Seq(Words \union EntrySet),
            cnt : Nat, n : Nat, from : Int, to : Int, media : SUBSET Cards]

(* A card that no transfer has failed on: the copy of the FAT is the same, *)
(* and a sector of it in the window is the card's unless it was changed.   *)
Coherent(d, f) == (~f.wflag /\ f.winsect \in FatSects) => f.win = d[f.winsect]
Healthy(d, f)  == FatCopiesSame(d) /\ Coherent(d, f)

(* The FAT as the program sees it, its free clusters, and their count.     *)
Fat(d, f)     == [c \in ClusterNos |-> FatEntry(Seen(d, f), c)]
Freed(fat)    == {c \in RealClusters : fat[c] = 0}
Counted(d, f) == f.free # NOCOUNT => f.free = Cardinality(Freed(Fat(d, f)))

(* The calls on a mounted volume; with q, on a card on which no transfer   *)
(* has failed and none will, and with the right count of free clusters.    *)
Steady(q) == {v \in CallSet : /\ v.fs.reg /\ v.fs.type # 0
                              /\ q => v.to = -1 /\ Healthy(v.disk, v.fs)}
Good(q)   == {v \in Steady(q) : q => Counted(v.disk, v.fs)}

-----------------------------------------------------------------------------
(* The fields of a call, set one at a time.                                *)
LEMMA ResultsAre ==
  /\ "OK" \in Results /\ GO \in Results /\ "ENDLESS" \in Results
  /\ "FULL" \in Results /\ "DISK_ERR" \in Results /\ "INT_ERR" \in Results
  /\ "NOT_READY" \in Results /\ "NO_FILE" \in Results /\ "NO_PATH" \in Results
  /\ "INVALID_NAME" \in Results /\ "DENIED" \in Results /\ "EXIST" \in Results
  /\ "INVALID_OBJECT" \in Results /\ "NOT_ENABLED" \in Results
  /\ "NO_FILESYSTEM" \in Results /\ "NOT_ENOUGH_CORE" \in Results /\ GO # "OK"
BY DEF Results, GO

(* Two calls on the same card, or with the same working variables. *)
SameCard(v, w) == w.disk = v.disk /\ w.fs = v.fs /\ w.to = v.to /\ w.from = v.from
SameWork(v, w) == /\ w.fp = v.fp /\ w.dp = v.dp /\ w.buf = v.buf /\ w.cnt = v.cnt
SameRest(v, w) == SameWork(v, w) /\ w.ret = v.ret

(* A call on the same card stays as good as it was. *)
LEMMA SameCardKeeps ==
  ASSUME NEW q \in BOOLEAN, NEW v, NEW w \in CallSet, SameCard(v, w)
  PROVE  /\ v \in Steady(q) => w \in Steady(q)
         /\ v \in Good(q) => w \in Good(q)
BY DEF SameCard, Steady, Good

(* Setting the FRESULT changes nothing else of a call. *)
LEMMA SetRes ==
  ASSUME NEW v \in CallSet, NEW x \in Results
  PROVE  LET w == [v EXCEPT !.res = x]
         IN  w \in CallSet /\ w.res = x /\ SameCard(v, w) /\ SameRest(v, w)
BY DEF SameCard, SameWork, SameRest, CallSet

(* Nor does setting the returned cluster number. *)
LEMMA SetRet ==
  ASSUME NEW v \in CallSet, NEW x \in Nat
  PROVE  LET w == [v EXCEPT !.ret = x]
         IN  w \in CallSet /\ w.ret = x /\ w.res = v.res /\ SameCard(v, w) /\ SameWork(v, w)
BY DEF SameCard, SameWork, CallSet

(* Nor does counting a transfer. *)
LEMMA SetN ==
  ASSUME NEW v \in CallSet, NEW x \in Nat
  PROVE  LET w == [v EXCEPT !.n = x]
         IN  w \in CallSet /\ w.res = v.res /\ SameCard(v, w) /\ SameRest(v, w)
               /\ w.media = v.media
BY DEF SameCard, SameWork, SameRest, CallSet

(* A call may be given another FATFS object. *)
LEMMA SetFs ==
  ASSUME NEW v \in CallSet, NEW x \in Volumes
  PROVE  LET w == [v EXCEPT !.fs = x]
         IN  w \in CallSet /\ w.fs = x /\ w.disk = v.disk /\ w.res = v.res
               /\ w.to = v.to /\ w.from = v.from /\ SameRest(v, w)
BY DEF SameWork, SameRest, CallSet

(* It may be given another FIL object, *)
LEMMA SetFp ==
  ASSUME NEW v \in CallSet, NEW x \in FilSet
  PROVE  LET w == [v EXCEPT !.fp = x]
         IN  w \in CallSet /\ w.fp = x /\ w.res = v.res /\ w.ret = v.ret
               /\ w.dp = v.dp /\ w.buf = v.buf /\ w.cnt = v.cnt /\ SameCard(v, w)
BY DEF SameCard, CallSet

(* Another DIR object, *)
LEMMA SetDp ==
  ASSUME NEW v \in CallSet, NEW x \in DirSet
  PROVE  LET w == [v EXCEPT !.dp = x]
         IN  w \in CallSet /\ w.dp = x /\ w.res = v.res /\ w.ret = v.ret
               /\ w.fp = v.fp /\ w.buf = v.buf /\ w.cnt = v.cnt /\ SameCard(v, w)
BY DEF SameCard, CallSet

(* Other bytes read, *)
LEMMA SetBuf ==
  ASSUME NEW v \in CallSet, NEW x \in Seq(Words \union EntrySet)
  PROVE  LET w == [v EXCEPT !.buf = x]
         IN  w \in CallSet /\ w.buf = x /\ w.res = v.res /\ w.ret = v.ret
               /\ w.fp = v.fp /\ w.dp = v.dp /\ w.cnt = v.cnt /\ SameCard(v, w)
BY DEF SameCard, CallSet

(* Or another count of bytes. *)
LEMMA SetCnt ==
  ASSUME NEW v \in CallSet, NEW x \in Nat
  PROVE  LET w == [v EXCEPT !.cnt = x]
         IN  w \in CallSet /\ w.cnt = x /\ w.res = v.res /\ w.ret = v.ret
               /\ w.fp = v.fp /\ w.dp = v.dp /\ w.buf = v.buf /\ SameCard(v, w)
BY DEF SameCard, CallSet

(* A write gives it another card, which a power loss may leave. *)
LEMMA SetDisk ==
  ASSUME NEW v \in CallSet, NEW x \in Cards
  PROVE  LET w == [[v EXCEPT !.disk = x] EXCEPT !.media = v.media \union {x}]
         IN  w \in CallSet /\ w.disk = x /\ w.fs = v.fs /\ w.res = v.res
               /\ w.to = v.to /\ w.from = v.from /\ SameRest(v, w)
<1> DEFINE u == [v EXCEPT !.disk = x]
           w == [u EXCEPT !.media = v.media \union {x}]
<1>1. /\ u \in CallSet /\ u.disk = x /\ u.fs = v.fs /\ u.res = v.res /\ u.media = v.media
      /\ u.to = v.to /\ u.from = v.from /\ SameRest(v, u)
  BY DEF SameWork, SameRest, CallSet
<1>2. v.media \union {x} \in SUBSET Cards
  BY DEF CallSet
<1> HIDE DEF u
<1>3. w \in CallSet /\ w.disk = u.disk /\ w.fs = u.fs /\ w.res = u.res
               /\ w.to = u.to /\ w.from = u.from /\ SameRest(u, w)
  BY <1>1, <1>2 DEF SameWork, SameRest, CallSet
<1>4. SameRest(v, w)
  BY <1>1, <1>3 DEF SameWork, SameRest
<1> QED
  BY <1>1, <1>3, <1>4 DEF u

(* Res, the end of a function with a result, changes the result only. *)
LEMMA ResKeeps ==
  ASSUME NEW v \in CallSet, NEW r \in Results
  PROVE  /\ Res(v, r) \in CallSet /\ Res(v, r).res = r
         /\ SameCard(v, Res(v, r)) /\ SameRest(v, Res(v, r))
BY SetRes DEF Res

(* So does OK, its successful end. *)
LEMMA OKKeeps ==
  ASSUME NEW v \in CallSet
  PROVE  /\ OK(v) \in CallSet /\ OK(v).res = "OK"
         /\ SameCard(v, OK(v)) /\ SameRest(v, OK(v))
BY ResKeeps, ResultsAre DEF OK

(* Ret gives back a cluster number. *)
LEMMA RetKeeps ==
  ASSUME NEW v \in CallSet, NEW c \in Nat
  PROVE  /\ Ret(v, c) \in CallSet /\ Ret(v, c).res = "OK" /\ Ret(v, c).ret = c
         /\ SameCard(v, Ret(v, c)) /\ SameWork(v, Ret(v, c))
<1> DEFINE u == [v EXCEPT !.ret = c]
           w == [u EXCEPT !.res = "OK"]
<1>1. u \in CallSet /\ u.ret = c /\ SameCard(v, u) /\ SameWork(v, u)
  BY SetRet
<1> HIDE DEF u
<1>2. w \in CallSet /\ w.res = "OK" /\ SameCard(u, w) /\ SameRest(u, w)
  BY <1>1, SetRes, ResultsAre
<1>3. Ret(v, c) = w
  BY Zenon DEF Ret, u
<1> HIDE DEF w
<1> QED
  BY <1>1, <1>2, <1>3 DEF SameCard, SameRest, SameWork

-----------------------------------------------------------------------------
(* The disk.                                                               *)
LEMMA NoFail ==
  ASSUME NEW v \in Steady(TRUE)
  PROVE  ~Fails(v)
BY DEF Steady, CallSet, Fails

(* Disk_read fails only where a transfer fails. *)
LEMMA DiskReadKeeps ==
  ASSUME NEW v \in CallSet, NEW s
  PROVE  LET w == DiskRead(v, s)
         IN  /\ w \in CallSet /\ SameCard(v, w) /\ SameRest(v, w)
             /\ w.res \in {"OK", "DISK_ERR"}
             /\ w.res # "OK" => Fails(v)
<1> DEFINE r == IF Fails(v) THEN "DISK_ERR" ELSE "OK"
           u == [v EXCEPT !.n = v.n + 1]
           w == [u EXCEPT !.res = r]
<1>1. DiskRead(v, s) = w
  BY Zenon DEF DiskRead
<1>2. r \in Results /\ r \in {"OK", "DISK_ERR"} /\ (r # "OK" => Fails(v))
  BY ResultsAre
<1>3. u \in CallSet /\ SameCard(v, u) /\ SameRest(v, u)
  <2>1. v.n + 1 \in Nat
    BY DEF CallSet
  <2> QED
    BY <2>1, SetN
<1> HIDE DEF r, u
<1>4. w \in CallSet /\ w.res = r /\ SameCard(u, w) /\ SameRest(u, w)
  BY <1>2, <1>3, SetRes
<1> HIDE DEF w
<1>5. SameCard(v, w) /\ SameRest(v, w)
  BY <1>3, <1>4 DEF SameCard, SameRest, SameWork
<1> QED
  BY <1>1, <1>2, <1>4, <1>5

(* So does disk_write, which changes the one sector. *)
LEMMA DiskWriteKeeps ==
  ASSUME NEW v \in CallSet, NEW s \in Sectors, NEW c \in Holds(s)
  PROVE  LET w == DiskWrite(v, s, c)
         IN  /\ w \in CallSet /\ w.fs = v.fs /\ w.to = v.to /\ w.from = v.from
             /\ SameRest(v, w) /\ w.res \in {"OK", "DISK_ERR"}
             /\ w.res # "OK" => Fails(v) /\ w.disk = v.disk
             /\ w.res = "OK" => w.disk = [v.disk EXCEPT ![s] = c]
<1> DEFINE d == [v.disk EXCEPT ![s] = c]
           u == [v EXCEPT !.n = v.n + 1]
           x == [[u EXCEPT !.disk = d] EXCEPT !.media = u.media \union {d}]
<1>1. d \in Cards
  <2>1. v.disk \in Cards
    BY DEF CallSet
  <2>2. c \in SectorSet
    BY DEF Holds, SectorSet
  <2>3. d \in [Sectors -> SectorSet]
    BY <2>1, <2>2 DEF Cards
  <2>4. \A t \in Sectors : d[t] \in Holds(t)
    BY <2>1 DEF Cards
  <2> QED
    BY <2>3, <2>4 DEF Cards
<1>2. u \in CallSet /\ SameCard(v, u) /\ SameRest(v, u) /\ u.media = v.media
  <2>1. v.n + 1 \in Nat
    BY DEF CallSet
  <2> QED
    BY <2>1, SetN
<1>3. CASE Fails(v)
  <2> DEFINE w == [u EXCEPT !.res = "DISK_ERR"]
  <2>1. DiskWrite(v, s, c) = w
    BY <1>3, Zenon DEF DiskWrite
  <2> HIDE DEF u
  <2>2. w \in CallSet /\ w.res = "DISK_ERR" /\ SameCard(u, w) /\ SameRest(u, w)
    BY <1>2, SetRes, ResultsAre
  <2> HIDE DEF w
  <2> QED
    BY <1>2, <1>3, <2>1, <2>2 DEF SameCard, SameRest, SameWork
<1>4. CASE ~Fails(v)
  <2> DEFINE w == [x EXCEPT !.res = "OK"]
  <2>1. DiskWrite(v, s, c) = w
    <3>1. DiskWrite(v, s, c) = [v EXCEPT !.n = v.n + 1, !.res = "OK", !.disk = d,
                                         !.media = v.media \union {d}]
      BY <1>4, Zenon DEF DiskWrite
    <3>2. @ = [v EXCEPT !.n = v.n + 1, !.disk = d, !.media = v.media \union {d}, !.res = "OK"]
      <4> HIDE DEF d
      <4> QED BY DEF CallSet
    <3>3. @ = w
      BY <1>2, Zenon
    <3> QED
      BY <3>1, <3>2, <3>3
  <2> HIDE DEF u, d
  <2>2. x \in CallSet /\ x.disk = d /\ x.fs = u.fs /\ x.to = u.to /\ x.from = u.from /\ SameRest(u, x)
    BY <1>1, <1>2, SetDisk
  <2> HIDE DEF x
  <2>3. w \in CallSet /\ w.res = "OK" /\ SameCard(x, w) /\ SameRest(x, w)
    BY <2>2, SetRes, ResultsAre
  <2> HIDE DEF w
  <2>4. w.disk = [v.disk EXCEPT ![s] = c]
    BY <2>2, <2>3 DEF d, SameCard
  <2> QED
    BY <1>2, <2>1, <2>2, <2>3, <2>4 DEF SameCard, SameRest, SameWork
<1> QED
  BY <1>3, <1>4

-----------------------------------------------------------------------------
(* The window.                                                             *)

(* Two cards whose FAT sectors are the same as the program sees them. *)
SameFat(v, w) == Fat(w.disk, w.fs) = Fat(v.disk, v.fs)
(* Two FATFS objects that differ in the window alone. *)
SameFs(f, g) == /\ g.last = f.last /\ g.free = f.free /\ g.fsi = f.fsi
                /\ g.cdir = f.cdir /\ g.id = f.id /\ g.type = f.type /\ g.reg = f.reg

(* A call that keeps the FAT and the count of free clusters keeps the      *)
(* count right.                                                            *)
LEMMA SameCount ==
  ASSUME NEW q \in BOOLEAN, NEW v \in Good(q), NEW w \in Steady(q),
         q => SameFat(v, w) /\ w.fs.free = v.fs.free
  PROVE  w \in Good(q)
BY DEF Good, Counted, SameFat

(* The FAT is the same where its sectors are, as the program sees them. *)
LEMMA SeenSame ==
  ASSUME NEW v \in CallSet, NEW w \in CallSet,
         \A s \in FatSects : Seen(w.disk, w.fs)[s] = Seen(v.disk, v.fs)[s]
  PROVE  SameFat(v, w)
<1>1. ASSUME NEW c \in ClusterNos
      PROVE  FatEntry(Seen(w.disk, w.fs), c) = FatEntry(Seen(v.disk, v.fs), c)
  <2>1. FatBase + c \div FatEntriesPerSector \in FatSects
    BY FatHasRoom
  <2> QED
    BY <2>1 DEF FatEntry
<1> QED
  BY <1>1 DEF SameFat, Fat

(* What the program sees of a sector. *)
LEMMA SeenIs ==
  ASSUME NEW v \in CallSet, NEW s \in Sectors
  PROVE  Seen(v.disk, v.fs)[s] = IF v.fs.wflag /\ s = v.fs.winsect THEN v.fs.win
                                 ELSE v.disk[s]
<1>1. v.disk \in [Sectors -> SectorSet] /\ (v.fs.wflag => v.fs.type # 0)
  BY DEF CallSet, Cards, Volumes, WindowHolds
<1> QED
  BY <1>1 DEF Seen

(* A window that was written is clean. *)
LEMMA WflagCleared ==
  ASSUME NEW f \in Volumes
  PROVE  LET g == [f EXCEPT !.wflag = FALSE]
         IN  /\ g \in Volumes /\ SameFs(f, g) /\ ~g.wflag
             /\ g.win = f.win /\ g.winsect = f.winsect
BY DEF Volumes, FsSet, WindowHolds, SameFs

(* Sync_window leaves the FAT as the program sees it, and with both copies *)
(* written when no transfer fails.                                         *)
LEMMA SyncWindowKeeps ==
  ASSUME NEW q \in BOOLEAN, NEW v \in Steady(q)
  PROVE  LET w == sync_window(v)
         IN  /\ w \in Steady(q) /\ SameRest(v, w) /\ w.res \in {"OK", "DISK_ERR"}
             /\ w.to = v.to /\ w.from = v.from
             /\ q => w.res = "OK"
             /\ SameFat(v, w)
             /\ w.res # "OK" => w.fs = v.fs
             /\ w.res = "OK" => w.fs = [v.fs EXCEPT !.wflag = FALSE]
<1> DEFINE w == sync_window(v)
           x == v.fs.winsect
           f == [v.fs EXCEPT !.wflag = FALSE]
<1>0. v \in CallSet /\ v.fs \in Volumes /\ v.disk \in Cards /\ v.fs.wflag \in BOOLEAN
  BY DEF Steady, CallSet, Volumes, FsSet
<1>1. CASE ~v.fs.wflag
  <2>1. w = OK(v)
    BY <1>1, Zenon DEF sync_window
  <2>2. f = v.fs
    BY <1>0, <1>1 DEF Volumes, FsSet
  <2>3. /\ OK(v) \in CallSet /\ OK(v).res = "OK" /\ SameCard(v, OK(v)) /\ SameRest(v, OK(v))
    BY <1>0, OKKeeps
  <2>4. OK(v) \in Steady(q)
    BY <1>0, <2>3, SameCardKeeps
  <2> QED
    BY <2>1, <2>2, <2>3, <2>4 DEF SameCard, SameFat
<1>2. CASE v.fs.wflag
  <2> DEFINE u == DiskWrite(v, x, v.fs.win)
             c == [u EXCEPT !.fs.wflag = FALSE]
  <2>1. x \in WinSects /\ x \in Sectors /\ v.fs.win \in Holds(x)
    BY <1>0, <1>2, AreasApart DEF Volumes, WindowHolds
  <2>2. /\ u \in CallSet /\ u.fs = v.fs /\ u.to = v.to /\ u.from = v.from
        /\ SameRest(v, u) /\ u.res \in {"OK", "DISK_ERR"}
        /\ u.res # "OK" => Fails(v) /\ u.disk = v.disk
        /\ u.res = "OK" => u.disk = [v.disk EXCEPT ![x] = v.fs.win]
    BY <1>0, <2>1, DiskWriteKeeps
  <2>3. CASE u.res # "OK"
    <3>1. w = u
      BY <1>2, <2>3, Zenon DEF sync_window, Then
    <3>2. SameCard(v, u)
      BY <2>2, <2>3 DEF SameCard
    <3>3. u \in Steady(q)
      BY <1>0, <2>2, <3>2, SameCardKeeps
    <3>4. ~q
      <4>1. q => v \in Steady(TRUE)
        OBVIOUS
      <4> QED
        BY <2>2, <2>3, <4>1, NoFail
    <3>5. SameFat(v, u)
      BY <3>2 DEF SameCard, SameFat
    <3> QED
      BY <2>2, <2>3, <3>1, <3>3, <3>4, <3>5
  <2>4. CASE u.res = "OK"
    <3> DEFINE e == [v.disk EXCEPT ![x] = v.fs.win]
    <3>1. c = [u EXCEPT !.fs = f]
      BY <2>2, Zenon
    <3>2. f \in Volumes /\ ~f.wflag /\ f.win = v.fs.win /\ f.winsect = x /\ SameFs(v.fs, f)
      BY <1>0, WflagCleared
    <3> HIDE DEF u, f
    <3>3. /\ c \in CallSet /\ c.fs = f /\ c.disk = e /\ c.res = "OK"
          /\ c.to = v.to /\ c.from = v.from /\ SameRest(u, c)
      <4>1. u \in CallSet /\ u.disk = e /\ u.res = "OK" /\ u.to = v.to /\ u.from = v.from
        BY <2>2, <2>4
      <4> HIDE DEF e
      <4> QED
        BY <4>1, <3>1, <3>2, SetFs
    <3> HIDE DEF c
    <3>4. SameRest(v, c)
      BY <2>2, <3>3 DEF SameRest, SameWork
    <3>5. e \in Cards
      BY <3>3 DEF CallSet
    <3>6. x \in Nat
      BY <2>1, AreasApart
    <3>7. CASE ~(InFat1(x) /\ FatCopies = 2)
      <4>1. w = c
        BY <1>2, <2>4, <3>2, <3>3, <3>7, Zenon DEF sync_window, Then, u, c, f
      <4>2. \A s \in FatSects : Seen(c.disk, c.fs)[s] = Seen(v.disk, v.fs)[s]
        <5>1. \A s \in FatSects : s \in Sectors
          BY AreasApart
        <5>2. \A s \in Sectors : e[s] = IF s = x THEN v.fs.win ELSE v.disk[s]
          BY <1>0 DEF Cards
        <5> HIDE DEF e
        <5>3. \A s \in Sectors : Seen(c.disk, c.fs)[s] = e[s]
          BY <3>2, <3>3, SeenIs
        <5>4. \A s \in Sectors : Seen(v.disk, v.fs)[s] = IF s = x THEN v.fs.win ELSE v.disk[s]
          BY <1>0, <1>2, SeenIs
        <5> QED
          BY <5>1, <5>2, <5>3, <5>4
      <4>3. q => Healthy(e, f)
        <5>1. q => FatCopiesSame(v.disk)
          BY DEF Steady, Healthy
        <5>2. FatCopies = 2 => \A s \in FatSects : /\ s # x /\ s + FatSize # x
                                                   /\ s \in Sectors /\ s + FatSize \in Sectors
          <6>1. FatCopies = 2 => x \notin FatSects
            BY <3>6, <3>7, LayoutIs DEF InFat1, FatSects
          <6> QED
            BY <2>1, <6>1, AreasApart
        <5>3. \A s \in Sectors : s # x => e[s] = v.disk[s]
          BY <1>0 DEF Cards
        <5>4. q => FatCopiesSame(e)
          BY <5>1, <5>2, <5>3 DEF FatCopiesSame, FatSects
        <5>5. Coherent(e, f)
          BY <1>0, <2>1, <3>2 DEF Coherent, Cards
        <5> QED
          BY <5>4, <5>5 DEF Healthy
      <4>4. c \in Steady(q)
        <5>1. f.type # 0 /\ f.reg
          BY <3>2 DEF Steady, SameFs
        <5>2. q => c.to = -1
          BY <3>3 DEF Steady
        <5> QED
          BY <3>3, <4>3, <5>1, <5>2 DEF Steady
      <4> QED
        BY <3>3, <3>4, <4>1, <4>2, <4>4, <1>0, SeenSame DEF f
    <3>8. CASE InFat1(x) /\ FatCopies = 2
      <4> DEFINE y == x + FatSize
                 z == DiskWrite(c, y, v.fs.win)
      <4>1. w = OK(z)
        BY <1>2, <2>4, <3>2, <3>3, <3>8, Zenon DEF sync_window, Then, u, c, f
      <4>2. x \in FatSects /\ y \in Sectors /\ y \notin FatSects /\ y \notin WinSects
        <5>1. x \in FatSects
          BY <3>6, <3>8, LayoutIs DEF InFat1, FatSects
        <5> QED
          BY <3>8, <5>1, AreasApart
      <4>3. Holds(y) = Holds(x)
        BY <3>8, <4>2, LayoutIs DEF Holds, FatSects
      <4>4. /\ z \in CallSet /\ z.fs = f /\ z.to = v.to /\ z.from = v.from
            /\ SameRest(c, z) /\ z.res \in {"OK", "DISK_ERR"}
            /\ z.res # "OK" => Fails(c) /\ z.disk = e
            /\ z.res = "OK" => z.disk = [e EXCEPT ![y] = v.fs.win]
        BY <2>1, <3>3, <4>2, <4>3, DiskWriteKeeps
      <4>5. q => ~Fails(c)
        BY <3>3 DEF Fails, CallSet, Steady
      <4>6. z.res = "OK" \/ z.disk = e
        BY <4>4
      <4> HIDE DEF z
      <4>7. \A s \in FatSects : Seen(z.disk, z.fs)[s] = Seen(v.disk, v.fs)[s]
        <5>1. \A s \in FatSects : s \in Sectors /\ s # y
          BY <4>2, AreasApart
        <5>2. \A s \in Sectors : e[s] = IF s = x THEN v.fs.win ELSE v.disk[s]
          BY <1>0 DEF Cards
        <5>3. \A s \in Sectors : s # y => z.disk[s] = e[s]
          BY <3>5, <4>4 DEF Cards
        <5> QED
          BY <1>0, <1>2, <3>2, <4>4, <5>1, <5>2, <5>3, SeenIs
      <4>8. q => Healthy(z.disk, f)
        <5>1. SUFFICES ASSUME q PROVE Healthy(z.disk, f)
          OBVIOUS
        <5>2. z.disk = [e EXCEPT ![y] = v.fs.win]
          BY <4>4, <4>5, <5>1
        <5>3. FatCopiesSame(v.disk)
          BY <5>1 DEF Steady, Healthy
        <5>4. \A s \in Sectors : z.disk[s] = IF s = y \/ s = x THEN v.fs.win ELSE v.disk[s]
          BY <1>0, <3>5, <5>2 DEF Cards
        <5>5. \A s \in FatSects : /\ s # y /\ s + FatSize # x /\ (s + FatSize = y <=> s = x)
                                  /\ s \in Sectors /\ s + FatSize \in Sectors
          <6>1. \A s \in FatSects : s \in Nat
            BY LayoutIs DEF FatSects
          <6> QED
            BY <2>1, <3>6, <3>8, <4>2, <6>1, LayoutIs, AreasApart
        <5>6. FatCopiesSame(z.disk)
          BY <5>3, <5>4, <5>5 DEF FatCopiesSame, FatSects
        <5>7. Coherent(z.disk, f)
          BY <2>1, <3>2, <5>4 DEF Coherent
        <5> QED
          BY <5>6, <5>7 DEF Healthy
      <4>9. /\ OK(z) \in CallSet /\ OK(z).res = "OK" /\ SameCard(z, OK(z)) /\ SameRest(z, OK(z))
        BY <4>4, OKKeeps
      <4>10. OK(z) \in Steady(q)
        <5>1. f.type # 0 /\ f.reg
          BY <3>2 DEF Steady, SameFs
        <5>2. (q => OK(z).to = -1) /\ OK(z).fs = f /\ OK(z).disk = z.disk
          BY <4>4, <4>9 DEF Steady, SameCard
        <5> QED
          BY <4>8, <4>9, <5>1, <5>2 DEF Steady
      <4>11. SameRest(v, OK(z)) /\ SameFat(v, OK(z))
        <5>1. SameFat(v, z)
          BY <1>0, <4>4, <4>7, SeenSame
        <5> QED
          BY <3>4, <4>4, <4>9, <5>1 DEF SameRest, SameWork, SameFat, SameCard
      <4> QED
        BY <4>1, <4>4, <4>9, <4>10, <4>11 DEF SameCard, f
    <3> QED
      BY <3>7, <3>8
  <2> QED
    BY <2>3, <2>4
<1> QED
  BY <1>0, <1>1, <1>2

(* w has the FAT that v has, and the numbers of its FATFS object. *)
Calm(q, v, w) == /\ w \in Steady(q) /\ SameFat(v, w) /\ SameFs(v.fs, w.fs)
                 /\ w.to = v.to /\ w.from = v.from

(* A function that leaves the FAT and the numbers of the FATFS object      *)
(* alone keeps the count right,                                            *)
LEMMA CalmKeepsGood ==
  ASSUME NEW q \in BOOLEAN, NEW v \in Good(q), NEW w, Calm(q, v, w)
  PROVE  w \in Good(q)
BY SameCount DEF Calm, SameFs

(* And so do two in a row. *)
LEMMA CalmThenCalm ==
  ASSUME NEW q \in BOOLEAN, NEW v, NEW w, NEW u, Calm(q, v, w), Calm(q, w, u)
  PROVE  Calm(q, v, u)
BY DEF Calm, SameFat, SameFs

(* One that leaves the card and the FATFS object alone is one of them, *)
LEMMA SameCardIsCalm ==
  ASSUME NEW q \in BOOLEAN, NEW v \in Steady(q), NEW w \in CallSet, SameCard(v, w)
  PROVE  Calm(q, v, w)
BY SameCardKeeps DEF Calm, SameFat, SameFs, SameCard

(* And sync_window is. *)
LEMMA SyncWindowCalm ==
  ASSUME NEW q \in BOOLEAN, NEW v \in Steady(q)
  PROVE  Calm(q, v, sync_window(v))
<1> DEFINE w == sync_window(v)
<1>1. w \in Steady(q) /\ SameFat(v, w) /\ w.to = v.to /\ w.from = v.from
  BY SyncWindowKeeps
<1>2. w.fs = v.fs \/ w.fs = [v.fs EXCEPT !.wflag = FALSE]
  BY SyncWindowKeeps
<1>3. v.fs \in Volumes
  BY DEF Steady, CallSet
<1>4. SameFs(v.fs, w.fs)
  <2> HIDE DEF w
  <2> QED BY <1>2, <1>3, WflagCleared DEF SameFs
<1> QED
  BY <1>1, <1>4 DEF Calm

(* A sector that is not of the FAT comes into the window, or changes in it.*)
LEMMA WindowElsewhere ==
  ASSUME NEW v \in CallSet, NEW w \in CallSet, w.disk = v.disk,
         v.fs.wflag => v.fs.winsect \notin FatSects,
         w.fs.wflag => w.fs.winsect \notin FatSects
  PROVE  SameFat(v, w)
<1>1. \A s \in FatSects : s \in Sectors
  BY AreasApart
<1>2. \A s \in FatSects : Seen(w.disk, w.fs)[s] = Seen(v.disk, v.fs)[s]
  BY <1>1, SeenIs
<1> QED
  BY <1>2, SeenSame

(* A clean window may be given what a sector holds. *)
LEMMA WindowLoaded ==
  ASSUME NEW f \in Volumes, ~f.wflag, NEW s \in WinSects \union {NOSECT}, NEW c \in SectorSet,
         s \in WinSects => c \in Holds(s)
  PROVE  LET g == [[f EXCEPT !.win = c] EXCEPT !.winsect = s]
         IN  g \in Volumes /\ SameFs(f, g) /\ g.win = c /\ g.winsect = s /\ ~g.wflag
BY DEF Volumes, FsSet, WindowHolds, SameFs

(* A window that no sector is in holds nothing false. *)
LEMMA WindowLost ==
  ASSUME NEW f \in Volumes, ~f.wflag
  PROVE  LET g == [f EXCEPT !.winsect = NOSECT]
         IN  g \in Volumes /\ SameFs(f, g) /\ g.winsect = NOSECT /\ ~g.wflag
<1>1. NOSECT \notin WinSects
  BY AreasApart DEF NOSECT
<1> QED
  BY <1>1 DEF Volumes, FsSet, WindowHolds, SameFs

(* Move_window changes neither the FAT nor the numbers, and on success     *)
(* holds the sector asked for.                                             *)
LEMMA MoveWindowKeeps ==
  ASSUME NEW q \in BOOLEAN, NEW v \in Steady(q), NEW s \in WinSects
  PROVE  LET w == move_window(v, s)
         IN  /\ Calm(q, v, w) /\ SameRest(v, w) /\ w.res \in {"OK", "DISK_ERR"}
             /\ q => w.res = "OK"
             /\ w.res = "OK" => w.fs.winsect = s
<1> DEFINE w == sync_window(v)
           r == DiskRead(w, s)
<1>0. v \in CallSet
  BY DEF Steady
<1>1. CASE s = v.fs.winsect
  <2>1. move_window(v, s) = OK(v)
    BY <1>1, Zenon DEF move_window
  <2>2. OK(v) \in CallSet /\ OK(v).res = "OK" /\ SameCard(v, OK(v)) /\ SameRest(v, OK(v))
    BY <1>0, OKKeeps
  <2>3. Calm(q, v, OK(v))
    BY <2>2, SameCardIsCalm
  <2> QED
    BY <1>1, <2>1, <2>2, <2>3 DEF SameCard
<1>2. CASE s # v.fs.winsect
  <2>1. Calm(q, v, w)
    BY SyncWindowCalm
  <2>2. /\ w \in Steady(q) /\ SameRest(v, w) /\ w.res \in {"OK", "DISK_ERR"} /\ (q => w.res = "OK")
        /\ w.res = "OK" => w.fs = [v.fs EXCEPT !.wflag = FALSE]
    BY SyncWindowKeeps
  <2> HIDE DEF w
  <2>3. CASE w.res # "OK"
    <3>1. move_window(v, s) = w
      BY <1>2, <2>3, Zenon DEF move_window, Then, w
    <3> QED
      BY <2>1, <2>2, <2>3, <3>1
  <2>4. CASE w.res = "OK"
    <3>0. v.fs \in Volumes /\ w \in CallSet /\ w.fs \in Volumes /\ w.disk \in Cards
      BY <1>0, <2>2 DEF Steady, CallSet
    <3>1. ~w.fs.wflag
      BY <2>2, <2>4, <3>0, WflagCleared
    <3>2. /\ r \in CallSet /\ SameCard(w, r) /\ SameRest(w, r) /\ r.res \in {"OK", "DISK_ERR"}
          /\ r.res # "OK" => Fails(w)
      BY <3>0, DiskReadKeeps
    <3>3. Calm(q, w, r)
      BY <2>2, <3>2, SameCardIsCalm
    <3>4. Calm(q, v, r) /\ SameRest(v, r)
      BY <2>1, <2>2, <3>2, <3>3, CalmThenCalm DEF SameRest, SameWork
    <3>5. r.fs = w.fs /\ r.disk = w.disk /\ r \in Steady(q)
      BY <3>2, <3>3 DEF SameCard, Calm
    <3> DEFINE x == r.fs
               u == IF r.res = "OK" THEN [[x EXCEPT !.win = r.disk[s]] EXCEPT !.winsect = s]
                    ELSE [x EXCEPT !.winsect = NOSECT]
               z == [r EXCEPT !.fs = u]
    <3>6. move_window(v, s) = z
      <4>1. move_window(v, s) = IF r.res = "OK"
                THEN [r EXCEPT !.fs.win = r.disk[s], !.fs.winsect = s]
                ELSE [r EXCEPT !.fs.winsect = NOSECT]
        BY <1>2, <2>4, Zenon DEF move_window, Then, With, w
      <4>2. [r EXCEPT !.fs.win = r.disk[s], !.fs.winsect = s]
               = [r EXCEPT !.fs = [[x EXCEPT !.win = r.disk[s]] EXCEPT !.winsect = s]]
        BY <3>2 DEF CallSet
      <4>3. [r EXCEPT !.fs.winsect = NOSECT] = [r EXCEPT !.fs = [x EXCEPT !.winsect = NOSECT]]
        BY Zenon
      <4> QED
        BY <4>1, <4>2, <4>3
    <3>7. u \in Volumes /\ SameFs(x, u) /\ ~u.wflag
          /\ (r.res = "OK" => u.win = r.disk[s] /\ u.winsect = s)
          /\ (r.res # "OK" => u.winsect = NOSECT)
      <4>1. r.disk[s] \in SectorSet /\ r.disk[s] \in Holds(s)
        BY <3>0, <3>5, AreasApart DEF Cards
      <4>2. x \in Volumes /\ ~x.wflag
        BY <3>0, <3>1, <3>5
      <4> HIDE DEF x
      <4> DEFINE g == [[x EXCEPT !.win = r.disk[s]] EXCEPT !.winsect = s]
                 h == [x EXCEPT !.winsect = NOSECT]
      <4>3. g \in Volumes /\ SameFs(x, g) /\ g.win = r.disk[s] /\ g.winsect = s /\ ~g.wflag
        <5> DEFINE c == r.disk[s]
        <5>1. s \in WinSects \union {NOSECT} /\ c \in SectorSet /\ (s \in WinSects => c \in Holds(s))
          BY <4>1
        <5> HIDE DEF c
        <5>2. LET y == [[x EXCEPT !.win = c] EXCEPT !.winsect = s]
              IN  y \in Volumes /\ SameFs(x, y) /\ y.win = c /\ y.winsect = s /\ ~y.wflag
          BY <4>2, <5>1, WindowLoaded
        <5> QED
          BY <5>2 DEF c
      <4>4. h \in Volumes /\ SameFs(x, h) /\ h.winsect = NOSECT /\ ~h.wflag
        BY <4>2, WindowLost
      <4>5. u = IF r.res = "OK" THEN g ELSE h
        BY Zenon DEF u
      <4> HIDE DEF g, h, u
      <4> QED
        BY <4>3, <4>4, <4>5
    <3> HIDE DEF r, u
    <3>8. z \in CallSet /\ z.fs = u /\ z.disk = r.disk /\ z.res = r.res
               /\ z.to = r.to /\ z.from = r.from /\ SameRest(r, z)
      BY <3>2, <3>7, SetFs
    <3> HIDE DEF z
    <3>9. SameFat(r, z)
      <4>1. r.fs.wflag = FALSE
        BY <3>1, <3>5, <3>0 DEF Volumes, FsSet
      <4>2. z.fs.wflag = FALSE /\ z.disk = r.disk /\ z \in CallSet
        BY <3>7, <3>8 DEF Volumes, FsSet
      <4>3. r \in CallSet
        BY <3>2
      <4> QED
        BY <4>1, <4>2, <4>3, WindowElsewhere
    <3>10. z \in Steady(q)
      <4>1. z.fs.type # 0 /\ z.fs.reg /\ (q => z.to = -1 /\ FatCopiesSame(z.disk))
        BY <3>5, <3>7, <3>8 DEF Steady, SameFs, Healthy
      <4>2. q => Coherent(z.disk, z.fs)
        <5>1. NOSECT \notin FatSects
          BY AreasApart DEF NOSECT
        <5> QED
          BY <3>7, <3>8, <5>1 DEF Coherent
      <4> QED
        BY <3>8, <4>1, <4>2 DEF Steady, Healthy
    <3>11. Calm(q, v, z) /\ SameRest(v, z)
      <4>1. Calm(q, r, z)
        BY <3>7, <3>8, <3>9, <3>10 DEF Calm
      <4> QED
        BY <3>4, <3>8, <4>1, CalmThenCalm DEF SameRest, SameWork
    <3>12. q => r.res = "OK"
      <4>1. q => w \in Steady(TRUE)
        BY <2>2
      <4> QED
        BY <3>2, <4>1, NoFail
    <3> QED
      BY <3>2, <3>6, <3>7, <3>8, <3>11, <3>12
  <2> QED
    BY <2>3, <2>4
<1> QED
  BY <1>1, <1>2

(* A change of the window where it holds a sector of a table or a file. *)
LEMMA WindowChanged ==
  ASSUME NEW f \in Volumes, f.type # 0, f.winsect \in WinSects, NEW c \in Holds(f.winsect)
  PROVE  LET g == [[f EXCEPT !.win = c] EXCEPT !.wflag = TRUE]
         IN  g \in Volumes /\ SameFs(f, g) /\ g.win = c /\ g.winsect = f.winsect /\ g.wflag
<1>1. c \in SectorSet
  BY DEF Holds, SectorSet
<1> QED
  BY <1>1 DEF Volumes, FsSet, WindowHolds, SameFs

(* A change of the window makes it one to be written. *)
LEMMA SetWinIs ==
  ASSUME NEW v \in CallSet, v.fs.type # 0, v.fs.winsect \in WinSects,
         NEW c \in Holds(v.fs.winsect)
  PROVE  LET w == SetWin(v, c)
         IN  /\ w \in CallSet /\ w.disk = v.disk /\ w.res = v.res /\ w.to = v.to /\ w.from = v.from
             /\ SameRest(v, w) /\ SameFs(v.fs, w.fs) /\ w.fs.win = c
             /\ w.fs.winsect = v.fs.winsect /\ w.fs.wflag
<1> DEFINE f == v.fs
           g == [[f EXCEPT !.win = c] EXCEPT !.wflag = TRUE]
           z == [v EXCEPT !.fs = g]
<1>1. SetWin(v, c) = z
  BY DEF SetWin, CallSet
<1>2. v.fs \in Volumes
  BY DEF CallSet
<1>3. g \in Volumes /\ SameFs(f, g) /\ g.win = c /\ g.winsect = f.winsect /\ g.wflag
  BY <1>2, WindowChanged
<1> HIDE DEF g
<1>4. z \in CallSet /\ z.fs = g /\ z.disk = v.disk /\ z.res = v.res
               /\ z.to = v.to /\ z.from = v.from /\ SameRest(v, z)
  BY <1>3, SetFs
<1> HIDE DEF z
<1> QED
  BY <1>1, <1>3, <1>4

(* A change of a table's or a file's sector in the window leaves the FAT   *)
(* alone.                                                                  *)
LEMMA SetWinKeeps ==
  ASSUME NEW q \in BOOLEAN, NEW v \in Steady(q), v.fs.winsect \in TableArea, NEW c \in TableSet
  PROVE  LET w == SetWin(v, c)
         IN  /\ Calm(q, v, w) /\ SameRest(v, w) /\ w.res = v.res
             /\ w.fs.winsect = v.fs.winsect /\ w.fs.win = c
<1> DEFINE w == SetWin(v, c)
<1>1. v \in CallSet /\ v.fs.type # 0 /\ v.fs.reg
  BY DEF Steady
<1>2. v.fs.winsect \in WinSects /\ v.fs.winsect \notin FatSects /\ c \in Holds(v.fs.winsect)
  <2>1. v.fs.winsect >= RootSect /\ v.fs.winsect # 0 /\ v.fs.winsect \in Nat
    BY AreasApart
  <2> QED
    BY <2>1, AreasApart, LayoutIs DEF Holds
<1>3. /\ w \in CallSet /\ w.disk = v.disk /\ w.res = v.res /\ w.to = v.to /\ w.from = v.from
      /\ SameRest(v, w) /\ SameFs(v.fs, w.fs) /\ w.fs.win = c
      /\ w.fs.winsect = v.fs.winsect /\ w.fs.wflag
  BY <1>1, <1>2, SetWinIs
<1> HIDE DEF w
<1>4. SameFat(v, w)
  BY <1>1, <1>2, <1>3, WindowElsewhere
<1>5. w \in Steady(q)
  BY <1>1, <1>3 DEF Steady, Healthy, Coherent, SameFs
<1>6. Calm(q, v, w)
  BY <1>3, <1>4, <1>5 DEF Calm
<1> QED
  BY <1>3, <1>6 DEF w

-----------------------------------------------------------------------------
(* The FAT.                                                                *)

(* An entry's place in the FAT is its own. *)
LEMMA EntryPlace ==
  ASSUME NEW c \in Nat, NEW d \in Nat,
         c \div FatEntriesPerSector = d \div FatEntriesPerSector,
         c % FatEntriesPerSector = d % FatEntriesPerSector
  PROVE  c = d
<1> DEFINE N == FatEntriesPerSector
<1>1. N \in Nat /\ N >= 1
  BY GeometryAssumption
<1> HIDE DEF N
<1>2. c = N * (c \div N) + (c % N) /\ d = N * (d \div N) + (d % N)
  BY <1>1
<1> QED
  BY <1>2 DEF N

(* The window is in the FAT, and what the program sees of that sector. *)
LEMMA SeenInWindow ==
  ASSUME NEW q \in BOOLEAN, NEW v \in Steady(q), v.fs.winsect \in FatSects
  PROVE  /\ v.fs.win \in FatSet
         /\ q => Seen(v.disk, v.fs)[v.fs.winsect] = v.fs.win
<1> DEFINE s == v.fs.winsect
<1>1. v \in CallSet /\ v.fs \in Volumes /\ v.fs.type # 0
  BY DEF Steady, CallSet
<1>2. s \in WinSects /\ s \in Sectors /\ s \notin TableArea /\ Holds(s) = FatSet
  <2>0. s \in FatSects
    OBVIOUS
  <2> HIDE DEF s
  <2>1. s \in Nat /\ s # 0 /\ s >= FatBase /\ s < RootSect
    BY <2>0, LayoutIs DEF FatSects
  <2>2. Holds(s) = FatSet
    BY <2>1, LayoutIs DEF Holds
  <2> QED
    BY <2>0, <2>1, <2>2, AreasApart
<1>3. v.fs.win \in FatSet
  BY <1>1, <1>2 DEF Volumes, WindowHolds
<1>4. Seen(v.disk, v.fs)[s] = IF v.fs.wflag /\ s = v.fs.winsect THEN v.fs.win ELSE v.disk[s]
  BY <1>1, <1>2, SeenIs
<1>5. q => (~v.fs.wflag => v.fs.win = v.disk[s])
  BY DEF Steady, Healthy, Coherent
<1> QED
  BY <1>3, <1>4, <1>5

(* Get_fat answers what the FAT holds, 1 for a number that is no cluster,  *)
(* and 0xFFFFFFFF only when a transfer failed.                             *)
LEMMA GetFatKeeps ==
  ASSUME NEW q \in BOOLEAN, NEW v \in Steady(q), NEW c \in Int
  PROVE  LET w == get_fat(v, c)
         IN  /\ Calm(q, v, w) /\ SameWork(v, w) /\ w.res = "OK"
             /\ w.ret \in FatValues \union {1, DISKERR}
             /\ c \notin RealClusters => w.ret = 1
             /\ c \in RealClusters => w.ret # 1
             /\ q /\ c \in RealClusters => w.ret = Fat(v.disk, v.fs)[c]
             /\ q => w.ret # DISKERR
<1>0. v \in CallSet /\ DISKERR \in Nat /\ DISKERR > EOC /\ EOC > NFatEnt /\ EOC \in Nat
      /\ FatValues \union {1, DISKERR} \subseteq Nat /\ DISKERR \notin FatValues /\ 1 \notin FatValues
  BY LayoutIs DEF Steady, DISKERR, EOC, FatValues, RealClusters
<1>1. CASE c \notin RealClusters
  <2>1. get_fat(v, c) = Ret(v, 1)
    BY <1>1, LayoutIs DEF get_fat, RealClusters
  <2>2. Ret(v, 1) \in CallSet /\ Ret(v, 1).res = "OK" /\ Ret(v, 1).ret = 1
         /\ SameCard(v, Ret(v, 1)) /\ SameWork(v, Ret(v, 1))
    BY <1>0, RetKeeps
  <2>3. Calm(q, v, Ret(v, 1))
    BY <2>2, SameCardIsCalm
  <2> HIDE DEF Ret
  <2>4. 1 # DISKERR
    BY <1>0, LayoutIs
  <2> QED
    BY <1>1, <2>1, <2>2, <2>3, <2>4
<1>2. CASE c \in RealClusters
  <2> DEFINE s == FatBase + c \div FatEntriesPerSector
             i == c % FatEntriesPerSector
             m == move_window(v, s)
             x == IF m.res = "OK" THEN m.fs.win.e[i] ELSE DISKERR
             w == Ret(m, x)
  <2>0. c \in ClusterNos
    BY <1>2, LayoutIs DEF RealClusters, ClusterNos
  <2>1. s \in FatSects /\ s \in WinSects /\ i \in 0 .. FatEntriesPerSector - 1
    BY <2>0, FatHasRoom, AreasApart
  <2>2. get_fat(v, c) = w
    <3>1. ~(c < 2 \/ c >= NFatEnt)
      BY <1>2, LayoutIs DEF RealClusters
    <3> QED
      BY <3>1, Zenon DEF get_fat, With
  <2>3. /\ Calm(q, v, m) /\ SameRest(v, m) /\ m.res \in {"OK", "DISK_ERR"}
        /\ q => m.res = "OK"
        /\ m.res = "OK" => m.fs.winsect = s
    BY <2>1, MoveWindowKeeps
  <2> HIDE DEF m
  <2>4. m \in Steady(q) /\ m \in CallSet
    BY <2>3 DEF Calm, Steady
  <2>5. m.res = "OK" => m.fs.win \in FatSet /\ (q => Seen(m.disk, m.fs)[s] = m.fs.win)
    BY <2>1, <2>3, <2>4, SeenInWindow
  <2>6. x \in FatValues \union {DISKERR} /\ (q => x # DISKERR)
    <3>1. m.res = "OK" => m.fs.win.e[i] \in FatValues
      BY <2>1, <2>5 DEF FatSet
    <3> QED
      BY <1>0, <2>3, <3>1
  <2>7. q => x = Fat(v.disk, v.fs)[c]
    <3>1. q => m.fs.win.e[i] = FatEntry(Seen(m.disk, m.fs), c)
      BY <2>3, <2>5 DEF FatEntry
    <3>2. Fat(m.disk, m.fs) = Fat(v.disk, v.fs)
      BY <2>3 DEF Calm, SameFat
    <3>3. Fat(m.disk, m.fs)[c] = FatEntry(Seen(m.disk, m.fs), c)
      BY <2>0 DEF Fat
    <3> HIDE DEF s, i
    <3> QED
      BY <2>3, <3>1, <3>2, <3>3
  <2> HIDE DEF x
  <2>8. w \in CallSet /\ w.res = "OK" /\ w.ret = x /\ SameCard(m, w) /\ SameWork(m, w)
    BY <1>0, <2>4, <2>6, RetKeeps
  <2> HIDE DEF w
  <2>9. Calm(q, v, w)
    <3>1. Calm(q, m, w)
      BY <2>4, <2>8, SameCardIsCalm
    <3> QED
      BY <2>3, <3>1, CalmThenCalm
  <2>10. SameWork(v, w)
    BY <2>3, <2>8 DEF SameRest, SameWork
  <2>11. x # 1
    BY <1>0, <2>6, LayoutIs DEF DISKERR
  <2> QED
    BY <1>2, <2>2, <2>6, <2>7, <2>8, <2>9, <2>10, <2>11
<1> QED
  BY <1>1, <1>2

(* Two cards with the same numbers, and the FAT of w is g. *)
Entered(q, v, w) == /\ w \in Steady(q) /\ SameFs(v.fs, w.fs)
                    /\ w.to = v.to /\ w.from = v.from

(* Every entry of the FAT is free, the number of a cluster, or an end      *)
(* mark.                                                                   *)
LEMMA FatTyped ==
  ASSUME NEW v \in CallSet, v.fs.type # 0
  PROVE  Fat(v.disk, v.fs) \in [ClusterNos -> FatValues]
<1>1. ASSUME NEW c \in ClusterNos
      PROVE  FatEntry(Seen(v.disk, v.fs), c) \in FatValues
  <2> DEFINE s == FatBase + c \div FatEntriesPerSector
  <2>1. s \in FatSects /\ s \in Sectors /\ c % FatEntriesPerSector \in 0 .. FatEntriesPerSector - 1
    BY FatHasRoom, AreasApart
  <2>2. Holds(s) = FatSet
    <3> HIDE DEF s
    <3>1. s \in Nat /\ s # 0 /\ s >= FatBase /\ s < RootSect
      BY <2>1, LayoutIs DEF FatSects
    <3> QED
      BY <3>1, LayoutIs DEF Holds
  <2>3. v.disk[s] \in Holds(s) /\ (v.fs.wflag /\ s = v.fs.winsect => v.fs.win \in Holds(s))
    BY <2>1 DEF CallSet, Cards, Volumes, WindowHolds
  <2>4. Seen(v.disk, v.fs)[s] \in FatSet
    <3>1. Seen(v.disk, v.fs)[s] = IF v.fs.wflag /\ s = v.fs.winsect THEN v.fs.win ELSE v.disk[s]
      BY <2>1, SeenIs
    <3> HIDE DEF s
    <3> QED
      BY <2>2, <2>3, <3>1
  <2>5. Seen(v.disk, v.fs)[s].e[c % FatEntriesPerSector] \in FatValues
    <3> HIDE DEF s
    <3> QED
      BY <2>1, <2>4 DEF FatSet
  <2> QED
    BY <2>5 DEF FatEntry
<1> QED
  BY <1>1 DEF Fat

(* Put_fat changes the one entry of the FAT that the program sees. *)
LEMMA PutFatKeeps ==
  ASSUME NEW q \in BOOLEAN, NEW v \in Steady(q), NEW c \in Int, NEW x \in FatValues
  PROVE  LET w == put_fat(v, c, x)
         IN  /\ Entered(q, v, w) /\ SameRest(v, w) /\ w.res \in {"OK", "DISK_ERR", "INT_ERR"}
             /\ c \notin RealClusters => w.res = "INT_ERR" /\ SameFat(v, w)
             /\ q /\ c \in RealClusters =>
                  /\ w.res = "OK"
                  /\ Fat(w.disk, w.fs) = [Fat(v.disk, v.fs) EXCEPT ![c] = x]
<1>0. v \in CallSet
  BY DEF Steady
<1>1. CASE c \notin RealClusters
  <2> DEFINE w == Res(v, "INT_ERR")
  <2>1. put_fat(v, c, x) = w
    BY <1>1, LayoutIs DEF put_fat, RealClusters
  <2>2. w \in CallSet /\ w.res = "INT_ERR" /\ SameCard(v, w) /\ SameRest(v, w)
    BY <1>0, ResKeeps, ResultsAre
  <2> HIDE DEF w
  <2>3. Calm(q, v, w)
    BY <2>2, SameCardIsCalm
  <2> QED
    BY <1>1, <2>1, <2>2, <2>3 DEF Calm, Entered
<1>2. CASE c \in RealClusters
  <2> DEFINE s == FatBase + c \div FatEntriesPerSector
             i == c % FatEntriesPerSector
             m == move_window(v, s)
             y == [m.fs.win EXCEPT !.e[i] = x]
             w == SetWin(m, y)
  <2>0. c \in ClusterNos
    BY <1>2, LayoutIs DEF RealClusters, ClusterNos
  <2>1. s \in FatSects /\ s \in WinSects /\ s \in Sectors /\ i \in 0 .. FatEntriesPerSector - 1
    BY <2>0, FatHasRoom, AreasApart
  <2>2. put_fat(v, c, x) = IF m.res = "OK" THEN w ELSE m
    <3>1. ~(c < 2 \/ c >= NFatEnt)
      BY <1>2, LayoutIs DEF RealClusters
    <3> QED
      BY <3>1, Zenon DEF put_fat, Then
  <2>3. /\ Calm(q, v, m) /\ SameRest(v, m) /\ m.res \in {"OK", "DISK_ERR"}
        /\ q => m.res = "OK"
        /\ m.res = "OK" => m.fs.winsect = s
    BY <2>1, MoveWindowKeeps
  <2> HIDE DEF m
  <2>4. m \in Steady(q) /\ m \in CallSet
    BY <2>3 DEF Calm, Steady
  <2>5. CASE m.res # "OK"
    BY <1>2, <2>2, <2>3, <2>5 DEF Calm, Entered
  <2>6. CASE m.res = "OK"
    <3>1. m.fs.win \in FatSet /\ (q => Seen(m.disk, m.fs)[s] = m.fs.win)
      BY <2>1, <2>3, <2>4, <2>6, SeenInWindow
    <3>2. y \in FatSet /\ \A j \in 0 .. FatEntriesPerSector - 1 :
                             y.e[j] = IF j = i THEN x ELSE m.fs.win.e[j]
      <4> DEFINE b == m.fs.win
      <4>1. b \in FatSet
        BY <3>1
      <4> HIDE DEF b, i
      <4>2. [b EXCEPT !.e[i] = x] \in FatSet /\ \A j \in 0 .. FatEntriesPerSector - 1 :
                             [b EXCEPT !.e[i] = x].e[j] = IF j = i THEN x ELSE b.e[j]
        BY <2>1, <4>1 DEF FatSet
      <4> QED
        BY <4>2 DEF b
    <3>3. Holds(s) = FatSet
      <4> HIDE DEF s
      <4>1. s \in Nat /\ s # 0 /\ s >= FatBase /\ s < RootSect
        BY <2>1, LayoutIs DEF FatSects
      <4> QED
        BY <4>1, LayoutIs DEF Holds
    <3> HIDE DEF y
    <3>4. /\ w \in CallSet /\ w.disk = m.disk /\ w.res = m.res /\ w.to = m.to /\ w.from = m.from
          /\ SameRest(m, w) /\ SameFs(m.fs, w.fs) /\ w.fs.win = y
          /\ w.fs.winsect = s /\ w.fs.wflag
      <4>1. m.fs.type # 0 /\ m.fs.winsect \in WinSects /\ y \in Holds(m.fs.winsect)
        BY <2>1, <2>3, <2>4, <2>6, <3>2, <3>3 DEF Steady
      <4> QED
        BY <2>3, <2>4, <2>6, <4>1, SetWinIs
    <3> HIDE DEF w
    <3>5. w \in Steady(q)
      <4>1. w.fs.type # 0 /\ w.fs.reg /\ (q => w.to = -1 /\ FatCopiesSame(w.disk))
        BY <2>4, <3>4 DEF Steady, SameFs, Healthy
      <4> QED
        BY <3>4, <4>1 DEF Steady, Healthy, Coherent
    <3>6. q => Fat(w.disk, w.fs) = [Fat(v.disk, v.fs) EXCEPT ![c] = x]
      <4>1. SUFFICES ASSUME q PROVE Fat(w.disk, w.fs) = [Fat(v.disk, v.fs) EXCEPT ![c] = x]
        OBVIOUS
      <4> DEFINE f == Fat(m.disk, m.fs)
                 g == Fat(w.disk, w.fs)
      <4>2. f = Fat(v.disk, v.fs)
        BY <2>3 DEF Calm, SameFat
      <4>3. ASSUME NEW d \in ClusterNos
            PROVE  g[d] = IF d = c THEN x ELSE f[d]
        <5> DEFINE t == FatBase + d \div FatEntriesPerSector
                   j == d % FatEntriesPerSector
        <5>1. t \in FatSects /\ t \in Sectors /\ j \in 0 .. FatEntriesPerSector - 1
          BY FatHasRoom, AreasApart
        <5>2. g[d] = Seen(w.disk, w.fs)[t].e[j] /\ f[d] = Seen(m.disk, m.fs)[t].e[j]
          BY DEF Fat, FatEntry
        <5>3. Seen(w.disk, w.fs)[t] = IF t = s THEN y ELSE m.disk[t]
          BY <3>4, <5>1, SeenIs
        <5>4. t # s => Seen(m.disk, m.fs)[t] = m.disk[t]
          BY <2>3, <2>4, <2>6, <5>1, SeenIs
        <5>5. t = s /\ j = i => d = c
          <6>1. d \in Nat /\ c \in Nat /\ c \div FatEntriesPerSector \in Int /\ d \div FatEntriesPerSector \in Int
            BY <1>2, LayoutIs, GeometryAssumption DEF RealClusters, ClusterNos
          <6>2. t = s => c \div FatEntriesPerSector = d \div FatEntriesPerSector
            BY <6>1, LayoutIs
          <6> QED
            BY <6>1, <6>2, EntryPlace
        <5>6. d = c => t = s /\ j = i
          OBVIOUS
        <5> HIDE DEF t, j, f, g, s, i
        <5>7. CASE t # s
          BY <5>2, <5>3, <5>4, <5>6, <5>7
        <5>8. CASE t = s
          BY <3>1, <3>2, <4>1, <5>1, <5>2, <5>3, <5>5, <5>6, <5>8
        <5> QED
          BY <5>7, <5>8
      <4>4. f \in [ClusterNos -> FatValues] /\ g \in [ClusterNos -> FatValues]
        BY <2>4, <3>4, <3>5, FatTyped DEF Steady
      <4> HIDE DEF f, g
      <4>5. g = [f EXCEPT ![c] = x]
        BY <2>0, <4>3, <4>4
      <4> QED
        BY <4>2, <4>5 DEF g
    <3>7. Entered(q, v, w) /\ SameRest(v, w)
      BY <2>3, <3>4, <3>5 DEF Entered, Calm, SameFs, SameRest, SameWork
    <3> QED
      BY <1>2, <2>2, <2>6, <3>4, <3>6, <3>7
  <2> QED
    BY <2>3, <2>5, <2>6
<1> QED
  BY <1>1, <1>2

(* The FATFS object's numbers change, its window does not. *)
LEMMA NumbersChanged ==
  ASSUME NEW q \in BOOLEAN, NEW v \in Steady(q), NEW g \in Volumes,
         g.reg = v.fs.reg, g.type = v.fs.type, g.win = v.fs.win,
         g.winsect = v.fs.winsect, g.wflag = v.fs.wflag
  PROVE  LET w == [v EXCEPT !.fs = g]
         IN  /\ w \in Steady(q) /\ w.fs = g /\ w.res = v.res /\ w.ret = v.ret
             /\ SameRest(v, w) /\ SameFat(v, w)
<1> DEFINE w == [v EXCEPT !.fs = g]
<1>0. v \in CallSet
  BY DEF Steady
<1>1. /\ w \in CallSet /\ w.fs = g /\ w.disk = v.disk /\ w.res = v.res
      /\ w.to = v.to /\ w.from = v.from /\ SameRest(v, w)
  BY <1>0, SetFs
<1> HIDE DEF w
<1>2. \A s \in FatSects : Seen(w.disk, w.fs)[s] = Seen(v.disk, v.fs)[s]
  <2>1. \A s \in FatSects : s \in Sectors
    BY AreasApart
  <2> QED
    BY <1>0, <1>1, <2>1, SeenIs
<1>3. SameFat(v, w)
  BY <1>0, <1>1, <1>2, SeenSame
<1>4. w \in Steady(q)
  BY <1>1 DEF Steady, Healthy, Coherent
<1> QED
  BY <1>1, <1>3, <1>4 DEF w, SameRest

(* The count of free clusters, FSInfo's flag and the last cluster given    *)
(* out may be set one at a time.                                           *)
LEMMA SetNumber ==
  ASSUME NEW f \in Volumes
  PROVE  /\ \A x \in Int : LET g == [f EXCEPT !.free = x]
                           IN  /\ g \in Volumes /\ g.free = x /\ g.last = f.last /\ g.fsi = f.fsi
                               /\ g.reg = f.reg /\ g.type = f.type /\ g.win = f.win
                               /\ g.winsect = f.winsect /\ g.wflag = f.wflag
         /\ \A x \in Nat : LET g == [f EXCEPT !.fsi = x]
                           IN  /\ g \in Volumes /\ g.free = f.free /\ g.last = f.last /\ g.fsi = x
                               /\ g.reg = f.reg /\ g.type = f.type /\ g.win = f.win
                               /\ g.winsect = f.winsect /\ g.wflag = f.wflag
         /\ \A x \in Nat : LET g == [f EXCEPT !.last = x]
                           IN  /\ g \in Volumes /\ g.free = f.free /\ g.last = x /\ g.fsi = f.fsi
                               /\ g.reg = f.reg /\ g.type = f.type /\ g.win = f.win
                               /\ g.winsect = f.winsect /\ g.wflag = f.wflag
         /\ \A x \in ClusterNos : LET g == [f EXCEPT !.cdir = x]
                           IN  /\ g \in Volumes /\ g.free = f.free /\ g.last = f.last /\ g.fsi = f.fsi
                               /\ g.reg = f.reg /\ g.type = f.type /\ g.win = f.win
                               /\ g.winsect = f.winsect /\ g.wflag = f.wflag
<1>1. ASSUME NEW x \in Int
      PROVE  LET g == [f EXCEPT !.free = x]
             IN  /\ g \in Volumes /\ g.free = x /\ g.last = f.last /\ g.fsi = f.fsi
                 /\ g.reg = f.reg /\ g.type = f.type /\ g.win = f.win
                 /\ g.winsect = f.winsect /\ g.wflag = f.wflag
  BY DEF Volumes, FsSet, WindowHolds
<1>2. ASSUME NEW x \in Nat
      PROVE  LET g == [f EXCEPT !.fsi = x]
             IN  /\ g \in Volumes /\ g.free = f.free /\ g.last = f.last /\ g.fsi = x
                 /\ g.reg = f.reg /\ g.type = f.type /\ g.win = f.win
                 /\ g.winsect = f.winsect /\ g.wflag = f.wflag
  BY DEF Volumes, FsSet, WindowHolds
<1>3. ASSUME NEW x \in Nat
      PROVE  LET g == [f EXCEPT !.last = x]
             IN  /\ g \in Volumes /\ g.free = f.free /\ g.last = x /\ g.fsi = f.fsi
                 /\ g.reg = f.reg /\ g.type = f.type /\ g.win = f.win
                 /\ g.winsect = f.winsect /\ g.wflag = f.wflag
  BY DEF Volumes, FsSet, WindowHolds
<1>4. ASSUME NEW x \in ClusterNos
      PROVE  LET g == [f EXCEPT !.cdir = x]
             IN  /\ g \in Volumes /\ g.free = f.free /\ g.last = f.last /\ g.fsi = f.fsi
                 /\ g.reg = f.reg /\ g.type = f.type /\ g.win = f.win
                 /\ g.winsect = f.winsect /\ g.wflag = f.wflag
  BY DEF Volumes, FsSet, WindowHolds
<1> QED
  BY <1>1, <1>2, <1>3, <1>4

(* The free clusters of a FAT in which the entry of c becomes x. *)
LEMMA FreedAre ==
  ASSUME NEW fat \in [ClusterNos -> FatValues], NEW c \in RealClusters, NEW x \in FatValues
  PROVE  LET g == [fat EXCEPT ![c] = x]
         IN  /\ Cardinality(Freed(fat)) \in 0 .. NFatEnt - 2
             /\ x # 0 /\ fat[c] # 0 => Freed(g) = Freed(fat)
             /\ x # 0 /\ fat[c] = 0 => Cardinality(Freed(g)) = Cardinality(Freed(fat)) - 1
             /\ x = 0 /\ fat[c] # 0 => /\ Cardinality(Freed(g)) = Cardinality(Freed(fat)) + 1
                                       /\ Cardinality(Freed(fat)) < NFatEnt - 2
<1> DEFINE g == [fat EXCEPT ![c] = x]
           F == Freed(fat)
           G == Freed(g)
           n == NFatEnt - 2
<1>1. n \in Nat /\ IsFiniteSet(RealClusters) /\ Cardinality(RealClusters) = n
  <2>1. 2 \in Int /\ NFatEnt - 1 \in Int /\ 2 <= NFatEnt - 1 /\ NFatEnt - 1 - 2 + 1 = NFatEnt - 2
    BY LayoutIs
  <2>2. /\ IsFiniteSet(2 .. NFatEnt - 1)
        /\ Cardinality(2 .. NFatEnt - 1) = IF 2 > NFatEnt - 1 THEN 0 ELSE (NFatEnt - 1) - 2 + 1
    BY <2>1, FS_Interval
  <2>3. n \in Nat /\ ~(2 > NFatEnt - 1) /\ (NFatEnt - 1) - 2 + 1 = n
    BY LayoutIs
  <2> HIDE DEF n
  <2> QED
    BY <2>2, <2>3 DEF RealClusters
<1>2. RealClusters \subseteq ClusterNos
  BY LayoutIs DEF RealClusters, ClusterNos
<1>3. g \in [ClusterNos -> FatValues] /\ \A d \in ClusterNos : g[d] = IF d = c THEN x ELSE fat[d]
  BY <1>2
<1> HIDE DEF g
<1>4. F \subseteq RealClusters /\ G \subseteq RealClusters
  BY DEF Freed
<1>5. /\ IsFiniteSet(F) /\ Cardinality(F) \in Nat /\ Cardinality(F) <= n
      /\ IsFiniteSet(G) /\ Cardinality(G) \in Nat /\ Cardinality(G) <= n
  BY <1>1, <1>4, FS_Subset, FS_CardinalityType
<1>6. x # 0 /\ fat[c] # 0 => G = F
  BY <1>2, <1>3 DEF Freed
<1>7. x # 0 /\ fat[c] = 0 => c \in F /\ G = F \ {c}
  BY <1>2, <1>3 DEF Freed
<1>8. x = 0 /\ fat[c] # 0 => c \notin F /\ G = F \union {c}
  BY <1>2, <1>3 DEF Freed
<1> HIDE DEF F, G
<1>9. x # 0 /\ fat[c] = 0 => Cardinality(G) = Cardinality(F) - 1
  BY <1>5, <1>7, FS_RemoveElement
<1>10. x = 0 /\ fat[c] # 0 => Cardinality(G) = Cardinality(F) + 1
  BY <1>5, <1>8, FS_AddElement
<1> HIDE DEF n
<1>11. x = 0 /\ fat[c] # 0 => Cardinality(F) < n
  BY <1>1, <1>5, <1>10
<1>12. Cardinality(F) \in 0 .. n
  BY <1>1, <1>5
<1> QED
  BY <1>6, <1>9, <1>10, <1>11, <1>12 DEF F, G, g, n

(* Marking FSInfo changed gives a number. *)
LEMMA DirtyIs ==
  ASSUME NEW x \in Nat
  PROVE  SetDirty(x) \in Nat
BY DEF SetDirty

(* The count of free clusters changes, the flag that it has to be saved    *)
(* and the number of the last one taken. *)
LEMMA CountSet ==
  ASSUME NEW q \in BOOLEAN, NEW v \in Steady(q), NEW x \in Int, NEW y \in Nat, NEW z \in Nat
  PROVE  LET w == [v EXCEPT !.fs = [[[v.fs EXCEPT !.last = y] EXCEPT !.fsi = z] EXCEPT !.free = x]]
         IN  /\ w \in Steady(q) /\ SameRest(v, w) /\ SameFat(v, w)
             /\ w.res = v.res /\ w.ret = v.ret /\ w.fs.free = x
<1> DEFINE f == v.fs
           a == [f EXCEPT !.last = y]
           b == [a EXCEPT !.fsi = z]
           c == [b EXCEPT !.free = x]
           w == [v EXCEPT !.fs = c]
<1>0. f \in Volumes
  BY DEF Steady, CallSet
<1>1. /\ a \in Volumes /\ a.reg = f.reg /\ a.type = f.type /\ a.win = f.win
      /\ a.winsect = f.winsect /\ a.wflag = f.wflag
  BY <1>0, SetNumber
<1> HIDE DEF a
<1>2. /\ b \in Volumes /\ b.reg = f.reg /\ b.type = f.type /\ b.win = f.win
      /\ b.winsect = f.winsect /\ b.wflag = f.wflag
  BY <1>1, SetNumber
<1> HIDE DEF b
<1>3. /\ c \in Volumes /\ c.reg = f.reg /\ c.type = f.type /\ c.win = f.win
      /\ c.winsect = f.winsect /\ c.wflag = f.wflag /\ c.free = x
  BY <1>2, SetNumber
<1> HIDE DEF c
<1>4. /\ w \in Steady(q) /\ w.fs = c /\ w.res = v.res /\ w.ret = v.ret
      /\ SameRest(v, w) /\ SameFat(v, w)
  BY <1>3, NumbersChanged
<1> HIDE DEF w
<1>5. /\ w \in Steady(q) /\ SameRest(v, w) /\ SameFat(v, w)
      /\ w.res = v.res /\ w.ret = v.ret /\ w.fs.free = x
  BY <1>3, <1>4
<1> QED
  BY <1>5 DEF w, c, b, a

(* The count goes up by one, unless it is that of an empty volume or not   *)
(* known.                                                                  *)
LEMMA CountFreedKeeps ==
  ASSUME NEW q \in BOOLEAN, NEW v \in Steady(q)
  PROVE  LET w == CountFreed(v)
         IN  /\ w \in Steady(q) /\ SameRest(v, w) /\ SameFat(v, w)
             /\ w.res = v.res /\ w.ret = v.ret
             /\ w.fs.free = IF v.fs.free < NFatEnt - 2 THEN v.fs.free + 1 ELSE v.fs.free
<1>0. v \in CallSet /\ v.fs \in Volumes /\ v.fs.free \in Int /\ v.fs.fsi \in Nat /\ v.fs.last \in Nat
  BY DEF Steady, CallSet, Volumes, FsSet
<1>1. CASE v.fs.free < NFatEnt - 2
  <2> DEFINE f == v.fs
             x == v.fs.free + 1
             z == SetDirty(v.fs.fsi)
             y == v.fs.last
             h == [f EXCEPT !.last = y]
             w == [v EXCEPT !.fs = [[h EXCEPT !.fsi = z] EXCEPT !.free = x]]
  <2>1. x \in Int /\ z \in Nat
    BY <1>0, DirtyIs
  <2>2. CountFreed(v) = w
    <3>1. CountFreed(v) = [v EXCEPT !.fs.free = x, !.fs.fsi = z]
      BY <1>1, Zenon DEF CountFreed
    <3>2. h = f
      BY <1>0 DEF Volumes, FsSet
    <3>3. [v EXCEPT !.fs.free = x, !.fs.fsi = z]
            = [v EXCEPT !.fs = [[f EXCEPT !.fsi = z] EXCEPT !.free = x]]
      <4> HIDE DEF x, z
      <4> QED
        BY <1>0, <2>1 DEF CallSet, Volumes, FsSet
    <3> HIDE DEF h
    <3> QED
      BY <3>1, <3>2, <3>3, Zenon
  <2>4. y \in Nat
    BY <1>0
  <2> HIDE DEF x, y, z
  <2>3. /\ w \in Steady(q) /\ SameRest(v, w) /\ SameFat(v, w)
        /\ w.res = v.res /\ w.ret = v.ret /\ w.fs.free = x
    <3>1. \A a \in Int, b \in Nat, c \in Nat :
            LET u == [v EXCEPT !.fs = [[[v.fs EXCEPT !.last = b] EXCEPT !.fsi = c] EXCEPT !.free = a]]
            IN  /\ u \in Steady(q) /\ SameRest(v, u) /\ SameFat(v, u)
                /\ u.res = v.res /\ u.ret = v.ret /\ u.fs.free = a
      BY CountSet, Zenon
    <3> QED
      BY <2>1, <2>4, <3>1, Zenon
  <2> HIDE DEF w
  <2> QED
    BY <1>1, <2>2, <2>3 DEF x
<1>2. CASE ~(v.fs.free < NFatEnt - 2)
  <2>1. CountFreed(v) = v
    BY <1>2, Zenon DEF CountFreed
  <2> QED
    BY <1>2, <2>1 DEF SameRest, SameWork, SameFat
<1> QED
  BY <1>1, <1>2

(* The count of free clusters, in numbers. *)
LEMMA CountIs ==
  ASSUME NEW v \in Good(TRUE)
  PROVE  \/ v.fs.free = NOCOUNT
         \/ v.fs.free = Cardinality(Freed(Fat(v.disk, v.fs)))
BY DEF Good, Counted

(* One round of remove_chain frees a cluster that was not free and counts  *)
(* it: the count stays right.                                              *)
LEMMA FreeOneKeeps ==
  ASSUME NEW q \in BOOLEAN, NEW v \in Good(q)
  PROVE  LET w == FreeOne(v)
         IN  w \in Good(q) /\ SameWork(v, w) /\ w.res \in {"OK", GO, "INT_ERR", "DISK_ERR"}
<1> DEFINE c == v.ret
           g == get_fat(v, c)
           p == put_fat(g, c, 0)
           k == CountFreed(p)
<1>0. v \in Steady(q) /\ c \in Nat
  BY DEF Good, Steady, CallSet
<1>1. /\ Calm(q, v, g) /\ SameWork(v, g) /\ g.res = "OK"
      /\ c \notin RealClusters => g.ret = 1
      /\ q /\ c \in RealClusters => g.ret = Fat(v.disk, v.fs)[c]
  BY <1>0, GetFatKeeps
<1>2. g \in Good(q) /\ g \in Steady(q) /\ g \in CallSet
  BY <1>1, CalmKeepsGood DEF Good, Steady
<1>3. FreeOne(v) = IF g.ret = 0 THEN g
                   ELSE IF g.ret = 1 THEN Res(g, "INT_ERR")
                   ELSE IF g.ret = DISKERR THEN Res(g, "DISK_ERR")
                   ELSE IF p.res = "OK" THEN (IF p.ret < NFatEnt THEN Again(k) ELSE k) ELSE p
  BY Zenon DEF FreeOne, With, Then
<1> HIDE DEF g
<1>4. /\ Res(g, "INT_ERR") \in Good(q) /\ SameWork(v, Res(g, "INT_ERR"))
      /\ Res(g, "DISK_ERR") \in Good(q) /\ SameWork(v, Res(g, "DISK_ERR"))
      /\ Res(g, "INT_ERR").res = "INT_ERR" /\ Res(g, "DISK_ERR").res = "DISK_ERR"
  BY <1>1, <1>2, ResKeeps, ResultsAre, SameCardKeeps DEF SameRest, SameWork
<1>5. CASE g.ret \in {0, 1, DISKERR}
  BY <1>1, <1>2, <1>3, <1>4, <1>5
<1>6. CASE g.ret \notin {0, 1, DISKERR}
  <2>1. c \in RealClusters
    BY <1>1, <1>6
  <2>2. /\ Entered(q, g, p) /\ SameRest(g, p) /\ p.res \in {"OK", "DISK_ERR", "INT_ERR"}
        /\ q => p.res = "OK" /\ Fat(p.disk, p.fs) = [Fat(g.disk, g.fs) EXCEPT ![c] = 0]
    BY <1>0, <1>2, <2>1, PutFatKeeps DEF FatValues
  <2> HIDE DEF p
  <2>3. CASE p.res # "OK"
    <3>1. p \in Good(q)
      BY <2>2, <2>3 DEF Entered, Good
    <3> QED
      BY <1>1, <1>3, <1>6, <2>2, <2>3, <3>1 DEF SameRest, SameWork
  <2>4. CASE p.res = "OK"
    <3>1. /\ k \in Steady(q) /\ SameRest(p, k) /\ SameFat(p, k)
          /\ k.res = "OK" /\ k.ret = p.ret
          /\ k.fs.free = IF p.fs.free < NFatEnt - 2 THEN p.fs.free + 1 ELSE p.fs.free
      BY <2>2, <2>4, CountFreedKeeps DEF Entered
    <3> HIDE DEF k
    <3>2. k \in Good(q)
      <4>1. SUFFICES ASSUME q PROVE Counted(k.disk, k.fs)
        BY <3>1 DEF Good
      <4> DEFINE fat == Fat(g.disk, g.fs)
                 new == Fat(k.disk, k.fs)
      <4>2. fat \in [ClusterNos -> FatValues] /\ fat[c] # 0
        <5>1. Fat(g.disk, g.fs) = Fat(v.disk, v.fs)
          BY <1>1 DEF Calm, SameFat
        <5>2. fat \in [ClusterNos -> FatValues]
          BY <1>2, FatTyped DEF Steady
        <5> QED
          BY <1>1, <1>6, <2>1, <4>1, <5>1, <5>2
      <4>3. new = [fat EXCEPT ![c] = 0]
        BY <2>2, <3>1, <4>1 DEF SameFat
      <4>4. p.fs.free = g.fs.free
        BY <2>2 DEF Entered, SameFs
      <4>5. g.fs.free = NOCOUNT \/ g.fs.free = Cardinality(Freed(fat))
        BY <1>2, <4>1, CountIs
      <4> HIDE DEF fat, new
      <4>6. /\ Cardinality(Freed(new)) = Cardinality(Freed(fat)) + 1
            /\ Cardinality(Freed(fat)) < NFatEnt - 2
            /\ Cardinality(Freed(fat)) \in 0 .. NFatEnt - 2
        BY <2>1, <4>2, <4>3, FreedAre DEF FatValues
      <4>7. k.fs.free = NOCOUNT \/ k.fs.free = Cardinality(Freed(new))
        BY <3>1, <4>4, <4>5, <4>6, LayoutIs DEF NOCOUNT
      <4> QED
        BY <4>7 DEF Counted, new
    <3>3. k \in CallSet /\ SameWork(v, k)
      BY <1>1, <2>2, <3>1 DEF Steady, SameRest, SameWork
    <3>4. Again(k) \in Good(q) /\ SameWork(v, Again(k)) /\ Again(k).res = GO
      <4>1. Again(k) \in CallSet /\ Again(k).res = GO /\ SameCard(k, Again(k)) /\ SameRest(k, Again(k))
        BY <3>3, ResKeeps, ResultsAre DEF Again
      <4> QED
        BY <3>2, <3>3, <4>1, SameCardKeeps DEF SameRest, SameWork
    <3> QED
      BY <1>3, <1>6, <2>4, <3>1, <3>2, <3>3, <3>4
  <2> QED
    BY <2>3, <2>4
<1> QED
  BY <1>5, <1>6

(* What a loop with states in V ends with is in V. *)
LEMMA LoopStays ==
  ASSUME NEW n \in Nat, NEW V, NEW h, h[0] \in V,
         \A k \in 1..n : h[k - 1] \in V => h[k] \in V
  PROVE  h[n] \in V
<1> DEFINE S == {k \in 0..n : h[k] \in V}
<1>1. 0 \in S
  OBVIOUS
<1>2. \A k \in 1..n : k - 1 \in S => k \in S
  OBVIOUS
<1> HIDE DEF S
<1>3. \A k \in 0..n : k \in S
  BY <1>1, <1>2, BoundedInduction
<1>4. n \in S
  BY <1>3
<1> QED
  BY <1>4 DEF S

(* What a loop does, as a function of the number of its rounds. *)
Runs(g, V, a, G, n) ==
  g[0] = a /\ \A k \in 1..n : g[k - 1] \in V /\ g[k] = G[<<g[k - 1], k>>]

(* A loop of a function that keeps its calls in a set runs in that set. *)
LEMMA LoopRuns ==
  ASSUME NEW n \in Nat, NEW V, NEW a \in V, NEW G \in [V \X (1..n) -> V]
  PROVE  \E g \in [0..n -> V] : Runs(g, V, a, G, n)
<1>1. PICK g \in [0..n -> V] : Solves(g, a, G, n)
  BY RecursionExists, Zenon
<1>2. Runs(g, V, a, G, n)
  BY <1>1 DEF Solves, Runs
<1> QED
  BY <1>2

(* All rounds of remove_chain keep the count right. *)
LEMMA FreeFromKeeps ==
  ASSUME NEW q \in BOOLEAN, NEW v \in Good(q), NEW c \in Nat
  PROVE  LET w == FreeFrom(v, c)
         IN  w \in Good(q) /\ SameWork(v, w)
<1> DEFINE n == NFatEnt
           a == Again(Ret(v, c))
           V == {u \in Good(q) : SameWork(v, u)}
           B(u, k) == IF u.res = GO THEN FreeOne(u) ELSE u
           F(h) == [k \in 0..n |-> IF k = 0 THEN a ELSE B(h[k - 1], k)]
           at == CHOOSE h : h = F(h)
           G == [p \in V \X (1..n) |-> B(p[1], p[2])]
<1>0. v \in CallSet
  BY DEF Good, Steady
<1>1. n \in Nat /\ a \in V
  <2> DEFINE r == Ret(v, c)
             z == Again(r)
  <2>1. r \in CallSet /\ SameCard(v, r) /\ SameWork(v, r)
    BY <1>0, RetKeeps
  <2> HIDE DEF r
  <2>2. z \in CallSet /\ SameCard(r, z) /\ SameRest(r, z)
    BY <2>1, ResKeeps, ResultsAre DEF Again
  <2>3. a = z
    BY DEF r
  <2> HIDE DEF z, a
  <2>4. SameCard(v, z) /\ SameWork(v, z)
    BY <2>1, <2>2 DEF SameCard, SameRest, SameWork
  <2>5. z \in Good(q)
    BY <2>2, <2>4, SameCardKeeps
  <2> QED
    BY <2>3, <2>4, <2>5, LayoutIs
<1>2. \A u \in V, k \in 1..n : B(u, k) \in V
  BY FreeOneKeeps DEF SameWork
<1>3. FreeFrom(v, c) = IF at[n].res = GO THEN Res(at[n], "ENDLESS") ELSE at[n]
  BY Zenon DEF FreeFrom, Rounds, With
<1> HIDE DEF a, V, B, n
<1>4. G \in [V \X (1..n) -> V] /\ \A u \in V, k \in 1..n : G[<<u, k>>] = B(u, k)
  BY <1>2
<1> HIDE DEF G
<1>5. PICK g \in [0..n -> V] : Runs(g, V, a, G, n)
  BY <1>1, <1>4, LoopRuns, Zenon
<1>6. g = F(g)
  <2>1. \A k \in 1..n : g[k] = B(g[k - 1], k)
    BY <1>4, <1>5, Zenon DEF Runs
  <2>2. \A k \in 0..n : g[k] = IF k = 0 THEN a ELSE B(g[k - 1], k)
    BY <1>5, <2>1 DEF Runs
  <2> QED
    BY <2>2
<1>7. at = F(at)
  BY <1>6
<1> HIDE DEF at
<1>8. at[0] = a /\ \A k \in 1..n : at[k] = B(at[k - 1], k)
  BY <1>1, <1>7
<1>9. at[n] \in V
  <2>1. \A k \in 1..n : at[k - 1] \in V => at[k] \in V
    BY <1>2, <1>8, Zenon
  <2> QED
    BY <1>1, <1>8, <2>1, LoopStays, Zenon
<1> DEFINE e == at[n]
<1>10. e \in V /\ FreeFrom(v, c) = IF e.res = GO THEN Res(e, "ENDLESS") ELSE e
  BY <1>3, <1>9
<1> HIDE DEF e
<1>11. e \in Good(q) /\ SameWork(v, e) /\ e \in CallSet
  BY <1>10 DEF V, Good, Steady
<1>12. Res(e, "ENDLESS") \in Good(q) /\ SameWork(v, Res(e, "ENDLESS"))
  <2>1. Res(e, "ENDLESS") \in CallSet /\ SameCard(e, Res(e, "ENDLESS")) /\ SameRest(e, Res(e, "ENDLESS"))
    BY <1>11, ResKeeps, ResultsAre
  <2> QED
    BY <1>11, <2>1, SameCardKeeps DEF SameRest, SameWork
<1> QED
  BY <1>10, <1>11, <1>12, Zenon

(* Remove_chain keeps the count of free clusters right and the copies of   *)
(* the FAT the same, also on a chain that leads in a circle or out of the  *)
(* volume.                                                                 *)
THEOREM RemoveChainKeeps ==
  ASSUME NEW q \in BOOLEAN, NEW v \in Good(q), NEW c \in Nat, NEW prev \in Nat,
         q /\ prev \in RealClusters /\ c \in RealClusters => Fat(v.disk, v.fs)[prev] # 0
  PROVE  LET w == remove_chain(v, c, prev)
         IN  w \in Good(q) /\ SameWork(v, w)
<1>0. v \in Steady(q) /\ v \in CallSet
  BY DEF Good, Steady
<1>1. CASE c \notin RealClusters
  <2> DEFINE w == Res(v, "INT_ERR")
  <2>1. remove_chain(v, c, prev) = w
    BY <1>1, LayoutIs DEF remove_chain, RealClusters
  <2>2. w \in CallSet /\ SameCard(v, w) /\ SameRest(v, w)
    BY <1>0, ResKeeps, ResultsAre
  <2> HIDE DEF w
  <2> QED
    BY <2>1, <2>2, SameCardKeeps DEF SameRest
<1>2. CASE c \in RealClusters
  <2> DEFINE p == IF prev # 0 THEN put_fat(v, prev, EOC) ELSE OK(v)
             w == FreeFrom(p, c)
  <2>1. remove_chain(v, c, prev) = IF p.res = "OK" THEN w ELSE p
    <3>1. ~(c < 2 \/ c >= NFatEnt)
      BY <1>2, LayoutIs DEF RealClusters
    <3> QED
      BY <3>1, Zenon DEF remove_chain, Then
  <2>2. p \in Good(q) /\ SameWork(v, p)
    <3>1. CASE prev = 0
      <4> DEFINE k == OK(v)
      <4>1. k \in CallSet /\ SameCard(v, k) /\ SameRest(v, k)
        BY <1>0, OKKeeps
      <4>2. p = k
        BY <3>1
      <4> HIDE DEF k, p
      <4> QED
        BY <4>1, <4>2, SameCardKeeps DEF SameRest
    <3>2. CASE prev # 0
      <4> DEFINE k == put_fat(v, prev, EOC)
                 fat == Fat(v.disk, v.fs)
                 new == Fat(k.disk, k.fs)
      <4>1. EOC \in FatValues /\ EOC # 0
        BY LayoutIs DEF FatValues, EOC
      <4>2. /\ Entered(q, v, k) /\ SameRest(v, k)
            /\ prev \notin RealClusters => SameFat(v, k)
            /\ q /\ prev \in RealClusters => new = [fat EXCEPT ![prev] = EOC]
        BY <1>0, <4>1, PutFatKeeps
      <4>3. fat \in [ClusterNos -> FatValues]
        BY <1>0, FatTyped DEF Steady
      <4>4. p = k
        BY <3>2
      <4> HIDE DEF k, p
      <4>5. q => Freed(new) = Freed(fat)
        <5>1. CASE prev \notin RealClusters
          BY <4>2, <5>1 DEF SameFat
        <5>2. CASE q /\ prev \in RealClusters
          <6>1. fat[prev] # 0
            BY <1>2, <5>2
          <6>2. \A f \in [ClusterNos -> FatValues], d \in RealClusters, x \in FatValues :
                   x # 0 /\ f[d] # 0 => Freed([f EXCEPT ![d] = x]) = Freed(f)
            BY FreedAre
          <6> HIDE DEF fat, new
          <6>3. Freed([fat EXCEPT ![prev] = EOC]) = Freed(fat)
            BY <4>1, <4>3, <5>2, <6>1, <6>2, Zenon
          <6> QED
            BY <4>2, <5>2, <6>3, Zenon
        <5> QED
          BY <5>1, <5>2
      <4>6. q => Counted(k.disk, k.fs)
        BY <4>2, <4>5 DEF Good, Counted, Entered, SameFs
      <4>7. k \in Good(q)
        BY <4>2, <4>6 DEF Good, Entered
      <4> QED
        BY <4>2, <4>4, <4>7 DEF SameRest
    <3> QED
      BY <3>1, <3>2
  <2> HIDE DEF p
  <2>3. w \in Good(q) /\ SameWork(p, w)
    BY <2>2, FreeFromKeeps
  <2> HIDE DEF w
  <2> QED
    BY <2>1, <2>2, <2>3 DEF SameWork
<1> QED
  BY <1>1, <1>2

-----------------------------------------------------------------------------
(* create_chain.  What a search for a free cluster returns. *)
Found(q, v, c) == /\ c \in {0, 1, DISKERR} \union RealClusters
                  /\ q /\ c \in RealClusters => Fat(v.disk, v.fs)[c] = 0

(* No cluster number is taken for an error code, a free mark or an end     *)
(* mark.                                                                   *)
LEMMA NumbersApart ==
  /\ DISKERR \notin RealClusters /\ 0 \notin RealClusters /\ 1 \notin RealClusters
  /\ DISKERR \in Nat /\ DISKERR # 0 /\ DISKERR # 1
  /\ FatValues \subseteq Nat /\ RealClusters \subseteq Nat
  /\ 1 \notin FatValues /\ DISKERR \notin FatValues /\ 0 \in FatValues
  /\ RealClusters \subseteq FatValues /\ RealClusters \subseteq ClusterNos
  /\ EOC \in FatValues /\ EOC # 0
  /\ \A c \in FatValues : c < NFatEnt <=> c # EOC
BY LayoutIs DEF DISKERR, RealClusters, FatValues, EOC, ClusterNos

(* A cluster that the search answers with is free. *)
LEMMA TryClusterKeeps ==
  ASSUME NEW q \in BOOLEAN, NEW v \in Steady(q), NEW c \in Nat
  PROVE  LET w == TryCluster(v, c)
         IN  /\ Calm(q, v, w) /\ SameWork(v, w) /\ w.res \in {"OK", GO}
             /\ Found(q, v, w.ret)
<1> DEFINE g == get_fat(v, c)
           x == Ret(g, c)
           y == Ret(g, 0)
           z == Again(y)
<1>0. TryCluster(v, c) = IF g.ret = 0 THEN x ELSE IF g.ret \in {1, DISKERR} THEN g ELSE z
  BY Zenon DEF TryCluster, With
<1>1. /\ Calm(q, v, g) /\ SameWork(v, g) /\ g.res = "OK"
      /\ c \notin RealClusters => g.ret = 1
      /\ q /\ c \in RealClusters => g.ret = Fat(v.disk, v.fs)[c]
  BY GetFatKeeps
<1> HIDE DEF g
<1>2. g \in Steady(q) /\ g \in CallSet
  BY <1>1 DEF Calm, Steady
<1>3. /\ x \in CallSet /\ x.res = "OK" /\ x.ret = c /\ SameCard(g, x) /\ SameWork(g, x)
      /\ y \in CallSet /\ y.ret = 0 /\ SameCard(g, y) /\ SameWork(g, y)
  BY <1>2, RetKeeps
<1> HIDE DEF x, y
<1>4. z \in CallSet /\ z.res = GO /\ SameCard(y, z) /\ SameRest(y, z)
  BY <1>3, ResKeeps, ResultsAre DEF Again
<1> HIDE DEF z
<1>5. SameCard(g, z) /\ SameWork(g, z) /\ z.ret = 0
  BY <1>3, <1>4 DEF SameCard, SameRest, SameWork
<1>6. Calm(q, g, x) /\ Calm(q, g, z)
  BY <1>2, <1>3, <1>4, <1>5, SameCardIsCalm
<1>7. Calm(q, v, x) /\ Calm(q, v, z) /\ SameWork(v, x) /\ SameWork(v, z)
  BY <1>1, <1>3, <1>5, <1>6, CalmThenCalm DEF SameWork
<1>8. CASE g.ret = 0
  <2>1. c \in RealClusters
    BY <1>1, <1>8
  <2>2. Found(q, v, c)
    BY <1>1, <1>8, <2>1 DEF Found
  <2> QED
    BY <1>0, <1>3, <1>7, <1>8, <2>2
<1>9. CASE g.ret \in {1, DISKERR}
  <2>1. Found(q, v, g.ret)
    BY <1>9, NumbersApart DEF Found
  <2> QED
    BY <1>0, <1>1, <1>9, <2>1, NumbersApart
<1>10. CASE g.ret \notin {0, 1, DISKERR}
  <2>1. Found(q, v, 0)
    BY NumbersApart DEF Found
  <2> QED
    BY <1>0, <1>4, <1>5, <1>7, <1>10, <2>1
<1> QED
  BY <1>8, <1>9, <1>10

(* The search of create_chain answers 0, an error, or a cluster that is    *)
(* free, and changes no entry.                                             *)
LEMMA FindFreeKeeps ==
  ASSUME NEW q \in BOOLEAN, NEW v \in Steady(q), NEW scl \in Nat
  PROVE  LET w == FindFree(v, scl)
         IN  Calm(q, v, w) /\ SameWork(v, w) /\ w.res = "OK" /\ Found(q, v, w.ret)
<1> DEFINE next(k) == IF scl + k < NFatEnt THEN scl + k ELSE scl + k - NFatEnt + 2
<1> DEFINE n == Clusters
           a == Again(Ret(v, 0))
           V == {u \in Steady(q) : Calm(q, v, u) /\ SameWork(v, u) /\ u.res \in {"OK", GO} /\ Found(q, v, u.ret)}
           B(u, k) == IF u.res = GO THEN TryCluster(u, IF scl + k < NFatEnt THEN scl + k ELSE scl + k - NFatEnt + 2) ELSE u
           F(h) == [k \in 0..n |-> IF k = 0 THEN a ELSE B(h[k - 1], k)]
           at == CHOOSE h : h = F(h)
           G == [p \in V \X (1..n) |-> B(p[1], p[2])]
<1>0. v \in CallSet
  BY DEF Steady
<1>1. n \in Nat /\ a \in V
  <2> DEFINE r == Ret(v, 0)
             z == Again(r)
  <2>1. r \in CallSet /\ SameCard(v, r) /\ SameWork(v, r) /\ r.ret = 0
    BY <1>0, RetKeeps
  <2> HIDE DEF r
  <2>2. z \in CallSet /\ SameCard(r, z) /\ SameRest(r, z) /\ z.res = GO
    BY <2>1, ResKeeps, ResultsAre DEF Again
  <2>3. a = z
    BY DEF r
  <2> HIDE DEF z, a
  <2>4. SameCard(v, z) /\ SameWork(v, z) /\ z.ret = 0
    BY <2>1, <2>2 DEF SameCard, SameRest, SameWork
  <2>5. Calm(q, v, z)
    BY <2>2, <2>4, SameCardIsCalm
  <2>6. z \in Steady(q) /\ Found(q, v, 0)
    BY <2>5, NumbersApart DEF Calm, Found
  <2> QED
    BY <2>2, <2>3, <2>4, <2>5, <2>6, GeometryAssumption
<1>2. \A u \in V, k \in 1..n : B(u, k) \in V
  <2>1. ASSUME NEW u \in V, NEW k \in 1..n PROVE B(u, k) \in V
    <3> DEFINE w == TryCluster(u, next(k))
    <3>1. next(k) \in Nat
      BY LayoutIs, GeometryAssumption
    <3> HIDE DEF next
    <3>2. /\ Calm(q, u, w) /\ SameWork(u, w) /\ w.res \in {"OK", GO}
          /\ Found(q, u, w.ret)
      BY <3>1, TryClusterKeeps
    <3> HIDE DEF w
    <3>3. Calm(q, v, w) /\ SameWork(v, w) /\ w \in Steady(q) /\ Found(q, v, w.ret)
      BY <3>2, CalmThenCalm DEF SameWork, Calm, Found, SameFat
    <3>4. w \in V
      BY <3>2, <3>3
    <3>5. B(u, k) = IF u.res = GO THEN w ELSE u
      BY DEF w, next
    <3> HIDE DEF V, B
    <3> QED
      BY <3>4, <3>5
  <2> QED
    BY <2>1
<1>3. FindFree(v, scl) = IF at[n].res = GO THEN Res(at[n], "OK") ELSE at[n]
  BY Zenon DEF FindFree, Rounds, With
<1> HIDE DEF a, V, B, n
<1>4. G \in [V \X (1..n) -> V] /\ \A u \in V, k \in 1..n : G[<<u, k>>] = B(u, k)
  BY <1>2
<1> HIDE DEF G
<1>5. PICK g \in [0..n -> V] : Runs(g, V, a, G, n)
  BY <1>1, <1>4, LoopRuns, Zenon
<1>6. g = F(g)
  <2>1. \A k \in 1..n : g[k] = B(g[k - 1], k)
    BY <1>4, <1>5, Zenon DEF Runs
  <2>2. \A k \in 0..n : g[k] = IF k = 0 THEN a ELSE B(g[k - 1], k)
    BY <1>5, <2>1 DEF Runs
  <2> QED
    BY <2>2
<1>7. at = F(at)
  BY <1>6
<1> HIDE DEF at
<1>8. at[0] = a /\ \A k \in 1..n : at[k] = B(at[k - 1], k)
  BY <1>1, <1>7
<1>9. at[n] \in V
  <2>1. \A k \in 1..n : at[k - 1] \in V => at[k] \in V
    BY <1>2, <1>8, Zenon
  <2> QED
    BY <1>1, <1>8, <2>1, LoopStays, Zenon
<1> DEFINE e == at[n]
<1>10. e \in V /\ FindFree(v, scl) = IF e.res = GO THEN Res(e, "OK") ELSE e
  BY <1>3, <1>9
<1> HIDE DEF e
<1>11. /\ Calm(q, v, e) /\ SameWork(v, e) /\ e.res \in {"OK", GO} /\ Found(q, v, e.ret)
       /\ e \in Steady(q) /\ e \in CallSet
  BY <1>10 DEF V, Steady
<1> DEFINE o == Res(e, "OK")
<1>12. o \in CallSet /\ o.res = "OK" /\ SameCard(e, o) /\ SameRest(e, o)
  BY <1>11, ResKeeps, ResultsAre
<1> HIDE DEF o
<1>13. Calm(q, v, o) /\ SameWork(v, o) /\ o.ret = e.ret
  BY <1>11, <1>12, SameCardIsCalm, CalmThenCalm DEF SameRest, SameWork
<1>14. FindFree(v, scl) = IF e.res = GO THEN o ELSE e
  BY <1>10 DEF o
<1> QED
  BY <1>11, <1>12, <1>13, <1>14

(* A chain's new last cluster is marked and linked. *)
LEMMA LinkedKeeps ==
  ASSUME NEW q \in BOOLEAN, NEW v \in Steady(q), NEW c \in Nat, NEW d \in RealClusters,
         q => Fat(v.disk, v.fs)[d] = 0,
         q /\ c # 0 => c \in RealClusters /\ Fat(v.disk, v.fs)[c] # 0
  PROVE  LET w == Then(put_fat(v, d, EOC), LAMBDA u : IF c # 0 THEN put_fat(u, c, d) ELSE u)
         IN  /\ Entered(q, v, w) /\ SameRest(v, w)
             /\ q => /\ w.res = "OK"
                     /\ Cardinality(Freed(Fat(w.disk, w.fs)))
                          = Cardinality(Freed(Fat(v.disk, v.fs))) - 1
<1> DEFINE p == put_fat(v, d, EOC)
           r == IF c # 0 THEN put_fat(p, c, d) ELSE p
           w == IF p.res = "OK" THEN r ELSE p
           f == Fat(v.disk, v.fs)
           g == Fat(p.disk, p.fs)
           h == Fat(r.disk, r.fs)
<1>0. Then(put_fat(v, d, EOC), LAMBDA u : IF c # 0 THEN put_fat(u, c, d) ELSE u) = w
  BY Zenon DEF Then
<1>1. /\ Entered(q, v, p) /\ SameRest(v, p)
      /\ q => p.res = "OK" /\ g = [f EXCEPT ![d] = EOC]
  BY NumbersApart, PutFatKeeps
<1>2. v \in CallSet /\ v.fs.type # 0 /\ p \in Steady(q) /\ p \in CallSet /\ p.fs.type # 0
  BY <1>1 DEF Entered, Steady
<1>3. f \in [ClusterNos -> FatValues] /\ g \in [ClusterNos -> FatValues]
  BY <1>2, FatTyped
<1>4. \A ff \in [ClusterNos -> FatValues], cc \in RealClusters, x \in FatValues :
         LET gg == [ff EXCEPT ![cc] = x]
         IN  /\ x # 0 /\ ff[cc] # 0 => Freed(gg) = Freed(ff)
             /\ x # 0 /\ ff[cc] = 0 => Cardinality(Freed(gg)) = Cardinality(Freed(ff)) - 1
  BY FreedAre
<1> HIDE DEF p, f, g
<1>5. q => Cardinality(Freed(g)) = Cardinality(Freed(f)) - 1
  <2>1. SUFFICES ASSUME q PROVE Cardinality(Freed(g)) = Cardinality(Freed(f)) - 1
    OBVIOUS
  <2>2. f[d] = 0 /\ EOC # 0 /\ EOC \in FatValues
    BY <2>1, NumbersApart DEF f
  <2>3. Cardinality(Freed([f EXCEPT ![d] = EOC])) = Cardinality(Freed(f)) - 1
    BY <1>3, <1>4, <2>2, Zenon
  <2> QED
    BY <1>1, <2>1, <2>3, Zenon
<1>6. CASE c = 0
  <2>1. r = p
    BY <1>6
  <2> HIDE DEF r
  <2> QED
    BY <1>0, <1>1, <1>5, <1>6, <2>1 DEF f, g
<1>7. CASE c # 0
  <2>1. r = put_fat(p, c, d)
    BY <1>7
  <2>2. /\ Entered(q, p, r) /\ SameRest(p, r)
        /\ q /\ c \in RealClusters => r.res = "OK" /\ h = [g EXCEPT ![c] = d]
    BY <1>2, <2>1, NumbersApart, PutFatKeeps DEF g
  <2> HIDE DEF r, h
  <2>3. q => Freed(h) = Freed(g)
    <3>1. SUFFICES ASSUME q PROVE Freed(h) = Freed(g)
      OBVIOUS
    <3>2. c \in RealClusters /\ f[c] # 0 /\ f[d] = 0 /\ c \in ClusterNos /\ d \in FatValues /\ d # 0
      BY <1>7, <3>1, NumbersApart DEF f
    <3>3. g[c] # 0
      BY <1>1, <1>3, <3>1, <3>2, NumbersApart
    <3>4. Freed([g EXCEPT ![c] = d]) = Freed(g)
      BY <1>3, <1>4, <3>2, <3>3, Zenon
    <3> QED
      BY <2>2, <3>1, <3>2, <3>4, Zenon
  <2>4. Entered(q, v, r) /\ SameRest(v, r)
    BY <1>1, <2>2 DEF Entered, SameFs, SameRest, SameWork
  <2>5. q => p.res = "OK" /\ r.res = "OK"
    BY <1>1, <1>7, <2>2
  <2>6. Cardinality(Freed(h)) = Cardinality(Freed(Fat(r.disk, r.fs)))
    BY DEF h
  <2> QED
    BY <1>0, <1>1, <1>5, <2>3, <2>4, <2>5, <2>6 DEF f
<1> QED
  BY <1>6, <1>7

(* Linking a free cluster takes one from the count. *)
LEMMA LinkNewKeeps ==
  ASSUME NEW q \in BOOLEAN, NEW v \in Good(q), NEW c \in Nat, v.ret \in RealClusters,
         q => Fat(v.disk, v.fs)[v.ret] = 0,
         q /\ c # 0 => c \in RealClusters /\ Fat(v.disk, v.fs)[c] # 0
  PROVE  LET w == LinkNew(v, c)
         IN  /\ w \in Good(q) /\ SameWork(v, w) /\ w.res = "OK"
             /\ w.ret \in {1, DISKERR} \union RealClusters
<1> DEFINE d == v.ret
           p == Then(put_fat(v, d, EOC), LAMBDA u : IF c # 0 THEN put_fat(u, c, d) ELSE u)
           x == IF p.fs.free <= NFatEnt - 2 THEN p.fs.free - 1 ELSE p.fs.free
           z == SetDirty(p.fs.fsi)
           k == [p EXCEPT !.fs = [[[p.fs EXCEPT !.last = d] EXCEPT !.fsi = z] EXCEPT !.free = x]]
           e == IF p.res = "DISK_ERR" THEN DISKERR ELSE 1
<1>0. v \in Steady(q) /\ v \in CallSet /\ d \in Nat /\ d \in RealClusters
  BY DEF Good, Steady, CallSet
<1>1. /\ Entered(q, v, p) /\ SameRest(v, p)
      /\ q => /\ p.res = "OK"
              /\ Cardinality(Freed(Fat(p.disk, p.fs))) = Cardinality(Freed(Fat(v.disk, v.fs))) - 1
  <2>1. \A dd \in RealClusters : (q => Fat(v.disk, v.fs)[dd] = 0) =>
          LET w == Then(put_fat(v, dd, EOC), LAMBDA u : IF c # 0 THEN put_fat(u, c, dd) ELSE u)
          IN  /\ Entered(q, v, w) /\ SameRest(v, w)
              /\ q => /\ w.res = "OK"
                      /\ Cardinality(Freed(Fat(w.disk, w.fs)))
                           = Cardinality(Freed(Fat(v.disk, v.fs))) - 1
    BY <1>0, LinkedKeeps, Zenon
  <2> QED
    BY <1>0, <2>1, Zenon
<1>2. LinkNew(v, c) = IF p.res # "OK" THEN Ret(p, e)
                      ELSE Ret([p EXCEPT !.fs.last = d, !.fs.fsi = SetDirty(@),
                                  !.fs.free = IF @ <= NFatEnt - 2 THEN @ - 1 ELSE @], d)
  BY Zenon DEF LinkNew, With
<1> HIDE DEF p
<1>3. p \in Steady(q) /\ p \in CallSet /\ p.fs \in Volumes /\ p.fs.fsi \in Nat /\ p.fs.free \in Int
  BY <1>1 DEF Entered, Steady, CallSet, Volumes, FsSet
<1>4. [p EXCEPT !.fs.last = d, !.fs.fsi = SetDirty(@), !.fs.free = IF @ <= NFatEnt - 2 THEN @ - 1 ELSE @] = k
  <2>1. [p EXCEPT !.fs.last = d, !.fs.fsi = SetDirty(@), !.fs.free = IF @ <= NFatEnt - 2 THEN @ - 1 ELSE @]
          = [p EXCEPT !.fs.last = d, !.fs.fsi = z, !.fs.free = x]
    BY <1>3 DEF CallSet, Volumes, FsSet
  <2> HIDE DEF x, z
  <2>2. [p EXCEPT !.fs.last = d, !.fs.fsi = z, !.fs.free = x] = k
    BY <1>3 DEF CallSet, Volumes, FsSet
  <2> QED
    BY <2>1, <2>2
<1>5. x \in Int /\ z \in Nat /\ e \in Nat
  BY <1>3, DirtyIs, LayoutIs DEF DISKERR
<1>6. /\ k \in Steady(q) /\ SameRest(p, k) /\ SameFat(p, k) /\ k.res = p.res /\ k.fs.free = x
  <2>0. p \in Steady(q) /\ x \in Int /\ z \in Nat /\ d \in Nat
    BY <1>0, <1>3, <1>5
  <2> HIDE DEF x, z, d
  <2>1. \A aa \in Int, bb \in Nat, cc \in Nat :
          LET u == [p EXCEPT !.fs = [[[p.fs EXCEPT !.last = bb] EXCEPT !.fsi = cc] EXCEPT !.free = aa]]
          IN  /\ u \in Steady(q) /\ SameRest(p, u) /\ SameFat(p, u)
              /\ u.res = p.res /\ u.ret = p.ret /\ u.fs.free = aa
    <3>1. \A pp \in Steady(q) : \A aa \in Int, bb \in Nat, cc \in Nat :
          LET u == [pp EXCEPT !.fs = [[[pp.fs EXCEPT !.last = bb] EXCEPT !.fsi = cc] EXCEPT !.free = aa]]
          IN  /\ u \in Steady(q) /\ SameRest(pp, u) /\ SameFat(pp, u)
              /\ u.res = pp.res /\ u.ret = pp.ret /\ u.fs.free = aa
      BY CountSet, Zenon
    <3>2. p \in Steady(q)
      BY <2>0
    <3> HIDE DEF k, e
    <3> QED
      BY <3>1, <3>2, Zenon
  <2>2. /\ k \in Steady(q) /\ SameRest(p, k) /\ SameFat(p, k)
        /\ k.res = p.res /\ k.ret = p.ret /\ k.fs.free = x
    BY <2>0, <2>1, Zenon
  <2> QED
    BY <2>2
<1>7. CASE p.res # "OK"
  <2> DEFINE w == Ret(p, e)
  <2>1. w \in CallSet /\ w.res = "OK" /\ w.ret = e /\ SameCard(p, w) /\ SameWork(p, w)
    BY <1>3, <1>5, RetKeeps
  <2>2. p \in Good(q)
    BY <1>1, <1>3, <1>7 DEF Good
  <2> HIDE DEF w
  <2>3. w \in Good(q)
    BY <2>1, <2>2, SameCardKeeps
  <2> QED
    BY <1>1, <1>2, <1>7, <2>1, <2>3 DEF w, SameRest, SameWork
<1>8. CASE p.res = "OK"
  <2> DEFINE w == Ret(k, d)
  <2>1. LinkNew(v, c) = w
    BY <1>2, <1>4, <1>8
  <2>2. q => k.fs.free = NOCOUNT \/ k.fs.free = Cardinality(Freed(Fat(k.disk, k.fs)))
    <3>1. SUFFICES ASSUME q
                   PROVE  k.fs.free = NOCOUNT \/ k.fs.free = Cardinality(Freed(Fat(k.disk, k.fs)))
      OBVIOUS
    <3> DEFINE m == Cardinality(Freed(Fat(v.disk, v.fs)))
               j == Cardinality(Freed(Fat(k.disk, k.fs)))
    <3>2. p.fs.free = v.fs.free
      BY <1>1 DEF Entered, SameFs
    <3>3. v.fs.free = NOCOUNT \/ v.fs.free = m
      BY <3>1, CountIs
    <3>4. m \in 0 .. NFatEnt - 2
      <4>1. Fat(v.disk, v.fs) \in [ClusterNos -> FatValues]
        BY <1>0, FatTyped DEF Steady
      <4> QED
        BY <1>0, <4>1, FreedAre, NumbersApart
    <3>5. j = m - 1
      BY <1>1, <1>6, <3>1 DEF SameFat
    <3> HIDE DEF m, j
    <3>6. k.fs.free = NOCOUNT \/ k.fs.free = j
      <4> HIDE DEF k
      <4> QED
        BY <1>6, <3>2, <3>3, <3>4, <3>5, LayoutIs DEF NOCOUNT
    <3> QED
      BY <3>6 DEF j
  <2> HIDE DEF k
  <2>3. k \in Good(q) /\ k \in CallSet
    BY <1>6, <2>2 DEF Good, Steady, Counted
  <2>4. w \in CallSet /\ w.res = "OK" /\ w.ret = d /\ SameCard(k, w) /\ SameWork(k, w)
    BY <1>0, <2>3, RetKeeps
  <2> HIDE DEF w
  <2>5. w \in Good(q) /\ SameWork(v, w)
    BY <1>1, <1>6, <2>3, <2>4, SameCardKeeps DEF SameRest, SameWork
  <2> QED
    BY <1>0, <2>1, <2>4, <2>5
<1> QED
  BY <1>7, <1>8

Created(q, v, w) == /\ w \in Good(q) /\ SameWork(v, w) /\ w.res = "OK"
                    /\ w.ret \in {0, 1, DISKERR} \union RealClusters

(* Another number in a call's ret. *)
LEMMA RetIsCreated ==
  ASSUME NEW q \in BOOLEAN, NEW v, NEW g \in Good(q), SameWork(v, g),
         NEW c \in {0, 1, DISKERR} \union RealClusters
  PROVE  Created(q, v, Ret(g, c))
<1> DEFINE w == Ret(g, c)
<1>1. g \in CallSet /\ c \in Nat
  <2>1. g \in CallSet
    BY DEF Good, Steady
  <2>2. \A x \in RealClusters : x \in Nat
    BY NumbersApart
  <2> QED
    BY <2>1, <2>2, NumbersApart
<1>2. w \in CallSet /\ w.res = "OK" /\ w.ret = c /\ SameCard(g, w) /\ SameWork(g, w)
  BY <1>1, RetKeeps
<1> HIDE DEF w
<1>3. w \in Good(q)
  BY <1>2, SameCardKeeps
<1> QED
  BY <1>2, <1>3 DEF Created, SameWork, w

(* The search and the link together give create_chain's answer and keep    *)
(* the count right.                                                        *)
LEMMA FindAndLinkKeeps ==
  ASSUME NEW q \in BOOLEAN, NEW v \in Good(q), NEW scl \in Nat, NEW c \in Nat,
         q /\ c # 0 => c \in RealClusters /\ Fat(v.disk, v.fs)[c] # 0
  PROVE  Created(q, v, FindAndLink(v, scl, c))
<1> DEFINE f == FindFree(v, scl)
           w == LinkNew(f, c)
<1>1. FindAndLink(v, scl, c) = IF f.ret \in {0, 1, DISKERR} THEN f ELSE w
  BY Zenon DEF FindAndLink, With
<1>2. Calm(q, v, f) /\ SameWork(v, f) /\ f.res = "OK" /\ Found(q, v, f.ret)
  <2>1. v \in Steady(q)
    BY DEF Good
  <2> QED
    BY <2>1, FindFreeKeeps
<1> HIDE DEF f
<1>3. f \in Good(q)
  BY <1>2, CalmKeepsGood
<1>4. CASE f.ret \in {0, 1, DISKERR}
  BY <1>1, <1>2, <1>3, <1>4 DEF Created
<1>5. CASE f.ret \notin {0, 1, DISKERR}
  <2>1. f.ret \in RealClusters /\ (q => Fat(f.disk, f.fs)[f.ret] = 0)
    BY <1>2, <1>5 DEF Found, Calm, SameFat
  <2>2. q /\ c # 0 => c \in RealClusters /\ Fat(f.disk, f.fs)[c] # 0
    BY <1>2 DEF Calm, SameFat
  <2>3. w \in Good(q) /\ SameWork(f, w) /\ w.res = "OK" /\ w.ret \in {1, DISKERR} \union RealClusters
    BY <1>3, <2>1, <2>2, LinkNewKeeps
  <2> HIDE DEF w
  <2> QED
    BY <1>1, <1>2, <1>5, <2>3 DEF Created, SameWork
<1> QED
  BY <1>4, <1>5

(* What was created after a step that only read was created by both. *)
LEMMA CreatedAfter ==
  ASSUME NEW q, NEW v, NEW g, NEW w, SameWork(v, g), Created(q, g, w)
  PROVE  Created(q, v, w)
BY DEF Created, SameWork

(* To stretch a chain keeps the count right, whether the cluster beside    *)
(* its last one is free or not.                                            *)
LEMMA StretchChainKeeps ==
  ASSUME NEW q \in BOOLEAN, NEW v \in Good(q), NEW c \in RealClusters,
         q => Fat(v.disk, v.fs)[c] # 0
  PROVE  Created(q, v, StretchChain(v, c))
<1> DEFINE last == v.fs.last
           beside == IF c + 1 >= NFatEnt THEN 2 ELSE c + 1
           g == get_fat(v, beside)
           r == Ret(g, beside)
           x == LinkNew(r, c)
           scl == IF last >= 2 /\ last < NFatEnt THEN last ELSE c
           y == FindAndLink(g, scl, c)
<1>1. StretchChain(v, c) = IF g.ret \in {1, DISKERR} THEN g ELSE IF g.ret = 0 THEN x ELSE y
  BY Zenon DEF StretchChain, With
<1>2. c \in Nat /\ scl \in Nat /\ beside \in RealClusters /\ beside \in Nat /\ c # 0
  <2>1. v.fs.last \in Nat
    BY DEF Good, Steady, CallSet, Volumes, FsSet
  <2> QED
    BY <2>1, LayoutIs DEF RealClusters
<1> HIDE DEF beside, scl
<1>3. /\ Calm(q, v, g) /\ SameWork(v, g) /\ g.res = "OK"
      /\ g.ret \in FatValues \union {1, DISKERR}
      /\ q => g.ret = Fat(v.disk, v.fs)[beside]
  <2>1. v \in Steady(q)
    BY DEF Good
  <2> QED
    BY <1>2, <2>1, GetFatKeeps
<1> HIDE DEF g
<1>4. g \in Good(q) /\ g \in CallSet
  BY <1>3, CalmKeepsGood DEF Good, Steady
<1>5. q => Fat(g.disk, g.fs) = Fat(v.disk, v.fs)
  BY <1>3 DEF Calm, SameFat
<1>6. CASE g.ret \in {1, DISKERR}
  BY <1>1, <1>3, <1>4, <1>6 DEF Created
<1>7. CASE g.ret = 0
  <2>1. r \in CallSet /\ r.ret = beside /\ SameCard(g, r) /\ SameWork(g, r)
    BY <1>2, <1>4, RetKeeps
  <2> HIDE DEF r
  <2>2. r \in Good(q) /\ r.ret \in RealClusters
    BY <1>2, <1>4, <2>1, SameCardKeeps
  <2>3. q => Fat(r.disk, r.fs) = Fat(v.disk, v.fs)
    BY <1>5, <2>1 DEF SameCard
  <2>4. /\ q => Fat(r.disk, r.fs)[r.ret] = 0
        /\ q /\ c # 0 => c \in RealClusters /\ Fat(r.disk, r.fs)[c] # 0
    BY <1>3, <1>7, <2>1, <2>3
  <2>5. x \in Good(q) /\ SameWork(r, x) /\ x.res = "OK" /\ x.ret \in {1, DISKERR} \union RealClusters
    BY <1>2, <2>2, <2>4, LinkNewKeeps
  <2>6. StretchChain(v, c) = x
    BY <1>1, <1>7, NumbersApart
  <2> HIDE DEF x
  <2> QED
    BY <1>3, <2>1, <2>5, <2>6 DEF Created, SameWork
<1>8. CASE g.ret \notin {0, 1, DISKERR}
  <2>1. Created(q, g, y)
    BY <1>2, <1>4, <1>5, FindAndLinkKeeps
  <2> HIDE DEF y
  <2> QED
    BY <1>1, <1>3, <1>8, <2>1, CreatedAfter
<1> QED
  BY <1>6, <1>7, <1>8

(* create_chain keeps the count of free clusters and both FATs. *)
THEOREM CreateChainKeeps ==
  ASSUME NEW q \in BOOLEAN, NEW v \in Good(q), NEW c \in Nat
  PROVE  Created(q, v, create_chain(v, c))
<1> DEFINE last == v.fs.last
           scl == IF last = 0 \/ last >= NFatEnt THEN 1 ELSE last
           g == get_fat(v, c)
           x == FindAndLink(v, scl, 0)
           y == StretchChain(g, c)
<1>1. create_chain(v, c) =
        IF c = 0 THEN (IF v.fs.free = 0 THEN Ret(v, 0) ELSE x)
        ELSE IF g.ret < 2 THEN Ret(g, 1)
        ELSE IF g.ret = DISKERR \/ g.ret < NFatEnt THEN g
        ELSE IF g.fs.free = 0 THEN Ret(g, 0) ELSE y
  BY Zenon DEF create_chain, With
<1>2. scl \in Nat /\ v \in Steady(q)
  BY DEF Good, Steady, CallSet, Volumes, FsSet
<1> HIDE DEF scl
<1>3. CASE c = 0
  <2>1. Created(q, v, x)
    BY <1>2, <1>3, FindAndLinkKeeps
  <2>2. Created(q, v, Ret(v, 0))
    BY RetIsCreated DEF SameWork
  <2> HIDE DEF x
  <2> QED
    BY <1>1, <1>3, <2>1, <2>2
<1>4. CASE c # 0
  <2>1. /\ Calm(q, v, g) /\ SameWork(v, g) /\ g.res = "OK"
        /\ g.ret \in FatValues \union {1, DISKERR}
        /\ c \notin RealClusters => g.ret = 1
        /\ q /\ c \in RealClusters => g.ret = Fat(v.disk, v.fs)[c]
    BY <1>2, GetFatKeeps
  <2> HIDE DEF g
  <2>2. g \in Good(q) /\ g \in CallSet /\ g.ret \in Nat
    BY <2>1, CalmKeepsGood DEF Good, Steady, CallSet
  <2>3. Created(q, v, Ret(g, 1)) /\ Created(q, v, Ret(g, 0))
    BY <2>1, <2>2, RetIsCreated
  <2>4. CASE g.ret < 2
    BY <1>1, <1>4, <2>3, <2>4
  <2>5. CASE ~(g.ret < 2) /\ (g.ret = DISKERR \/ g.ret < NFatEnt)
    <3>1. g.ret = DISKERR \/ g.ret \in RealClusters
      BY <2>2, <2>5, LayoutIs DEF RealClusters
    <3>2. Created(q, v, g)
      BY <2>1, <2>2, <3>1 DEF Created
    <3> QED
      BY <1>1, <1>4, <2>5, <3>2
  <2>6. CASE ~(g.ret < 2) /\ g.ret # DISKERR /\ ~(g.ret < NFatEnt)
    <3>1. c \in RealClusters /\ g.ret # 0
      BY <2>1, <2>6
    <3>2. q => Fat(g.disk, g.fs)[c] # 0
      BY <2>1, <3>1 DEF Calm, SameFat
    <3>3. Created(q, g, y)
      BY <2>2, <3>1, <3>2, StretchChainKeeps
    <3> HIDE DEF y
    <3>4. Created(q, v, y)
      BY <2>1, <3>3, CreatedAfter
    <3> QED
      BY <1>1, <1>4, <2>3, <2>6, <3>4
  <2> QED
    BY <2>4, <2>5, <2>6
<1> QED
  BY <1>3, <1>4

-----------------------------------------------------------------------------
(* What is written past the window, and sync_fs. *)
LEMMA WriteElsewhere ==
  ASSUME NEW q \in BOOLEAN, NEW v \in Steady(q), NEW s \in Sectors, NEW c \in Holds(s),
         s < FatBase \/ s >= RootSect
  PROVE  LET w == DiskWrite(v, s, c)
         IN  /\ Calm(q, v, w) /\ SameRest(v, w) /\ w.fs = v.fs
             /\ w.res \in {"OK", "DISK_ERR"} /\ (q => w.res = "OK")
<1> DEFINE w == DiskWrite(v, s, c)
<1>0. v \in CallSet /\ v.disk \in Cards
  BY DEF Steady, CallSet
<1>1. /\ w \in CallSet /\ w.fs = v.fs /\ w.to = v.to /\ w.from = v.from
      /\ SameRest(v, w) /\ w.res \in {"OK", "DISK_ERR"}
      /\ w.res # "OK" => Fails(v) /\ w.disk = v.disk
      /\ w.res = "OK" => w.disk = [v.disk EXCEPT ![s] = c]
  BY <1>0, DiskWriteKeeps
<1> HIDE DEF w
<1>2. q => w.res = "OK"
  <2>1. q => v \in Steady(TRUE)
    OBVIOUS
  <2> QED
    BY <1>1, <2>1, NoFail
<1>3. \A t \in Sectors : t # s => w.disk[t] = v.disk[t]
  <2>1. DOMAIN v.disk = Sectors
    BY <1>0 DEF Cards
  <2> QED
    BY <1>1, <2>1
<1>4. \A t \in FatSects : /\ t \in Sectors /\ t # s
                          /\ FatCopies = 2 => t + FatSize \in Sectors /\ t + FatSize # s
  <2>1. ASSUME NEW t \in FatSects
        PROVE  /\ t \in Sectors /\ t # s
               /\ FatCopies = 2 => t + FatSize \in Sectors /\ t + FatSize # s
    <3>1. t \in Nat /\ t >= FatBase /\ t < FatBase + FatSize /\ s \in Nat
      BY LayoutIs, AreasApart DEF FatSects
    <3> QED
      BY <3>1, LayoutIs, AreasApart
  <2> QED
    BY <2>1
<1>5. \A t \in FatSects : Seen(w.disk, w.fs)[t] = Seen(v.disk, v.fs)[t]
  BY <1>0, <1>1, <1>3, <1>4, SeenIs
<1>6. SameFat(v, w)
  BY <1>0, <1>1, <1>5, SeenSame
<1>7. Healthy(v.disk, v.fs) => Healthy(w.disk, w.fs)
  BY <1>1, <1>3, <1>4 DEF Healthy, Coherent, FatCopiesSame, FatSects
<1>8. w \in Steady(q)
  BY <1>1, <1>7 DEF Steady
<1> QED
  BY <1>1, <1>2, <1>6, <1>8 DEF Calm, SameFs, w

(* A window with nothing to be written is put on another sector. *)
Placed(v, s, c) == [v EXCEPT !.fs = [[v.fs EXCEPT !.win = c] EXCEPT !.winsect = s]]

(* A clean window may be moved to a sector that is not of the FAT with     *)
(* contents that are to be written there.                                  *)
LEMMA WindowPut ==
  ASSUME NEW q \in BOOLEAN, NEW v \in Steady(q), ~v.fs.wflag, NEW s \in WinSects, s \notin FatSects,
         NEW c \in SectorSet, s \notin TableArea => c \in Holds(s)
  PROVE  LET w == Placed(v, s, c)
         IN  /\ Calm(q, v, w) /\ SameRest(v, w) /\ w.res = v.res /\ ~w.fs.wflag
             /\ w.fs.winsect = s /\ w.fs.win = c /\ w.disk = v.disk
<1> DEFINE f == v.fs
           g == [[f EXCEPT !.win = c] EXCEPT !.winsect = s]
           w == [v EXCEPT !.fs = g]
<1>0. v \in CallSet /\ f \in Volumes
  BY DEF Steady, CallSet
<1>1. g \in Volumes /\ SameFs(f, g) /\ g.win = c /\ g.winsect = s /\ ~g.wflag
  <2> DEFINE h == [f EXCEPT !.win = c]
  <2>1. h \in FsSet /\ h.wflag = FALSE /\ SameFs(f, h) /\ h.win = c
    BY <1>0 DEF Volumes, FsSet, SameFs
  <2> HIDE DEF h
  <2>2. [h EXCEPT !.winsect = s] \in FsSet
    BY <2>1 DEF FsSet
  <2>3. g = [h EXCEPT !.winsect = s]
    BY DEF h
  <2>4. g.wflag = FALSE /\ SameFs(f, g) /\ g.win = c /\ g.winsect = s /\ g \in FsSet
    BY <2>1, <2>2, <2>3 DEF FsSet, SameFs
  <2> HIDE DEF g
  <2> QED
    BY <2>4 DEF Volumes, WindowHolds
<1> HIDE DEF g
<1>2. /\ w \in CallSet /\ w.fs = g /\ w.disk = v.disk /\ w.res = v.res
      /\ w.to = v.to /\ w.from = v.from /\ SameRest(v, w)
  BY <1>0, <1>1, SetFs
<1> HIDE DEF w
<1>3. SameFat(v, w)
  BY <1>0, <1>1, <1>2, WindowElsewhere
<1>4. w \in Steady(q)
  BY <1>1, <1>2 DEF Steady, Healthy, Coherent, SameFs
<1> QED
  BY <1>1, <1>2, <1>3, <1>4 DEF Calm, Placed, w, g

(* Sync_fs writes FSInfo where it belongs, and loses neither the FAT nor   *)
(* the count.                                                              *)
THEOREM SyncFsKeeps ==
  ASSUME NEW q \in BOOLEAN, NEW v \in Good(q)
  PROVE  LET w == sync_fs(v)
         IN  w \in Good(q) /\ SameRest(v, w) /\ w.res \in {"OK", "DISK_ERR"} /\ (q => w.res = "OK")
<1> DEFINE w == sync_window(v)
           c == FsInfo(w.fs.free, w.fs.last)
           i == Placed(w, FsInfoSect, c)
           d == DiskWrite(i, FsInfoSect, c)
           z == [d EXCEPT !.fs = [d.fs EXCEPT !.fsi = 0]]
<1>0. v \in Steady(q)
  BY DEF Good
<1>1. /\ Calm(q, v, w) /\ SameRest(v, w) /\ w.res \in {"OK", "DISK_ERR"}
      /\ q => w.res = "OK"
      /\ w.res = "OK" => w.fs = [v.fs EXCEPT !.wflag = FALSE]
  BY <1>0, SyncWindowKeeps, SyncWindowCalm
<1>2. sync_fs(v) = IF w.res = "OK" THEN
                      IF FatType = 3 /\ w.fs.fsi = 1
                      THEN LET j == [w EXCEPT !.fs.win = FsInfo(w.fs.free, w.fs.last),
                                              !.fs.winsect = FsInfoSect]
                           IN  OK([DiskWrite(j, FsInfoSect, j.fs.win) EXCEPT !.fs.fsi = 0])
                      ELSE w
                   ELSE w
  BY Zenon DEF sync_fs, Then
<1> HIDE DEF w
<1>3. w \in Good(q) /\ w \in Steady(q) /\ w \in CallSet /\ w.fs \in Volumes
  BY <1>1, CalmKeepsGood DEF Calm, Steady, CallSet
<1>4. CASE ~(w.res = "OK" /\ FatType = 3 /\ w.fs.fsi = 1)
  <2>1. sync_fs(v) = w
    BY <1>2, <1>4
  <2> QED
    BY <1>1, <1>3, <2>1
<1>5. CASE w.res = "OK" /\ FatType = 3 /\ w.fs.fsi = 1
  <2>0. ~w.fs.wflag
    <3>1. v.fs \in Volumes
      BY <1>0 DEF Steady, CallSet
    <3> QED
      BY <1>1, <1>5, <3>1, WflagCleared
  <2>1. FsInfoSect \in WinSects /\ FsInfoSect < FatBase /\ FsInfoSect \in Sectors /\ FsInfoSect # 0
    BY <1>5, AreasApart
  <2>2. c \in Holds(FsInfoSect) /\ c \in SectorSet
    <3>1. c \in InfoSet
      BY <1>3 DEF Volumes, FsSet, InfoSet, FsInfo
    <3> HIDE DEF c
    <3> QED
      BY <2>1, <3>1 DEF Holds, SectorSet
  <2>3. FsInfoSect \notin FatSects /\ FsInfoSect \notin TableArea
    <3>1. FsInfoSect \in Nat /\ FsInfoSect < RootSect
      BY <2>1, LayoutIs DEF FsInfoSect
    <3> QED
      BY <2>1, <3>1, AreasApart, LayoutIs DEF FatSects
  <2> DEFINE j == [w EXCEPT !.fs.win = FsInfo(w.fs.free, w.fs.last), !.fs.winsect = FsInfoSect]
             y == OK([DiskWrite(j, FsInfoSect, j.fs.win) EXCEPT !.fs.fsi = 0])
  <2>4. j = i
    <3> HIDE DEF c
    <3>1. j = [w EXCEPT !.fs.win = c, !.fs.winsect = FsInfoSect]
      BY DEF c
    <3> HIDE DEF j
    <3>2. [w EXCEPT !.fs.win = c, !.fs.winsect = FsInfoSect] = i
      BY <1>3 DEF CallSet, Volumes, FsSet, Placed
    <3> QED
      BY <3>1, <3>2
  <2>5. sync_fs(v) = y
    BY <1>2, <1>5
  <2> HIDE DEF j, c
  <2>6. /\ Calm(q, w, i) /\ SameRest(w, i) /\ i.res = w.res /\ ~i.fs.wflag
        /\ i.fs.winsect = FsInfoSect /\ i.fs.win = c
    BY <1>3, <2>0, <2>1, <2>2, <2>3, WindowPut
  <2>7. y = OK([d EXCEPT !.fs.fsi = 0])
    <3> HIDE DEF i
    <3> QED
      BY <2>4, <2>6
  <2> HIDE DEF y, i
  <2>8. i \in Good(q) /\ i \in Steady(q)
    BY <1>3, <2>6, CalmKeepsGood DEF Calm
  <2>9. /\ Calm(q, i, d) /\ SameRest(i, d)
    BY <2>1, <2>2, <2>8, WriteElsewhere
  <2> HIDE DEF d
  <2>10. d \in Good(q) /\ d \in Steady(q) /\ d.fs \in Volumes /\ d \in CallSet
    BY <2>8, <2>9, CalmKeepsGood DEF Calm, Steady, CallSet
  <2>11. [d EXCEPT !.fs.fsi = 0] = z
    BY <2>10 DEF CallSet
  <2> DEFINE g == [d.fs EXCEPT !.fsi = 0]
  <2>12. /\ g \in Volumes /\ g.free = d.fs.free /\ g.reg = d.fs.reg /\ g.type = d.fs.type
         /\ g.win = d.fs.win /\ g.winsect = d.fs.winsect /\ g.wflag = d.fs.wflag
    BY <2>10, SetNumber
  <2> HIDE DEF g
  <2>13. z = [d EXCEPT !.fs = g]
    BY DEF g
  <2> HIDE DEF z
  <2>14. z \in Steady(q) /\ z.fs = g /\ SameRest(d, z) /\ SameFat(d, z)
    BY <2>10, <2>12, <2>13, NumbersChanged
  <2>15. z \in Good(q) /\ z \in CallSet
    BY <2>10, <2>12, <2>14, SameCount DEF Steady
  <2> DEFINE o == OK(z)
  <2>16. o \in CallSet /\ o.res = "OK" /\ SameCard(z, o) /\ SameRest(z, o)
    BY <2>15, OKKeeps
  <2>17. sync_fs(v) = o
    BY <2>5, <2>7, <2>11
  <2> HIDE DEF o
  <2>18. o \in Good(q)
    BY <2>15, <2>16, SameCardKeeps
  <2>19. SameRest(v, o)
    BY <1>1, <2>6, <2>9, <2>14, <2>16 DEF SameRest, SameWork
  <2> QED
    BY <2>16, <2>17, <2>18, <2>19
<1> QED
  BY <1>4, <1>5

-----------------------------------------------------------------------------
(* Results, set on a call that keeps what it should. *)
LEMMA ResCalm ==
  ASSUME NEW q \in BOOLEAN, NEW v, NEW u, Calm(q, v, u), NEW r \in Results
  PROVE  LET w == Res(u, r)
         IN  /\ Calm(q, v, w) /\ w \in Steady(q) /\ w \in CallSet /\ w.res = r
             /\ SameRest(u, w) /\ SameCard(u, w)
<1>1. u \in Steady(q) /\ u \in CallSet
  BY DEF Calm, Steady
<1> DEFINE w == Res(u, r)
<1>2. w \in CallSet /\ w.res = r /\ SameCard(u, w) /\ SameRest(u, w)
  BY <1>1, ResKeeps
<1> HIDE DEF w
<1>3. Calm(q, u, w)
  BY <1>1, <1>2, SameCardIsCalm
<1>4. Calm(q, v, w)
  BY <1>3, CalmThenCalm
<1>5. w \in Steady(q)
  BY <1>3 DEF Calm
<1> QED
  BY <1>2, <1>4, <1>5 DEF w

(* The same for a call with the right count. *)
LEMMA ResGood ==
  ASSUME NEW q \in BOOLEAN, NEW u \in Good(q), NEW r \in Results
  PROVE  LET w == Res(u, r)
         IN  /\ w \in Good(q) /\ w \in Steady(q) /\ w \in CallSet /\ w.res = r
             /\ SameRest(u, w) /\ SameCard(u, w)
<1>1. u \in Steady(q) /\ u \in CallSet
  BY DEF Good, Steady
<1> DEFINE w == Res(u, r)
<1>2. w \in CallSet /\ w.res = r /\ SameCard(u, w) /\ SameRest(u, w)
  BY <1>1, ResKeeps
<1> HIDE DEF w
<1>3. w \in Good(q)
  BY <1>2, SameCardKeeps
<1> QED
  BY <1>2, <1>3 DEF w, Good

(* A sector of a table or a file is one, and no sector of the FAT. *)
LEMMA TableHolds ==
  ASSUME NEW s \in TableArea
  PROVE  s \in Sectors /\ s >= RootSect /\ Holds(s) = TableSet /\ s \in WinSects /\ s \notin FatSects
<1>1. s \in Nat /\ s >= RootSect /\ s # 0
  BY AreasApart
<1> QED
  BY <1>1, AreasApart, LayoutIs DEF Holds

(* A write of sectors of tables and files leaves the FAT alone. *)
LEMMA WriteSectorsKeeps ==
  ASSUME NEW q \in BOOLEAN, NEW v \in Steady(q), NEW s \in Int, NEW m \in Nat, NEW c,
         \A i \in 1..m : s + i - 1 \in TableArea /\ c[i] \in TableSet
  PROVE  LET w == WriteSectors(v, s, c, m)
         IN  /\ Calm(q, v, w) /\ SameRest(v, w) /\ w.fs = v.fs
             /\ w.res \in {"OK", "DISK_ERR"} /\ (q => w.res = "OK")
<1> DEFINE n == m
           a == Again(v)
           V == {u \in Steady(q) : Calm(q, v, u) /\ SameRest(v, u) /\ u.fs = v.fs /\ u.res \in {GO, "DISK_ERR"} /\ (q => u.res = GO)}
           B(u, k) == IF u.res = GO THEN Then(DiskWrite(u, s + k - 1, c[k]), Again) ELSE u
           F(h) == [k \in 0..n |-> IF k = 0 THEN a ELSE B(h[k - 1], k)]
           at == CHOOSE h : h = F(h)
           G == [p \in V \X (1..n) |-> B(p[1], p[2])]
<1>0. Calm(q, v, v)
  BY SameCardIsCalm DEF Steady, SameCard
<1>1. n \in Nat /\ a \in V
  <2> DEFINE z == Res(v, GO)
  <2>1. Calm(q, v, z) /\ z \in Steady(q) /\ z.res = GO /\ SameRest(v, z) /\ SameCard(v, z)
    BY <1>0, ResCalm, ResultsAre
  <2>2. a = z
    BY DEF Again
  <2> HIDE DEF z, a
  <2> QED
    BY <2>1, <2>2 DEF SameCard
<1>2. \A u \in V, k \in 1..n : B(u, k) \in V
  <2>1. ASSUME NEW u \in V, NEW k \in 1..n PROVE B(u, k) \in V
    <3> DEFINE t == s + k - 1
               y == c[k]
               w == DiskWrite(u, t, y)
               z == Res(w, GO)
    <3>1. t \in TableArea /\ y \in TableSet
      OBVIOUS
    <3> HIDE DEF t, y
    <3>2. t \in Sectors /\ t >= RootSect /\ y \in Holds(t)
      BY <3>1, TableHolds
    <3>3. /\ Calm(q, u, w) /\ SameRest(u, w) /\ w.fs = u.fs
          /\ w.res \in {"OK", "DISK_ERR"} /\ (q => w.res = "OK")
      <4>1. u \in Steady(q)
        OBVIOUS
      <4> HIDE DEF V, B, F, at, G
      <4> QED
        BY <3>2, <4>1, WriteElsewhere
    <3> HIDE DEF w
    <3>4. Calm(q, v, w) /\ w \in Steady(q) /\ SameRest(v, w) /\ w.fs = v.fs
      BY <3>3, CalmThenCalm DEF Calm, SameRest, SameWork
    <3>5. /\ Calm(q, v, z) /\ z \in Steady(q) /\ z.res = GO /\ SameRest(w, z) /\ SameCard(w, z)
      BY <3>4, ResCalm, ResultsAre
    <3> HIDE DEF z
    <3>6. B(u, k) = IF u.res = GO THEN (IF w.res = "OK" THEN z ELSE w) ELSE u
      BY Zenon DEF Then, Again, w, z, t, y
    <3>7. z \in V
      BY <3>4, <3>5 DEF SameCard, SameRest, SameWork
    <3>8. w.res # "OK" => w \in V
      BY <3>3, <3>4
    <3> HIDE DEF V, B
    <3> QED
      BY <3>6, <3>7, <3>8
  <2> QED
    BY <2>1
<1>3. WriteSectors(v, s, c, m) = IF at[n].res = GO THEN Res(at[n], "OK") ELSE at[n]
  BY Zenon DEF WriteSectors, Rounds, With
<1> HIDE DEF a, V, B, n
<1>4. G \in [V \X (1..n) -> V] /\ \A u \in V, k \in 1..n : G[<<u, k>>] = B(u, k)
  BY <1>2
<1> HIDE DEF G
<1>5. PICK g \in [0..n -> V] : Runs(g, V, a, G, n)
  BY <1>1, <1>4, LoopRuns, Zenon
<1>6. g = F(g)
  <2>1. \A k \in 1..n : g[k] = B(g[k - 1], k)
    BY <1>4, <1>5, Zenon DEF Runs
  <2>2. \A k \in 0..n : g[k] = IF k = 0 THEN a ELSE B(g[k - 1], k)
    BY <1>5, <2>1 DEF Runs
  <2> QED
    BY <2>2
<1>7. at = F(at)
  BY <1>6
<1> HIDE DEF at
<1>8. at[0] = a /\ \A k \in 1..n : at[k] = B(at[k - 1], k)
  BY <1>1, <1>7
<1>9. at[n] \in V
  <2>1. \A k \in 1..n : at[k - 1] \in V => at[k] \in V
    BY <1>2, <1>8, Zenon
  <2> QED
    BY <1>1, <1>8, <2>1, LoopStays, Zenon
<1> DEFINE e == at[n]
<1>10. e \in V /\ WriteSectors(v, s, c, m) = IF e.res = GO THEN Res(e, "OK") ELSE e
  BY <1>3, <1>9
<1> HIDE DEF e
<1>11. /\ Calm(q, v, e) /\ SameRest(v, e) /\ e.fs = v.fs /\ e.res \in {GO, "DISK_ERR"}
       /\ q => e.res = GO
  BY <1>10 DEF V
<1> DEFINE o == Res(e, "OK")
<1>12. Calm(q, v, o) /\ o.res = "OK" /\ SameRest(e, o) /\ SameCard(e, o)
  BY <1>11, ResCalm, ResultsAre
<1>13. WriteSectors(v, s, c, m) = IF e.res = GO THEN o ELSE e
  BY <1>10
<1> HIDE DEF o
<1> QED
  BY <1>11, <1>12, <1>13 DEF SameCard, SameRest, SameWork

(* A cleared sector is a table of free entries. *)
LEMMA ZeroSectorIs ==
  ZeroSector \in TableSet /\ ZeroSector \in SectorSet
<1>1. FreeEntry \in EntrySet
  BY LayoutIs DEF FreeEntry, Entry, EntrySet, Words, ClusterNos
<1>2. ZeroSector \in TableSet
  BY <1>1 DEF ZeroSector, DirSector, TableSet
<1> QED
  BY <1>2 DEF SectorSet

(* Dir_clear clears sectors of its cluster only. *)
LEMMA DirClearKeeps ==
  ASSUME NEW q \in BOOLEAN, NEW v \in Steady(q), NEW c \in RealClusters
  PROVE  LET w == dir_clear(v, c)
         IN  /\ Calm(q, v, w) /\ SameRest(v, w) /\ w.res \in {"OK", "DISK_ERR"}
             /\ q => w.res = "OK"
             /\ w.res = "OK" => w.fs.winsect = clst2sect(c)
<1> DEFINE top == clst2sect(c)
           y == sync_window(v)
           p == Placed(y, top, ZeroSector)
           zs == [i \in 1..ClusterSectors |-> ZeroSector]
           w == WriteSectors(p, top, zs, ClusterSectors)
           j == [y EXCEPT !.fs.winsect = top, !.fs.win = ZeroSector]
<1>1. /\ Calm(q, v, y) /\ SameRest(v, y) /\ y.res \in {"OK", "DISK_ERR"}
      /\ q => y.res = "OK"
      /\ y.res = "OK" => y.fs = [v.fs EXCEPT !.wflag = FALSE]
  BY SyncWindowKeeps, SyncWindowCalm
<1>2. dir_clear(v, c) = IF y.res = "OK" THEN WriteSectors(j, top, zs, ClusterSectors) ELSE y
  BY Zenon DEF dir_clear, Then
<1> HIDE DEF y
<1>3. y \in Steady(q) /\ y \in CallSet /\ y.fs \in Volumes
  BY <1>1 DEF Calm, Steady, CallSet
<1>4. CASE y.res # "OK"
  BY <1>1, <1>2, <1>4
<1>5. CASE y.res = "OK"
  <2>1. ~y.fs.wflag
    <3>1. v.fs \in Volumes
      BY DEF Steady, CallSet
    <3> QED
      BY <1>1, <1>5, <3>1, WflagCleared
  <2>2. /\ top \in Nat
        /\ \A i \in 0 .. ClusterSectors - 1 : top + i \in TableArea
    BY ClusterIsThere DEF RealClusters
  <2>3. top \in TableArea
    <3>1. 0 \in 0 .. ClusterSectors - 1 /\ top + 0 = top
      BY <2>2, GeometryAssumption
    <3> HIDE DEF top
    <3> QED
      BY <2>2, <3>1
  <2>4. j = p
    <3> HIDE DEF top
    <3> QED
      BY <1>3 DEF CallSet, Volumes, FsSet, Placed
  <2> HIDE DEF top, j
  <2>5. /\ Calm(q, y, p) /\ SameRest(y, p) /\ p.res = y.res /\ p.fs.winsect = top
    BY <1>3, <2>1, <2>3, TableHolds, ZeroSectorIs, WindowPut
  <2> HIDE DEF p
  <2>6. /\ Calm(q, p, w) /\ SameRest(p, w) /\ w.fs = p.fs
        /\ w.res \in {"OK", "DISK_ERR"} /\ (q => w.res = "OK")
    <3>1. p \in Steady(q) /\ ClusterSectors \in Nat
      BY <2>5, GeometryAssumption DEF Calm
    <3>2. \A i \in 1..ClusterSectors : top + i - 1 \in TableArea /\ zs[i] \in TableSet
      <4>1. \A i \in 1..ClusterSectors : i - 1 \in 0 .. ClusterSectors - 1 /\ top + (i - 1) = top + i - 1
        BY <2>2, <3>1
      <4>2. \A i \in 1..ClusterSectors : top + i - 1 \in TableArea
        BY <2>2, <4>1
      <4>3. \A i \in 1..ClusterSectors : zs[i] \in TableSet
        BY ZeroSectorIs
      <4> QED
        BY <4>2, <4>3
    <3> HIDE DEF zs
    <3> QED
      BY <2>2, <3>1, <3>2, WriteSectorsKeeps
  <2>7. dir_clear(v, c) = w
    BY <1>2, <1>5, <2>4
  <2> HIDE DEF w
  <2>8. Calm(q, v, w) /\ SameRest(v, w)
    BY <1>1, <2>5, <2>6, CalmThenCalm DEF SameRest, SameWork
  <2> QED
    BY <2>5, <2>6, <2>7, <2>8 DEF top
<1> QED
  BY <1>1, <1>4, <1>5

-----------------------------------------------------------------------------
(* Directories.  Two calls with the same file and the same answer so far.  *)
SameFile(v, w) == w.fp = v.fp /\ w.buf = v.buf /\ w.cnt = v.cnt

(* A DIR that is at an entry has a sector. *)
LEMMA InTableIs ==
  ASSUME NEW x \in DirSet, InTable(x)
  PROVE  x.sect \in TableArea /\ x.sect # 0
<1>0. x.clust \in Nat /\ x.dptr \in Nat /\ x.sect \in TableArea \union {0}
  BY LayoutIs DEF DirSet, ClusterNos
<1>1. DirEntriesPerSector \in Nat \ {0} /\ ClusterSectors \in Nat \ {0}
  BY GeometryAssumption
<1> DEFINE k == x.dptr \div DirEntriesPerSector
<1>2. k \in Nat /\ k % ClusterSectors \in Nat
  BY <1>0, <1>1
<1> HIDE DEF k
<1>3. \A c \in RealClusters : clst2sect(c) \in Nat /\ clst2sect(c) # 0
  BY ClusterIsThere DEF RealClusters
<1>4. x.sect # 0
  BY <1>2, <1>3, LayoutIs DEF InTable, k
<1> QED
  BY <1>0, <1>4

(* The directory object of a call changes. *)
WithDp(v, x) == [v EXCEPT !.dp = x]

(* A call may be given another DIR object, *)
LEMMA DpSet ==
  ASSUME NEW v \in CallSet, NEW x \in DirSet
  PROVE  LET w == WithDp(v, x)
         IN  /\ w \in CallSet /\ w.dp = x /\ w.res = v.res /\ w.ret = v.ret
             /\ SameFile(v, w) /\ SameCard(v, w)
BY SetDp DEF WithDp, SameFile

(* Which leaves the card as it was. *)
LEMMA DpCalm ==
  ASSUME NEW q \in BOOLEAN, NEW v, NEW u, Calm(q, v, u), NEW x \in DirSet
  PROVE  LET w == WithDp(u, x)
         IN  /\ Calm(q, v, w) /\ w \in Steady(q) /\ w \in CallSet
             /\ w.dp = x /\ w.res = u.res /\ w.ret = u.ret /\ SameFile(u, w)
<1>1. u \in Steady(q) /\ u \in CallSet
  BY DEF Calm, Steady
<1> DEFINE w == WithDp(u, x)
<1>2. /\ w \in CallSet /\ w.dp = x /\ w.res = u.res /\ w.ret = u.ret
      /\ SameFile(u, w) /\ SameCard(u, w)
  BY <1>1, DpSet
<1> HIDE DEF w
<1>3. Calm(q, u, w)
  BY <1>1, <1>2, SameCardIsCalm
<1>4. Calm(q, v, w) /\ w \in Steady(q)
  BY <1>3, CalmThenCalm DEF Calm
<1> QED
  BY <1>2, <1>4 DEF w

(* A hop along the chain of a table ends on a real cluster or with an      *)
(* error.                                                                  *)
LEMMA TableHopKeeps ==
  ASSUME NEW q \in BOOLEAN, NEW v \in Steady(q)
  PROVE  LET w == TableHop(v)
         IN  /\ Calm(q, v, w) /\ SameWork(v, w)
             /\ w.res \in {GO, "INT_ERR", "DISK_ERR"}
             /\ w.res = GO => w.ret \in RealClusters
<1> DEFINE g == get_fat(v, v.ret)
           x == Res(g, "DISK_ERR")
           y == Res(g, "INT_ERR")
           z == Res(g, GO)
<1>1. TableHop(v) = IF g.ret = DISKERR THEN x ELSE IF g.ret < 2 \/ g.ret >= NFatEnt THEN y ELSE z
  BY Zenon DEF TableHop, With, Again
<1>2. /\ Calm(q, v, g) /\ SameWork(v, g) /\ g.ret \in Nat
  <2>1. v.ret \in Int
    BY DEF Steady, CallSet
  <2>2. Calm(q, v, get_fat(v, v.ret)) /\ SameWork(v, get_fat(v, v.ret))
    BY <2>1, GetFatKeeps
  <2> QED
    BY <2>2 DEF Calm, Steady, CallSet
<1> HIDE DEF g
<1>3. /\ Calm(q, v, x) /\ x.res = "DISK_ERR" /\ SameRest(g, x)
      /\ Calm(q, v, y) /\ y.res = "INT_ERR" /\ SameRest(g, y)
      /\ Calm(q, v, z) /\ z.res = GO /\ SameRest(g, z)
  BY <1>2, ResCalm, ResultsAre
<1> HIDE DEF x, y, z
<1>4. SameWork(v, x) /\ SameWork(v, y) /\ SameWork(v, z)
  BY <1>2, <1>3 DEF SameRest, SameWork
<1>5. ~(g.ret < 2 \/ g.ret >= NFatEnt) => g.ret \in RealClusters
  BY <1>2, LayoutIs DEF RealClusters
<1>6. z.ret = g.ret
  BY <1>3 DEF SameRest
<1> QED
  BY <1>1, <1>3, <1>4, <1>5, <1>6 DEF GO

(* Dir_sdi's last step puts the DIR at the entry asked for, *)
LEMMA AtEntryKeeps ==
  ASSUME NEW q \in BOOLEAN, NEW v \in Steady(q), v.ret \in ClusterNos, NEW ofs \in Nat, v.dp.dptr = ofs
  PROVE  LET w == AtEntry(v, ofs)
         IN  /\ Calm(q, v, w) /\ SameFile(v, w) /\ w.res \in {"OK", "INT_ERR"}
             /\ w.dp.origin = v.dp.origin
             /\ w.res = "OK" => InTable(w.dp)
<1> DEFINE c == v.ret
           top == clst2sect(c)
           k == (ofs \div DirEntriesPerSector) % ClusterSectors
           s == IF top = 0 THEN 0 ELSE top + k
           x == [[v.dp EXCEPT !.clust = c] EXCEPT !.sect = s]
           u == WithDp(v, x)
           r == IF top = 0 THEN "INT_ERR" ELSE "OK"
           w == Res(u, r)
<1>0. v \in CallSet /\ v.dp \in DirSet /\ c \in ClusterNos /\ c \in Nat
  BY LayoutIs DEF Steady, CallSet, ClusterNos
<1>1. AtEntry(v, ofs) = w
  <2> DEFINE j == [v EXCEPT !.dp.clust = v.ret, !.dp.sect = IF top = 0 THEN 0 ELSE top + k]
  <2>1. AtEntry(v, ofs) = Res(j, r)
    BY Zenon DEF AtEntry
  <2>2. j = u
    <3> HIDE DEF top, k
    <3> QED
      BY <1>0 DEF CallSet, WithDp, DirSet
  <2> QED
    BY <2>1, <2>2
<1>2. k \in 0 .. ClusterSectors - 1
  <2>1. \A a \in Nat, b, d \in Nat \ {0} : (a \div b) % d \in 0 .. d - 1
    <3>1. ASSUME NEW a \in Nat, NEW b \in Nat \ {0}, NEW d \in Nat \ {0}
          PROVE  (a \div b) % d \in 0 .. d - 1
      <4>1. a \div b \in Nat
        OBVIOUS
      <4> QED
        BY <4>1
    <3> QED
      BY <3>1
  <2> QED
    BY <2>1, GeometryAssumption
<1>3. top # 0 => c \in RealClusters /\ top + k \in TableArea
  <2> HIDE DEF k
  <2>1. /\ top # 0 => c \in RealClusters
        /\ c \in RealClusters => \A i \in 0 .. ClusterSectors - 1 : top + i \in TableArea
    BY <1>0, ClusterIsThere
  <2> HIDE DEF top
  <2> QED
    BY <1>2, <2>1
<1>4. x \in DirSet /\ x.clust = c /\ x.sect = s /\ x.dptr = ofs /\ x.origin = v.dp.origin
  <2>1. s \in TableArea \union {0}
    <3> HIDE DEF top, k
    <3> QED
      BY <1>3
  <2> HIDE DEF s, c
  <2> QED
    BY <1>0, <2>1 DEF DirSet
<1>5. top # 0 => InTable(x)
  <2>1. top # 0 => x.sect = clst2sect(x.clust) + ((x.dptr \div DirEntriesPerSector) % ClusterSectors)
    <3> HIDE DEF x
    <3> QED
      BY <1>4
  <2> HIDE DEF x, top
  <2> QED
    BY <1>3, <1>4, <2>1 DEF InTable
<1> HIDE DEF x
<1>6. /\ Calm(q, v, u) /\ u.dp = x /\ SameFile(v, u)
  <2>1. Calm(q, v, v)
    BY <1>0, SameCardIsCalm DEF SameCard
  <2> QED
    BY <1>4, <2>1, DpCalm
<1> HIDE DEF u, top
<1>7. r \in Results /\ r \in {"OK", "INT_ERR"} /\ (r = "OK" => top # 0)
  BY ResultsAre
<1> HIDE DEF r
<1>8. Calm(q, v, w) /\ w.res = r /\ SameRest(u, w)
  BY <1>6, <1>7, ResCalm
<1> HIDE DEF w
<1> QED
  <2>1. x.origin = v.dp.origin
    BY <1>4
  <2> QED
    BY <1>1, <1>5, <1>6, <1>7, <1>8, <2>1 DEF SameRest, SameWork, SameFile

(* At any distance from the start of the table, *)
LEMMA FollowTableKeeps ==
  ASSUME NEW q \in BOOLEAN, NEW v \in Steady(q), NEW c \in ClusterNos, NEW ofs \in Nat, v.dp.dptr = ofs
  PROVE  LET w == FollowTable(v, c, ofs)
         IN  /\ Calm(q, v, w) /\ SameFile(v, w) /\ w.res \in {"OK", "INT_ERR", "DISK_ERR"}
             /\ w.dp.origin = v.dp.origin
             /\ w.res = "OK" => InTable(w.dp)
<1> DEFINE R == Rounds(Ret(v, c), LAMBDA u, k : TableHop(u),
                       ofs \div (DirEntriesPerSector * ClusterSectors), "OK")
           w == AtEntry(R, ofs)
<1>a. FollowTable(v, c, ofs) = IF R.res = "OK" THEN w ELSE R
  BY Zenon DEF FollowTable, Then
<1> HIDE DEF R
<1> DEFINE n == ofs \div (DirEntriesPerSector * ClusterSectors)
           a == Again(Ret(v, c))
           V == {u \in Steady(q) : Calm(q, v, u) /\ SameWork(v, u) /\ u.res \in {GO, "INT_ERR", "DISK_ERR"} /\ (u.res = GO => u.ret \in ClusterNos)}
           B(u, k) == IF u.res = GO THEN TableHop(u) ELSE u
           F(h) == [k \in 0..n |-> IF k = 0 THEN a ELSE B(h[k - 1], k)]
           at == CHOOSE h : h = F(h)
           G == [p \in V \X (1..n) |-> B(p[1], p[2])]
<1>0. v \in CallSet /\ c \in Nat
  BY LayoutIs DEF Steady, ClusterNos
<1>1. n \in Nat /\ a \in V
  <2> DEFINE r == Ret(v, c)
             z == Res(r, GO)
  <2>1. r \in CallSet /\ SameCard(v, r) /\ SameWork(v, r) /\ r.ret = c
    BY <1>0, RetKeeps
  <2> HIDE DEF r
  <2>2. Calm(q, v, r)
    BY <2>1, SameCardIsCalm
  <2>3. Calm(q, v, z) /\ z \in Steady(q) /\ z.res = GO /\ SameRest(r, z)
    BY <2>2, ResCalm, ResultsAre
  <2>4. a = z
    BY DEF r, Again
  <2> HIDE DEF z, a
  <2>5. SameWork(v, z) /\ z.ret \in ClusterNos
    BY <2>1, <2>3 DEF SameRest, SameWork
  <2>6. a \in V
    BY <2>3, <2>4, <2>5
  <2>7. n \in Nat
    <3>1. \A i, j \in Nat \ {0} : i * j \in Nat \ {0}
      OBVIOUS
    <3>2. \A i \in Nat, j \in Nat \ {0} : i \div j \in Nat
      OBVIOUS
    <3>3. DirEntriesPerSector * ClusterSectors \in Nat \ {0}
      BY <3>1, GeometryAssumption
    <3> QED
      BY <3>2, <3>3
  <2> QED
    BY <2>6, <2>7
<1>2. \A u \in V, k \in 1..n : B(u, k) \in V
  <2>1. ASSUME NEW u \in V PROVE TableHop(u) \in V
    <3> DEFINE y == TableHop(u)
    <3>1. /\ Calm(q, u, y) /\ SameWork(u, y)
          /\ y.res \in {GO, "INT_ERR", "DISK_ERR"}
          /\ y.res = GO => y.ret \in RealClusters
      BY TableHopKeeps
    <3> HIDE DEF y
    <3>2. Calm(q, v, y) /\ y \in Steady(q) /\ SameWork(v, y)
      BY <3>1, CalmThenCalm DEF Calm, SameWork
    <3> QED
      BY <3>1, <3>2, NumbersApart DEF y
  <2> QED
    BY <2>1
<1>3. R = IF at[n].res = GO THEN Res(at[n], "OK") ELSE at[n]
  BY Zenon DEF R, Rounds, With
<1> HIDE DEF a, V, B, n
<1>4. G \in [V \X (1..n) -> V] /\ \A u \in V, k \in 1..n : G[<<u, k>>] = B(u, k)
  BY <1>2
<1> HIDE DEF G
<1>5. PICK g \in [0..n -> V] : Runs(g, V, a, G, n)
  BY <1>1, <1>4, LoopRuns, Zenon
<1>6. g = F(g)
  <2>1. \A k \in 1..n : g[k] = B(g[k - 1], k)
    BY <1>4, <1>5, Zenon DEF Runs
  <2>2. \A k \in 0..n : g[k] = IF k = 0 THEN a ELSE B(g[k - 1], k)
    BY <1>5, <2>1 DEF Runs
  <2> QED
    BY <2>2
<1>7. at = F(at)
  BY <1>6
<1> HIDE DEF at
<1>8. at[0] = a /\ \A k \in 1..n : at[k] = B(at[k - 1], k)
  BY <1>1, <1>7
<1>9. at[n] \in V
  <2>1. \A k \in 1..n : at[k - 1] \in V => at[k] \in V
    BY <1>2, <1>8, Zenon
  <2> QED
    BY <1>1, <1>8, <2>1, LoopStays, Zenon
<1> DEFINE e == at[n]
<1>10. e \in V /\ R = IF e.res = GO THEN Res(e, "OK") ELSE e
  BY <1>3, <1>9
<1> HIDE DEF e
<1>11. /\ Calm(q, v, e) /\ SameWork(v, e) /\ e.res \in {GO, "INT_ERR", "DISK_ERR"}
       /\ e.res = GO => e.ret \in ClusterNos
  BY <1>10 DEF V
<1> DEFINE o == Res(e, "OK")
<1>12. Calm(q, v, o) /\ o.res = "OK" /\ SameRest(e, o)
  BY <1>11, ResCalm, ResultsAre
<1>13. R = IF e.res = GO THEN o ELSE e
  BY <1>10
<1> HIDE DEF o
<1>14. /\ Calm(q, v, R) /\ SameWork(v, R) /\ R.res \in {"OK", "INT_ERR", "DISK_ERR"}
       /\ R.res = "OK" => R.ret \in ClusterNos
  BY <1>11, <1>12, <1>13 DEF SameRest, SameWork, GO
<1>15. CASE R.res # "OK"
  BY <1>14, <1>15, <1>a DEF SameWork, SameFile
<1>16. CASE R.res = "OK"
  <2>1. R \in Steady(q) /\ R.dp.dptr = ofs /\ R.ret \in ClusterNos
    BY <1>14, <1>16 DEF Calm, SameWork
  <2>2. /\ Calm(q, R, w) /\ SameFile(R, w) /\ w.res \in {"OK", "INT_ERR"}
        /\ w.dp.origin = R.dp.origin
        /\ w.res = "OK" => InTable(w.dp)
    BY <2>1, AtEntryKeeps
  <2> HIDE DEF w
  <2>3. Calm(q, v, w) /\ SameFile(v, w) /\ w.dp.origin = v.dp.origin
    BY <1>14, <2>2, CalmThenCalm DEF SameWork, SameFile
  <2> QED
    BY <1>16, <1>a, <2>2, <2>3
<1> QED
  BY <1>15, <1>16

(* In the root directory of FAT16, *)
LEMMA RootSlot ==
  ASSUME NEW ofs \in Nat, ofs < RootEntries
  PROVE  /\ RootSect + ofs \div DirEntriesPerSector \in TableArea
         /\ RootSect + ofs \div DirEntriesPerSector < DataBase
<1> DEFINE D == DirEntriesPerSector
           a == ofs \div D
           b == RootEntries \div D
<1>1. D \in Nat \ {0} /\ RootEntries \in Nat /\ RootEntries % D = 0
  BY GeometryAssumption
<1>2. DataBase = RootSect + b
  BY DEF DataBase
<1> HIDE DEF D
<1>3. a \in Nat /\ b \in Nat /\ ofs = D * a + (ofs % D) /\ ofs % D \in 0 .. D - 1
      /\ RootEntries = D * b + (RootEntries % D)
  BY <1>1
<1> HIDE DEF a, b
<1>4. D * a \in Nat /\ D * b \in Nat /\ D * a < D * b
  BY <1>1, <1>3
<1>5. a < b
  <2>1. SUFFICES ASSUME b <= a PROVE FALSE
    BY <1>3
  <2>2. \A i, j \in Nat : i <= j => D * i <= D * j
    BY <1>1
  <2> QED
    BY <1>3, <1>4, <2>1, <2>2
<1>6. Clusters * ClusterSectors \in Nat
  BY GeometryAssumption
<1> DEFINE t == Clusters * ClusterSectors
<1>7. TableArea = RootSect .. DataBase + t - 1 /\ t \in Nat
  BY <1>6 DEF TableArea
<1> HIDE DEF t
<1> QED
  BY <1>2, <1>3, <1>5, <1>7, LayoutIs DEF a, D

(* Dir_sdi puts the DIR at the entry asked for, or fails. *)
LEMMA DirSdiKeeps ==
  ASSUME NEW q \in BOOLEAN, NEW v \in Steady(q), NEW ofs \in Nat
  PROVE  LET w == dir_sdi(v, ofs)
         IN  /\ Calm(q, v, w) /\ SameFile(v, w) /\ w.res \in {"OK", "INT_ERR", "DISK_ERR"}
             /\ w.dp.origin = v.dp.origin
             /\ w.res = "OK" => InTable(w.dp)
<1> DEFINE x == [v.dp EXCEPT !.dptr = ofs]
           u == WithDp(v, x)
           top == IF v.dp.sclust = 0 /\ FatType = 3 THEN RootClust ELSE v.dp.sclust
           f == FollowTable(u, top, ofs)
           s == RootSect + ofs \div DirEntriesPerSector
           y == [[x EXCEPT !.clust = 0] EXCEPT !.sect = s]
           m == WithDp(u, y)
<1>0. v \in CallSet /\ v.dp \in DirSet
  BY DEF Steady, CallSet
<1>1. dir_sdi(v, ofs) = IF ofs >= MAX_DIR THEN Res(v, "INT_ERR")
                        ELSE IF top # 0 THEN f ELSE IF ofs >= RootEntries THEN Res(u, "INT_ERR")
                        ELSE OK([u EXCEPT !.dp.clust = 0, !.dp.sect = s])
  <2>1. [v EXCEPT !.dp.dptr = ofs] = u
    BY <1>0 DEF CallSet, WithDp
  <2> DEFINE j == [v EXCEPT !.dp.dptr = ofs]
  <2>2. dir_sdi(v, ofs) = IF ofs >= MAX_DIR THEN Res(v, "INT_ERR")
                          ELSE IF top # 0 THEN FollowTable(j, top, ofs)
                          ELSE IF ofs >= RootEntries THEN Res(j, "INT_ERR")
                          ELSE OK([j EXCEPT !.dp.clust = 0, !.dp.sect = s])
    BY Zenon DEF dir_sdi
  <2> HIDE DEF u
  <2> QED
    BY <2>1, <2>2, Zenon
<1>2. x \in DirSet /\ x.dptr = ofs /\ x.origin = v.dp.origin
  BY <1>0 DEF DirSet
<1> HIDE DEF x
<1>3. Calm(q, v, u) /\ u \in Steady(q) /\ u \in CallSet /\ u.dp = x /\ SameFile(v, u)
  <2>1. Calm(q, v, v)
    BY <1>0, SameCardIsCalm DEF SameCard
  <2> QED
    BY <1>2, <2>1, DpCalm
<1> HIDE DEF u
<1>4. top \in ClusterNos
  BY <1>0, LayoutIs DEF DirSet, RootClust, ClusterNos
<1> HIDE DEF top
<1>a. CASE ofs >= MAX_DIR
  <2> DEFINE w == Res(v, "INT_ERR")
  <2>1. Calm(q, v, v)
    BY <1>0, SameCardIsCalm DEF SameCard
  <2>2. Calm(q, v, w) /\ w.res = "INT_ERR" /\ SameRest(v, w)
    BY <2>1, ResCalm, ResultsAre
  <2>3. dir_sdi(v, ofs) = w
    BY <1>1, <1>a, Zenon
  <2> HIDE DEF w
  <2> QED
    BY <2>2, <2>3 DEF SameRest, SameWork, SameFile
<1> SUFFICES ASSUME ~(ofs >= MAX_DIR)
             PROVE  LET w == dir_sdi(v, ofs)
                    IN  /\ Calm(q, v, w) /\ SameFile(v, w) /\ w.res \in {"OK", "INT_ERR", "DISK_ERR"}
                        /\ w.dp.origin = v.dp.origin
                        /\ w.res = "OK" => InTable(w.dp)
  BY <1>a
<1>5. CASE top # 0
  <2>1. /\ Calm(q, u, f) /\ SameFile(u, f) /\ f.res \in {"OK", "INT_ERR", "DISK_ERR"}
        /\ f.dp.origin = u.dp.origin
        /\ f.res = "OK" => InTable(f.dp)
    BY <1>2, <1>3, <1>4, FollowTableKeeps
  <2> HIDE DEF f
  <2>2. Calm(q, v, f) /\ SameFile(v, f)
    BY <1>3, <2>1, CalmThenCalm DEF SameFile
  <2> QED
    BY <1>1, <1>2, <1>3, <1>5, <2>1, <2>2
<1>6. CASE top = 0 /\ ofs >= RootEntries
  <2> DEFINE w == Res(u, "INT_ERR")
  <2>1. Calm(q, v, w) /\ w.res = "INT_ERR" /\ SameRest(u, w)
    BY <1>3, ResCalm, ResultsAre
  <2> HIDE DEF w
  <2> QED
    BY <1>1, <1>2, <1>3, <1>6, <2>1 DEF SameRest, SameWork, SameFile, w
<1>7. CASE top = 0 /\ ~(ofs >= RootEntries)
  <2> DEFINE w == Res(m, "OK")
  <2>1. ofs < RootEntries /\ s \in TableArea
    <3>1. ofs < RootEntries
      <4>1. RootEntries \in Nat
        BY GeometryAssumption
      <4>2. ~(ofs >= RootEntries)
        BY <1>7
      <4> HIDE DEF s, y, m, w, f
      <4> QED
        BY <4>1, <4>2
    <3> QED
      BY <3>1, RootSlot, Zenon
  <2>2. y \in DirSet /\ InTable(y) /\ y.origin = x.origin
    <3>1. s = RootSect + x.dptr \div DirEntriesPerSector /\ x.dptr < RootEntries
      BY <1>2, <2>1
    <3>2. 0 \in ClusterNos
      BY LayoutIs DEF ClusterNos
    <3> HIDE DEF s
    <3>3. y \in DirSet /\ y.clust = 0 /\ y.dptr = x.dptr /\ y.sect = s /\ y.origin = x.origin
      BY <1>2, <2>1, <3>2 DEF DirSet
    <3> HIDE DEF y
    <3> QED
      BY <3>1, <3>3 DEF InTable
  <2>3. [u EXCEPT !.dp.clust = 0, !.dp.sect = s] = m
    <3> HIDE DEF s
    <3>1. u.dp = x /\ u \in CallSet
      BY <1>3
    <3>2. [u EXCEPT !.dp.clust = 0, !.dp.sect = s]
             = WithDp(u, [[u.dp EXCEPT !.clust = 0] EXCEPT !.sect = s])
      <4>1. \A c, t : [u EXCEPT !.dp.clust = c, !.dp.sect = t]
                         = WithDp(u, [[u.dp EXCEPT !.clust = c] EXCEPT !.sect = t])
        BY <3>1 DEF CallSet, DirSet, WithDp
      <4> QED
        BY <4>1
    <3>3. m = WithDp(u, [[u.dp EXCEPT !.clust = 0] EXCEPT !.sect = s])
      <4>1. x = u.dp
        BY <3>1
      <4> QED
        BY <4>1, Zenon
    <3> QED
      BY <3>2, <3>3, Zenon
  <2> HIDE DEF y
  <2>4. Calm(q, v, m) /\ m.dp = y /\ SameFile(u, m)
    BY <1>3, <2>2, DpCalm
  <2>5. dir_sdi(v, ofs) = w
    BY <1>1, <1>7, <2>3 DEF OK
  <2> HIDE DEF m
  <2>6. Calm(q, v, w) /\ w.res = "OK" /\ SameRest(m, w)
    BY <2>4, ResCalm, ResultsAre
  <2> HIDE DEF w
  <2>7. SameFile(v, w) /\ w.dp = y
    BY <1>3, <2>4, <2>6 DEF SameRest, SameWork, SameFile
  <2> QED
    BY <1>2, <2>2, <2>5, <2>6, <2>7
<1> QED
  BY <1>5, <1>6, <1>7

-----------------------------------------------------------------------------
(* What every call can use of a call record that is good. *)
LEMMA GoodIs ==
  ASSUME NEW q \in BOOLEAN, NEW v \in Good(q)
  PROVE  /\ v \in Steady(q) /\ v \in CallSet /\ v.dp \in DirSet /\ v.fp \in FilSet
         /\ v.fs \in Volumes /\ v.fs.type # 0 /\ v.fs.reg /\ v.fs.win \in SectorSet
         /\ v.ret \in Nat /\ v.res \in Results /\ v.cnt \in Nat
         /\ v.fs.cdir \in ClusterNos /\ v.fs.id \in Nat
<1>1. v \in Steady(q) /\ v \in CallSet /\ v.fs.type # 0 /\ v.fs.reg
  BY DEF Good, Steady
<1>2. /\ v.dp \in DirSet /\ v.fp \in FilSet /\ v.fs \in Volumes
      /\ v.ret \in Nat /\ v.res \in Results /\ v.cnt \in Nat
  BY <1>1 DEF CallSet
<1>3. v.fs.win \in SectorSet /\ v.fs.cdir \in ClusterNos /\ v.fs.id \in Nat
  BY <1>2 DEF Volumes, FsSet
<1> QED
  BY <1>1, <1>2, <1>3

(* w is a good call with the file of v. *)
Went(q, v, w) == w \in Good(q) /\ SameFile(v, w)

(* Two steps that leave the file object alone leave it alone together. *)
LEMMA WentOn ==
  ASSUME NEW q, NEW v, NEW w, NEW u, Went(q, v, w), Went(q, w, u)
  PROVE  Went(q, v, u)
BY DEF Went, SameFile

(* A step that leaves the card's FAT alone is one, *)
LEMMA CalmGoes ==
  ASSUME NEW q \in BOOLEAN, NEW v \in Good(q), NEW w, Calm(q, v, w), SameFile(v, w)
  PROVE  Went(q, v, w)
BY CalmKeepsGood DEF Went

(* So is setting the result, *)
LEMMA ResGoes ==
  ASSUME NEW q \in BOOLEAN, NEW v, NEW u, Went(q, v, u), NEW r \in Results
  PROVE  LET w == Res(u, r)
         IN  /\ Went(q, v, w) /\ w \in Good(q)
             /\ w.res = r /\ w.ret = u.ret /\ w.dp = u.dp /\ w.fs = u.fs
<1> DEFINE w == Res(u, r)
<1>1. u \in Good(q) /\ SameFile(v, u)
  BY DEF Went
<1>2. w \in Good(q) /\ w.res = r /\ SameRest(u, w) /\ SameCard(u, w)
  BY <1>1, ResGood
<1> HIDE DEF w
<1> QED
  BY <1>1, <1>2 DEF Went, SameRest, SameWork, SameFile, SameCard, w

(* So is no step, *)
LEMMA WentSelf ==
  ASSUME NEW q, NEW v \in Good(q)
  PROVE  Went(q, v, v)
BY DEF Went, SameFile

(* So is the start of a loop, *)
LEMMA AgainGoes ==
  ASSUME NEW q \in BOOLEAN, NEW v \in Good(q)
  PROVE  Went(q, v, Again(v)) /\ Again(v) \in Good(q) /\ Again(v).res = GO
<1> DEFINE z == Res(v, GO)
<1>1. Went(q, v, z) /\ z \in Good(q) /\ z.res = GO
  BY WentSelf, ResGoes, ResultsAre
<1> QED
  BY <1>1 DEF Again

(* And so is moving the DIR. *)
LEMMA DpGoes ==
  ASSUME NEW q \in BOOLEAN, NEW v, NEW u, Went(q, v, u), NEW x \in DirSet
  PROVE  LET w == WithDp(u, x)
         IN  /\ Went(q, v, w) /\ w \in Good(q)
             /\ w.res = u.res /\ w.ret = u.ret /\ w.dp = x /\ w.fs = u.fs
<1>0. u \in Good(q) /\ SameFile(v, u)
  BY DEF Went
<1>1. u \in CallSet
  BY <1>0, GoodIs
<1> DEFINE w == WithDp(u, x)
<1>2. /\ w \in CallSet /\ w.dp = x /\ w.res = u.res /\ w.ret = u.ret
      /\ SameFile(u, w) /\ SameCard(u, w)
  BY <1>1, DpSet
<1> HIDE DEF w
<1>3. w \in Good(q)
  BY <1>0, <1>2, SameCardKeeps
<1> QED
  BY <1>0, <1>2, <1>3 DEF Went, SameFile, SameCard, w

-----------------------------------------------------------------------------
(* The steps of dir_next. *)
LEMMA DivNext ==
  ASSUME NEW d \in Nat \ {0}, NEW a \in Nat
  PROVE  /\ (a + 1) % d # 0 => /\ (a + 1) \div d = a \div d
                               /\ (a + 1) % d = (a % d) + 1
         /\ (a + 1) % d = 0 => (a + 1) \div d = (a \div d) + 1
<1> DEFINE i == a \div d
           j == (a + 1) \div d
           r == a % d
           t == (a + 1) % d
<1>1. /\ i \in Nat /\ j \in Nat /\ a = d * i + r /\ a + 1 = d * j + t
      /\ r \in 0 .. d - 1 /\ t \in 0 .. d - 1
  OBVIOUS
<1> HIDE DEF i, j, r, t
<1>2. \A k, m \in Nat : k <= m => d * k <= d * m
  OBVIOUS
<1>3. d * (i + 1) = d * i + d /\ d * (i + 2) = d * i + d + d /\ d * (j + 1) = d * j + d
  BY <1>1
<1>4. d * i \in Nat /\ d * j \in Nat
  BY <1>1
<1>5. j = i \/ j = i + 1
  <2>1. ~(j + 1 <= i)
    <3>1. SUFFICES ASSUME j + 1 <= i PROVE FALSE
      OBVIOUS
    <3>2. d * (j + 1) <= d * i
      BY <1>1, <1>2, <3>1
    <3> QED
      BY <1>1, <1>3, <1>4, <3>2
  <2>2. ~(i + 2 <= j)
    <3>1. SUFFICES ASSUME i + 2 <= j PROVE FALSE
      OBVIOUS
    <3>2. d * (i + 2) <= d * j
      BY <1>1, <1>2, <3>1
    <3> QED
      BY <1>1, <1>3, <1>4, <3>2
  <2> QED
    BY <1>1, <2>1, <2>2
<1>6. j = i => t = r + 1
  BY <1>1, <1>4
<1>7. j = i + 1 => t = 0
  BY <1>1, <1>3, <1>4
<1> QED
  BY <1>1, <1>5, <1>6, <1>7 DEF i, j, r, t

(* The sector of an entry is one of a table's. *)
LEMMA TableSect ==
  ASSUME NEW x, x.dptr \in Nat, InTable(x)
  PROVE  x.sect \in TableArea
<1> DEFINE k == x.dptr \div DirEntriesPerSector
           i == k % ClusterSectors
<1>1. CASE x.clust = 0 /\ x.dptr < RootEntries /\ x.sect = RootSect + x.dptr \div DirEntriesPerSector
  BY <1>1, RootSlot
<1>2. CASE x.clust \in RealClusters /\ x.sect = clst2sect(x.clust) + i
  <2>1. k \in Nat
    BY GeometryAssumption
  <2> HIDE DEF k
  <2>2. i \in 0 .. ClusterSectors - 1
    BY <2>1, GeometryAssumption
  <2> HIDE DEF i
  <2>3. x.clust \in Int
    BY <1>2, LayoutIs DEF RealClusters
  <2> QED
    BY <1>2, <2>2, <2>3, ClusterIsThere
<1> QED
  BY <1>1, <1>2 DEF InTable

(* The next entry of a sector is in the table, *)
LEMMA SlotNext ==
  ASSUME NEW x \in DirSet, InTable(x), (x.dptr + 1) % DirEntriesPerSector # 0
  PROVE  LET y == [x EXCEPT !.dptr = x.dptr + 1] IN y \in DirSet /\ InTable(y)
<1> DEFINE y == [x EXCEPT !.dptr = x.dptr + 1]
<1>1. x.dptr \in Nat /\ DirEntriesPerSector \in Nat \ {0} /\ RootEntries \in Nat
      /\ RootEntries % DirEntriesPerSector = 0
  BY GeometryAssumption DEF DirSet
<1>2. y \in DirSet /\ y.dptr = x.dptr + 1 /\ y.clust = x.clust /\ y.sect = x.sect
  BY <1>1 DEF DirSet
<1> HIDE DEF y
<1>3. y.dptr \div DirEntriesPerSector = x.dptr \div DirEntriesPerSector
  BY <1>1, <1>2, DivNext
<1>4. x.dptr < RootEntries => y.dptr < RootEntries
  <2>1. x.dptr + 1 # RootEntries
    BY <1>1
  <2> QED
    BY <1>1, <1>2, <2>1
<1>5. InTable(y)
  BY <1>2, <1>3, <1>4 DEF InTable
<1> QED
  BY <1>2, <1>5 DEF y

(* The first of the next sector of a cluster is, *)
LEMMA SectorNext ==
  ASSUME NEW x \in DirSet, InTable(x), NEW n, n = x.dptr + 1, n % DirEntriesPerSector = 0,
         x.clust = 0 => n < RootEntries,
         x.clust # 0 => (n \div DirEntriesPerSector) % ClusterSectors # 0
  PROVE  LET y == [[x EXCEPT !.dptr = n] EXCEPT !.sect = x.sect + 1]
         IN  y \in DirSet /\ InTable(y)
<1> DEFINE z == [x EXCEPT !.dptr = n]
           y == [z EXCEPT !.sect = x.sect + 1]
           D == DirEntriesPerSector
           k == x.dptr \div D
           m == n \div D
<1>1. x.dptr \in Nat /\ D \in Nat \ {0} /\ RootEntries \in Nat /\ ClusterSectors \in Nat \ {0}
      /\ n \in Nat
  BY GeometryAssumption DEF DirSet
<1>2. k \in Nat /\ m = k + 1
  <2>1. k \in Nat
    BY <1>1
  <2>2. (x.dptr + 1) \div D = k + 1
    BY <1>1, DivNext
  <2> QED
    BY <2>1, <2>2
<1>3. x.dptr = z.dptr - 1 /\ z.dptr = n /\ z.clust = x.clust /\ z \in DirSet
  BY <1>1 DEF DirSet
<1> HIDE DEF z
<1>4. y.dptr = n /\ y.clust = x.clust /\ y.sect = x.sect + 1
  BY <1>3 DEF DirSet
<1>5. x.clust # 0 => m % ClusterSectors = (k % ClusterSectors) + 1
  BY <1>1, <1>2, DivNext
<1>6. /\ 0 \notin RealClusters /\ x.sect \in Nat /\ RootSect \in Nat
      /\ k % ClusterSectors \in Nat
      /\ \A c \in RealClusters : clst2sect(c) \in Nat
  <2>1. x.sect \in Nat
    BY InTableIs, AreasApart
  <2>2. k % ClusterSectors \in Nat
    BY <1>1, <1>2
  <2>3. \A c \in RealClusters : clst2sect(c) \in Nat
    BY ClusterIsThere, NumbersApart
  <2> QED
    BY <2>1, <2>2, <2>3, LayoutIs, NumbersApart
<1> HIDE DEF y
<1>7. InTable(y)
  <2>0. x.clust = 0 \/ x.clust \in RealClusters
    BY DEF InTable
  <2>1. CASE x.clust = 0
    <3>1. x.sect = RootSect + k
      BY <1>6, <2>1 DEF InTable
    <3>2. y.sect = RootSect + m
      BY <1>2, <1>4, <1>6, <3>1
    <3> QED
      BY <1>4, <2>1, <3>2 DEF InTable
  <2>2. CASE x.clust \in RealClusters
    <3>1. x.sect = clst2sect(x.clust) + (k % ClusterSectors)
      BY <1>6, <2>2 DEF InTable
    <3>2. m % ClusterSectors = (k % ClusterSectors) + 1
      BY <1>5, <1>6, <2>2
    <3> HIDE DEF k, m
    <3>3. y.sect = clst2sect(x.clust) + (m % ClusterSectors)
      BY <1>4, <1>6, <2>2, <3>1, <3>2
    <3> QED
      BY <1>4, <2>2, <3>3 DEF InTable, m
  <2> QED
    BY <2>0, <2>1, <2>2
<1>8. x.sect + 1 \in TableArea
  BY <1>1, <1>4, <1>7, TableSect
<1>9. y \in DirSet
  BY <1>3, <1>8 DEF DirSet, y
<1> QED
  BY <1>7, <1>9 DEF y, z

(* And the first of the next cluster. *)
LEMMA ClusterNext ==
  ASSUME NEW x \in DirSet, NEW n \in Nat, n % DirEntriesPerSector = 0,
         (n \div DirEntriesPerSector) % ClusterSectors = 0, NEW c \in RealClusters
  PROVE  LET y == [[[x EXCEPT !.dptr = n] EXCEPT !.clust = c] EXCEPT !.sect = clst2sect(c)]
         IN  y \in DirSet /\ InTable(y)
<1> DEFINE u == [x EXCEPT !.dptr = n]
           z == [u EXCEPT !.clust = c]
           y == [z EXCEPT !.sect = clst2sect(c)]
<1>1. u \in DirSet /\ u.dptr = n
  BY DEF DirSet
<1> HIDE DEF u
<1>2. z \in DirSet /\ z.dptr = n /\ z.clust = c
  BY <1>1, NumbersApart DEF DirSet
<1> HIDE DEF z
<1>3. y.dptr = n /\ y.clust = c /\ y.sect = clst2sect(c)
  BY <1>2 DEF DirSet
<1>4. clst2sect(c) \in Nat
  BY ClusterIsThere, NumbersApart
<1> HIDE DEF y
<1>5. InTable(y)
  BY <1>3, <1>4 DEF InTable
<1>6. clst2sect(c) \in TableArea
  BY <1>3, <1>5, TableSect
<1>7. y \in DirSet
  BY <1>2, <1>6 DEF DirSet, y
<1> QED
  BY <1>5, <1>7 DEF y, z, u

(* A change of one field of the DIR, as an assignment to the whole. *)
LEMMA DpChanges ==
  ASSUME NEW v \in CallSet
  PROVE  /\ \A a : [v EXCEPT !.dp.dptr = a] = WithDp(v, [v.dp EXCEPT !.dptr = a])
         /\ \A a : [v EXCEPT !.dp.sect = a] = WithDp(v, [v.dp EXCEPT !.sect = a])
         /\ \A a : [v EXCEPT !.dp.sclust = a] = WithDp(v, [v.dp EXCEPT !.sclust = a])
         /\ \A a : [v EXCEPT !.dp.origin = a] = WithDp(v, [v.dp EXCEPT !.origin = a])
         /\ \A a : [v EXCEPT !.dp.open = a] = WithDp(v, [v.dp EXCEPT !.open = a])
<1> USE DEF CallSet, WithDp
<1>1. \A a : [v EXCEPT !.dp.dptr = a] = WithDp(v, [v.dp EXCEPT !.dptr = a])
  OBVIOUS
<1>2. \A a : [v EXCEPT !.dp.sect = a] = WithDp(v, [v.dp EXCEPT !.sect = a])
  OBVIOUS
<1>3. \A a : [v EXCEPT !.dp.sclust = a] = WithDp(v, [v.dp EXCEPT !.sclust = a])
  OBVIOUS
<1>4. \A a : [v EXCEPT !.dp.origin = a] = WithDp(v, [v.dp EXCEPT !.origin = a])
  OBVIOUS
<1>5. \A a : [v EXCEPT !.dp.open = a] = WithDp(v, [v.dp EXCEPT !.open = a])
  OBVIOUS
<1> QED
  BY <1>1, <1>2, <1>3, <1>4, <1>5

(* The DIR is at the last entry of a cluster of its table. *)
AtEnd(x) == /\ (x.dptr + 1) % DirEntriesPerSector = 0
            /\ ((x.dptr + 1) \div DirEntriesPerSector) % ClusterSectors = 0

(* A step along a table: the DIR is at an entry again if it succeeds. *)
Stepped(q, v, w) == /\ Went(q, v, w) /\ w.res # GO
                    /\ w.res = "OK" => InTable(w.dp)

(* A step that ends well at an entry is one of dir_next. *)
LEMMA OKSteps ==
  ASSUME NEW q \in BOOLEAN, NEW v, NEW u, Went(q, v, u), InTable(u.dp)
  PROVE  Stepped(q, v, Res(u, "OK"))
<1> DEFINE w == Res(u, "OK")
<1>1. Went(q, v, w) /\ w.res = "OK"
  BY ResGoes, ResultsAre
<1>2. w.dp = u.dp
  BY ResGoes, ResultsAre
<1> HIDE DEF w
<1> QED
  BY <1>1, <1>2 DEF Stepped, GO, w

(* Dir_next goes on at the first entry of the next cluster, *)
LEMMA NextClusterKeeps ==
  ASSUME NEW q \in BOOLEAN, NEW v \in Good(q), v.ret \in RealClusters, AtEnd(v.dp)
  PROVE  Stepped(q, v, NextCluster(v))
<1> DEFINE x == v.dp
           n == x.dptr + 1
           c == v.ret
           y == [[[x EXCEPT !.dptr = n] EXCEPT !.clust = c] EXCEPT !.sect = clst2sect(c)]
           u == WithDp(v, y)
           w == Res(u, "OK")
<1>1. v \in CallSet /\ x \in DirSet /\ n \in Nat
  BY GoodIs DEF DirSet
<1>2. NextCluster(v) = w
  <2> DEFINE j == [v EXCEPT !.dp.dptr = @ + 1, !.dp.clust = v.ret, !.dp.sect = clst2sect(v.ret)]
  <2>1. j = u
    BY <1>1 DEF CallSet, DirSet, WithDp
  <2>2. NextCluster(v) = Res(j, "OK")
    BY Zenon DEF NextCluster, OK
  <2> QED
    BY <2>1, <2>2
<1>3. y \in DirSet /\ InTable(y)
  BY <1>1, ClusterNext DEF AtEnd
<1> HIDE DEF y
<1>4. Went(q, v, u) /\ u.dp = y
  BY <1>3, DpGoes, WentSelf
<1> HIDE DEF u
<1>5. Stepped(q, v, w)
  BY <1>3, <1>4, OKSteps
<1> HIDE DEF w
<1> QED
  BY <1>2, <1>5

(* Or ends the table. *)
LEMMA EndOfTableKeeps ==
  ASSUME NEW q \in BOOLEAN, NEW v \in Good(q)
  PROVE  LET w == EndOfTable(v)
         IN  Stepped(q, v, w) /\ w.res = "NO_FILE"
<1> DEFINE y == [v.dp EXCEPT !.sect = 0]
           u == WithDp(v, y)
           w == Res(u, "NO_FILE")
<1>1. v \in CallSet /\ v.dp \in DirSet
  BY GoodIs
<1>2. EndOfTable(v) = w
  BY <1>1, DpChanges DEF EndOfTable
<1>3. y \in DirSet
  BY <1>1 DEF DirSet
<1> HIDE DEF y
<1>4. Went(q, v, u)
  BY <1>3, DpGoes, WentSelf
<1> HIDE DEF u
<1>5. Went(q, v, w) /\ w.res = "NO_FILE"
  BY <1>4, ResGoes, ResultsAre
<1> HIDE DEF w
<1> QED
  BY <1>2, <1>5 DEF Stepped, GO

(* An error number becomes an error result. *)
LEMMA ClusterErrorIs ==
  ASSUME NEW c
  PROVE  ClusterError(c) \in Results /\ ClusterError(c) \in {"DISK_ERR", "INT_ERR"}
BY ResultsAre DEF ClusterError

(* Create_chain leaves the DIR where it is. *)
LEMMA CreateChainGoes ==
  ASSUME NEW q \in BOOLEAN, NEW v \in Good(q), NEW c \in Nat
  PROVE  LET w == create_chain(v, c)
         IN  /\ Went(q, v, w) /\ w \in Good(q) /\ w.dp = v.dp /\ w.res = "OK"
             /\ w.ret \in {0, 1, DISKERR} \union RealClusters
BY CreateChainKeeps DEF Created, Went, SameWork, SameFile

(* Dir_next stretches a table by a cleared cluster, and is at its first    *)
(* entry, or fails.                                                        *)
LEMMA StretchTableKeeps ==
  ASSUME NEW q \in BOOLEAN, NEW v \in Good(q), AtEnd(v.dp)
  PROVE  Stepped(q, v, StretchTable(v))
<1> DEFINE a == create_chain(v, v.dp.clust)
           d == dir_clear(a, a.ret)
           n == NextCluster(d)
           x == Res(a, "DENIED")
           y == Res(a, ClusterError(a.ret))
<1>1. StretchTable(v) = IF a.ret = 0 THEN x ELSE IF a.ret \in {1, DISKERR} THEN y
                        ELSE IF d.res = "OK" THEN n ELSE d
  BY Zenon DEF StretchTable, With, Then
<1>2. /\ Went(q, v, a) /\ a \in Good(q) /\ a.dp = v.dp
      /\ a.ret \in {0, 1, DISKERR} \union RealClusters
  <2>1. v.dp.clust \in Nat
    BY GoodIs, LayoutIs DEF DirSet, ClusterNos
  <2> QED
    BY <2>1, CreateChainGoes
<1> HIDE DEF a
<1>3. Went(q, v, x) /\ x.res = "DENIED" /\ Went(q, v, y) /\ y.res \in {"DISK_ERR", "INT_ERR"}
  <2>1. Went(q, v, x) /\ x.res = "DENIED"
    BY <1>2, ResGoes, ResultsAre
  <2>2. Went(q, v, y) /\ y.res = ClusterError(a.ret)
    BY <1>2, ResGoes, ClusterErrorIs
  <2> QED
    BY <2>1, <2>2, ClusterErrorIs
<1> HIDE DEF x, y
<1>4. CASE a.ret = 0 \/ a.ret \in {1, DISKERR}
  BY <1>1, <1>3, <1>4 DEF Stepped, GO
<1>5. CASE ~(a.ret = 0 \/ a.ret \in {1, DISKERR})
  <2>1. a.ret \in RealClusters /\ a \in Steady(q)
    BY <1>2, <1>5, GoodIs
  <2>2. Calm(q, a, d) /\ SameRest(a, d) /\ d.res \in {"OK", "DISK_ERR"}
    BY <2>1, DirClearKeeps
  <2> HIDE DEF d
  <2>3. Went(q, a, d) /\ d.dp = a.dp /\ d.ret = a.ret
    <3>1. SameFile(a, d) /\ d.dp = a.dp /\ d.ret = a.ret
      BY <2>2 DEF SameRest, SameWork, SameFile
    <3> QED
      BY <1>2, <2>2, <3>1, CalmGoes
  <2>4. Went(q, v, d) /\ d \in Good(q)
    BY <1>2, <2>3, WentOn DEF Went
  <2>5. Stepped(q, d, n)
    BY <1>2, <2>1, <2>3, <2>4, NextClusterKeeps
  <2> HIDE DEF n
  <2>6. Stepped(q, v, n)
    BY <2>4, <2>5, WentOn DEF Stepped
  <2> QED
    BY <1>1, <1>5, <2>2, <2>4, <2>6 DEF Stepped, GO
<1> QED
  BY <1>4, <1>5

(* Dir_next leads from an entry of the table to an entry of the table,     *)
(* across sectors, clusters and into a cluster it adds, or ends with an    *)
(* error; the count of free clusters stays right.                          *)
THEOREM DirNextKeeps ==
  ASSUME NEW q \in BOOLEAN, NEW v \in Good(q), NEW st \in BOOLEAN,
         v.dp.sect # 0 => InTable(v.dp)
  PROVE  Stepped(q, v, dir_next(v, st))
<1> DEFINE x == v.dp
           n == x.dptr + 1
           D == DirEntriesPerSector
           g == get_fat(v, x.clust)
           yb == [x EXCEPT !.dptr = n]
           yd == [[x EXCEPT !.dptr = n] EXCEPT !.sect = x.sect + 1]
           ub == WithDp(v, yb)
           ud == WithDp(v, yd)
           wa == EndOfTable(v)
           wb == Res(ub, "OK")
           wc == EndOfTable(v)
           wd == Res(ud, "OK")
           e1 == Res(g, ClusterError(g.ret))
           e2 == NextCluster(g)
           e3 == StretchTable(g)
           e4 == EndOfTable(g)
           we == IF g.ret \in {0, 1, DISKERR} THEN e1 ELSE IF g.ret < NFatEnt THEN e2
                 ELSE IF st THEN e3 ELSE e4
<1>0. v \in CallSet /\ x \in DirSet /\ x.dptr \in Nat
  BY GoodIs DEF DirSet
<1>1. dir_next(v, st) =
        IF x.sect = 0 \/ n >= MAX_DIR THEN wa ELSE IF n % D # 0 THEN wb
        ELSE IF x.clust = 0 /\ n >= RootEntries THEN wc
        ELSE IF x.clust = 0 \/ (n \div D) % ClusterSectors # 0 THEN wd ELSE we
  <2> DEFINE jb == [v EXCEPT !.dp.dptr = n]
             jd == [v EXCEPT !.dp.dptr = n, !.dp.sect = @ + 1]
  <2>1. jb = ub
    BY <1>0, DpChanges
  <2>2. jd = ud
    BY <1>0 DEF CallSet, DirSet, WithDp
  <2>3. dir_next(v, st) =
        IF x.sect = 0 \/ n >= MAX_DIR THEN wa ELSE IF n % D # 0 THEN Res(jb, "OK")
        ELSE IF x.clust = 0 /\ n >= RootEntries THEN wc
        ELSE IF x.clust = 0 \/ (n \div D) % ClusterSectors # 0 THEN Res(jd, "OK") ELSE we
    BY Zenon DEF dir_next, OK, With
  <2> HIDE DEF jb, jd, ub, ud, wa, wc, we
  <2> QED
    BY <2>1, <2>2, <2>3, Zenon
<1> HIDE DEF we
<1>2. CASE x.sect = 0 \/ n >= MAX_DIR
  <2>1. Stepped(q, v, wa)
    BY EndOfTableKeeps
  <2> HIDE DEF wa
  <2> QED
    BY <1>1, <1>2, <2>1
<1>3. CASE ~(x.sect = 0 \/ n >= MAX_DIR) /\ n % D # 0
  <2>1. yb \in DirSet /\ InTable(yb)
    BY <1>0, <1>3, SlotNext
  <2> HIDE DEF yb
  <2>2. Went(q, v, ub) /\ ub.dp = yb
    BY <2>1, DpGoes, WentSelf
  <2> HIDE DEF ub
  <2>3. Stepped(q, v, wb)
    BY <2>1, <2>2, OKSteps
  <2> HIDE DEF wb
  <2> QED
    BY <1>1, <1>3, <2>3
<1>4. CASE ~(x.sect = 0 \/ n >= MAX_DIR) /\ n % D = 0 /\ x.clust = 0 /\ n >= RootEntries
  <2>1. Stepped(q, v, wc)
    BY EndOfTableKeeps
  <2> HIDE DEF wc
  <2> QED
    BY <1>1, <1>4, <2>1
<1>5. CASE /\ ~(x.sect = 0 \/ n >= MAX_DIR) /\ n % D = 0 /\ ~(x.clust = 0 /\ n >= RootEntries)
           /\ x.clust = 0 \/ (n \div D) % ClusterSectors # 0
  <2>1. yd \in DirSet /\ InTable(yd)
    <3>1. x.clust = 0 => n < RootEntries
      BY <1>0, <1>5, GeometryAssumption
    <3>2. x \in DirSet /\ InTable(x) /\ n % D = 0
      BY <1>0, <1>5
    <3>3. x.clust # 0 => (n \div D) % ClusterSectors # 0
      BY <1>5
    <3> QED
      BY <3>1, <3>2, <3>3, SectorNext
  <2> HIDE DEF yd
  <2>2. Went(q, v, ud) /\ ud.dp = yd
    BY <2>1, DpGoes, WentSelf
  <2> HIDE DEF ud
  <2>3. Stepped(q, v, wd)
    BY <2>1, <2>2, OKSteps
  <2> HIDE DEF wd
  <2> QED
    BY <1>1, <1>5, <2>3
<1>6. CASE /\ ~(x.sect = 0 \/ n >= MAX_DIR) /\ n % D = 0 /\ ~(x.clust = 0 /\ n >= RootEntries)
           /\ ~(x.clust = 0 \/ (n \div D) % ClusterSectors # 0)
  <2>1. AtEnd(x)
    BY <1>6 DEF AtEnd
  <2>2. dir_next(v, st) = we
    BY <1>1, <1>6
  <2>3. Calm(q, v, g) /\ SameWork(v, g) /\ g.ret \in FatValues \union {1, DISKERR}
    <3>1. x.clust \in Int /\ v \in Steady(q)
      BY <1>0, GoodIs, LayoutIs DEF DirSet, ClusterNos
    <3> QED
      BY <3>1, GetFatKeeps
  <2> HIDE DEF g
  <2>4. Went(q, v, g) /\ g \in Good(q) /\ AtEnd(g.dp)
    <3>1. SameFile(v, g) /\ g.dp = x
      BY <2>3 DEF SameWork, SameFile
    <3>2. Went(q, v, g)
      BY <2>3, <3>1, CalmGoes
    <3> QED
      BY <2>1, <3>1, <3>2 DEF Went
  <2>5. Stepped(q, v, e1)
    <3>1. Went(q, v, e1) /\ e1.res = ClusterError(g.ret)
      BY <2>4, ResGoes, ClusterErrorIs
    <3> HIDE DEF e1
    <3> QED
      BY <3>1, ClusterErrorIs DEF Stepped, GO
  <2>6. g.ret \notin {0, 1, DISKERR} /\ g.ret < NFatEnt => Stepped(q, v, e2)
    <3>1. SUFFICES ASSUME g.ret \notin {0, 1, DISKERR} /\ g.ret < NFatEnt PROVE Stepped(q, v, e2)
      OBVIOUS
    <3>2. g.ret \in RealClusters
      BY <2>3, <3>1, NumbersApart DEF FatValues
    <3>3. Stepped(q, g, e2)
      BY <2>4, <3>2, NextClusterKeeps
    <3> HIDE DEF e2
    <3> QED
      BY <2>4, <3>3, WentOn DEF Stepped
  <2>7. Stepped(q, v, e3)
    <3>1. Stepped(q, g, e3)
      BY <2>4, StretchTableKeeps
    <3> HIDE DEF e3
    <3> QED
      BY <2>4, <3>1, WentOn DEF Stepped
  <2>8. Stepped(q, v, e4)
    <3>1. Stepped(q, g, e4)
      BY <2>4, EndOfTableKeeps
    <3> HIDE DEF e4
    <3> QED
      BY <2>4, <3>1, WentOn DEF Stepped
  <2> HIDE DEF e1, e2, e3, e4
  <2> QED
    BY <2>2, <2>5, <2>6, <2>7, <2>8 DEF we
<1> HIDE DEF x, n, D
<1> QED
  BY <1>2, <1>3, <1>4, <1>5, <1>6

-----------------------------------------------------------------------------
(* The entry of the window that the DIR is at. *)
OnEntry(v) == InTable(v.dp) /\ v.fs.winsect = v.dp.sect

(* Move_window leaves the DIR where it is, *)
LEMMA MoveGoes ==
  ASSUME NEW q \in BOOLEAN, NEW v \in Good(q), NEW s \in WinSects
  PROVE  LET w == move_window(v, s)
         IN  /\ Went(q, v, w) /\ w \in Good(q) /\ w.dp = v.dp /\ w.ret = v.ret
             /\ w.res \in {"OK", "DISK_ERR"}
             /\ w.res = "OK" => w.fs.winsect = s
<1> DEFINE w == move_window(v, s)
<1>1. v \in Steady(q)
  BY GoodIs
<1>2. /\ Calm(q, v, w) /\ SameRest(v, w) /\ w.res \in {"OK", "DISK_ERR"}
      /\ w.res = "OK" => w.fs.winsect = s
  BY <1>1, MoveWindowKeeps
<1> HIDE DEF w
<1>3. SameFile(v, w) /\ w.dp = v.dp /\ w.ret = v.ret
  BY <1>2 DEF SameRest, SameWork, SameFile
<1>4. Went(q, v, w) /\ w \in Good(q)
  BY <1>2, <1>3, CalmGoes DEF Went
<1> QED
  BY <1>2, <1>3, <1>4 DEF w

(* And brings the entry's sector in. *)
LEMMA EntryMoves ==
  ASSUME NEW q \in BOOLEAN, NEW v \in Good(q), InTable(v.dp)
  PROVE  LET w == move_window(v, v.dp.sect)
         IN  /\ Went(q, v, w) /\ w \in Good(q) /\ w.dp = v.dp /\ w.ret = v.ret
             /\ w.res \in {"OK", "DISK_ERR"}
             /\ w.res = "OK" => OnEntry(w)
<1>1. v.dp.sect \in WinSects
  <2>1. v.dp.sect \in TableArea
    BY GoodIs, InTableIs
  <2> QED
    BY <2>1, AreasApart
<1> DEFINE w == move_window(v, v.dp.sect)
<1>2. /\ Went(q, v, w) /\ w \in Good(q) /\ w.dp = v.dp /\ w.ret = v.ret
      /\ w.res \in {"OK", "DISK_ERR"}
      /\ w.res = "OK" => w.fs.winsect = v.dp.sect
  BY <1>1, MoveGoes
<1> HIDE DEF w
<1> QED
  BY <1>2 DEF OnEntry, w

(* A sector read as a table gives entries, *)
LEMMA EntriesAre ==
  ASSUME NEW c \in SectorSet
  PROVE  EntriesOf(c) \in [0 .. DirEntriesPerSector - 1 -> EntrySet]
<1>1. JunkEntry \in EntrySet
  BY LayoutIs DEF JunkEntry, Entry, EntrySet, Words, ClusterNos
<1>2. c.k = "dir" => c.e \in [0 .. DirEntriesPerSector - 1 -> EntrySet]
  BY DEF SectorSet, BootSet, Boot, InfoSet, FatSet, TableSet
<1> QED
  BY <1>1, <1>2 DEF EntriesOf

(* And so does the window at the DIR's slot. *)
LEMMA DirIs ==
  ASSUME NEW q \in BOOLEAN, NEW v \in Good(q)
  PROVE  /\ Slot(v) \in 0 .. DirEntriesPerSector - 1
         /\ dir(v) \in EntrySet
<1>1. v.dp.dptr \in Nat
  BY GoodIs DEF DirSet
<1>2. Slot(v) \in 0 .. DirEntriesPerSector - 1
  BY <1>1, GeometryAssumption DEF Slot
<1>3. EntriesOf(v.fs.win) \in [0 .. DirEntriesPerSector - 1 -> EntrySet]
  BY GoodIs, EntriesAre
<1> QED
  BY <1>2, <1>3 DEF dir

(* A changed entry leaves the FAT and the DIR alone. *)
LEMMA SetDirKeeps ==
  ASSUME NEW q \in BOOLEAN, NEW v \in Good(q), v.fs.winsect \in TableArea, NEW e \in EntrySet
  PROVE  LET w == SetDir(v, e)
         IN  /\ Went(q, v, w) /\ w \in Good(q) /\ w.dp = v.dp /\ w.ret = v.ret
             /\ w.res = v.res /\ w.fs.winsect = v.fs.winsect
<1> DEFINE es == EntriesOf(v.fs.win)
           c == DirSector([es EXCEPT ![Slot(v)] = e])
           w == SetWin(v, c)
<1>1. es \in [0 .. DirEntriesPerSector - 1 -> EntrySet]
  BY GoodIs, EntriesAre
<1>2. SetDir(v, e) = w
  BY Zenon DEF SetDir
<1> HIDE DEF es
<1>3. c \in TableSet
  BY <1>1 DEF DirSector, TableSet
<1> HIDE DEF c
<1>4. v \in Steady(q)
  BY GoodIs
<1>5. Calm(q, v, w) /\ SameRest(v, w) /\ w.res = v.res /\ w.fs.winsect = v.fs.winsect
  BY <1>3, <1>4, SetWinKeeps
<1> HIDE DEF w
<1>6. SameFile(v, w) /\ w.dp = v.dp /\ w.ret = v.ret
  BY <1>5 DEF SameRest, SameWork, SameFile
<1>7. Went(q, v, w) /\ w \in Good(q)
  BY <1>5, <1>6, CalmGoes DEF Went
<1> QED
  BY <1>2, <1>5, <1>6, <1>7

-----------------------------------------------------------------------------
(* The walks along a table: between two rounds the DIR is at an entry, and *)
(* a walk that ends with OK has its entry in the window.                   *)
Walk(q, v) == {u \in Good(q) : /\ Went(q, v, u)
                               /\ u.res = GO => InTable(u.dp)
                               /\ u.res = "OK" => OnEntry(u)}
Walked(q, v, w) == Went(q, v, w) /\ w.res # GO /\ (w.res = "OK" => OnEntry(w))

(* One step of a walk over a table. *)
LEMMA NextOrEnd ==
  ASSUME NEW q \in BOOLEAN, NEW v, NEW m \in Good(q), Went(q, v, m), NEW st \in BOOLEAN,
         m.dp.sect # 0 => InTable(m.dp)
  PROVE  LET d == dir_next(m, st)
         IN  (IF d.res = "OK" THEN Again(d) ELSE d) \in Walk(q, v)
<1> DEFINE d == dir_next(m, st)
           z == Res(d, GO)
<1>1. Stepped(q, m, d)
  BY DirNextKeeps
<1> HIDE DEF d
<1>2. Went(q, v, d) /\ d \in Good(q) /\ d.res # GO /\ (d.res = "OK" => InTable(d.dp))
  BY <1>1, WentOn DEF Stepped, Went
<1>3. Went(q, v, z) /\ z \in Good(q) /\ z.res = GO
  BY <1>2, ResGoes, ResultsAre
<1>4. z.dp = d.dp
  BY <1>2, ResGoes, ResultsAre
<1>5. Again(d) = z
  BY DEF Again
<1> HIDE DEF z
<1> QED
  BY <1>2, <1>3, <1>4, <1>5 DEF Walk, GO, d

(* A walk has a bound. *)
LEMMA WalkBound ==
  MAX_DIR \in Nat
BY GeometryAssumption

(* It starts at an entry, *)
LEMMA WalkStarts ==
  ASSUME NEW q \in BOOLEAN, NEW v \in Good(q), InTable(v.dp)
  PROVE  Again(v) \in Walk(q, v)
<1> DEFINE z == Res(v, GO)
<1>1. Went(q, v, z) /\ z \in Good(q) /\ z.res = GO
  BY WentSelf, ResGoes, ResultsAre
<1>2. z.dp = v.dp
  BY WentSelf, ResGoes, ResultsAre
<1>3. Again(v) = z
  BY DEF Again
<1> HIDE DEF z
<1> QED
  BY <1>1, <1>2, <1>3 DEF Walk, GO

(* May go on after a step, *)
LEMMA WalkOn ==
  ASSUME NEW q, NEW v, NEW u, Went(q, v, u), NEW w \in Walk(q, u)
  PROVE  w \in Walk(q, v)
BY WentOn DEF Walk

(* And ends at an entry that is in the window, or with an error. *)
LEMMA WalkEnds ==
  ASSUME NEW q \in BOOLEAN, NEW v, NEW e \in Walk(q, v),
         NEW w, w = IF e.res = GO THEN Res(e, "ENDLESS") ELSE e
  PROVE  Walked(q, v, w)
<1> DEFINE z == Res(e, "ENDLESS")
<1>1. Went(q, v, e) /\ (e.res = "OK" => OnEntry(e))
  BY DEF Walk
<1>2. Went(q, v, z) /\ z.res = "ENDLESS"
  BY <1>1, ResGoes, ResultsAre
<1> HIDE DEF z
<1> QED
  BY <1>1, <1>2 DEF Walked, GO, z

(* Dir_alloc's round looks at the entry, *)
LEMMA TryFreeKeeps ==
  ASSUME NEW q \in BOOLEAN, NEW v \in Good(q), InTable(v.dp)
  PROVE  TryFree(v) \in Walk(q, v)
<1> DEFINE m == move_window(v, v.dp.sect)
           d == dir_next(m, TRUE)
           z == IF d.res = "OK" THEN Again(d) ELSE d
<1>1. TryFree(v) = IF m.res = "OK" THEN IF dir(m).nm \in {"", Deleted} THEN m ELSE z ELSE m
  BY Zenon DEF TryFree, Then
<1>2. /\ Went(q, v, m) /\ m \in Good(q) /\ m.dp = v.dp
      /\ m.res \in {"OK", "DISK_ERR"} /\ (m.res = "OK" => OnEntry(m))
  BY EntryMoves
<1> HIDE DEF m
<1>3. z \in Walk(q, v)
  BY <1>2, NextOrEnd
<1>4. m \in Walk(q, v)
  BY <1>2 DEF Walk, GO
<1> HIDE DEF z
<1> QED
  BY <1>1, <1>3, <1>4

(* And its loop ends at one, or with an error. *)
LEMMA FirstFreeKeeps ==
  ASSUME NEW q \in BOOLEAN, NEW v \in Good(q), InTable(v.dp)
  PROVE  Walked(q, v, FirstFree(v))
<1> DEFINE n == MAX_DIR
           a == Again(v)
           V == Walk(q, v)
           B(u, k) == IF u.res = GO THEN TryFree(u) ELSE u
           F(h) == [k \in 0..n |-> IF k = 0 THEN a ELSE B(h[k - 1], k)]
           at == CHOOSE h : h = F(h)
           G == [p \in V \X (1..n) |-> B(p[1], p[2])]
<1>1. n \in Nat /\ a \in V
  BY WalkBound, WalkStarts
<1>2. \A u \in V, k \in 1..n : B(u, k) \in V
  <2>1. ASSUME NEW u \in V, u.res = GO PROVE TryFree(u) \in V
    <3>1. u \in Good(q) /\ InTable(u.dp) /\ Went(q, v, u)
      BY <2>1 DEF Walk
    <3>2. TryFree(u) \in Walk(q, u)
      BY <3>1, TryFreeKeeps
    <3> QED
      BY <3>1, <3>2, WalkOn
  <2> HIDE DEF V
  <2> QED
    BY <2>1
<1>3. FirstFree(v) = IF at[n].res = GO THEN Res(at[n], "ENDLESS") ELSE at[n]
  BY Zenon DEF FirstFree, Rounds, With
<1> HIDE DEF a, V, B, n
<1>4. G \in [V \X (1..n) -> V] /\ \A u \in V, k \in 1..n : G[<<u, k>>] = B(u, k)
  BY <1>2
<1> HIDE DEF G
<1>5. PICK g \in [0..n -> V] : Runs(g, V, a, G, n)
  BY <1>1, <1>4, LoopRuns, Zenon
<1>6. g = F(g)
  <2>1. \A k \in 1..n : g[k] = B(g[k - 1], k)
    BY <1>4, <1>5, Zenon DEF Runs
  <2>2. \A k \in 0..n : g[k] = IF k = 0 THEN a ELSE B(g[k - 1], k)
    BY <1>5, <2>1 DEF Runs
  <2> QED
    BY <2>2
<1>7. at = F(at)
  BY <1>6
<1> HIDE DEF at
<1>8. at[0] = a /\ \A k \in 1..n : at[k] = B(at[k - 1], k)
  BY <1>1, <1>7
<1>9. at[n] \in V
  <2>1. \A k \in 1..n : at[k - 1] \in V => at[k] \in V
    BY <1>2, <1>8, Zenon
  <2> QED
    BY <1>1, <1>8, <2>1, LoopStays, Zenon
<1> DEFINE e == at[n]
<1>10. e \in V /\ FirstFree(v) = IF e.res = GO THEN Res(e, "ENDLESS") ELSE e
  BY <1>3, <1>9
<1> HIDE DEF e
<1>11. e \in Walk(q, v)
  BY <1>10 DEF V
<1> QED
  BY <1>10, <1>11, WalkEnds

(* Dir_read may also begin behind the last entry, where the DIR has no     *)
(* sector.                                                                 *)
AtOrPast(x)   == x.sect # 0 => InTable(x)
Reading0(q, v) == {u \in Good(q) : /\ Went(q, v, u)
                                   /\ u.res = GO => AtOrPast(u.dp)
                                   /\ u.res = "OK" => OnEntry(u)}

(* So does dir_read's round, *)
LEMMA TryValidKeeps ==
  ASSUME NEW q \in BOOLEAN, NEW v \in Good(q), AtOrPast(v.dp)
  PROVE  TryValid(v) \in Walk(q, v)
<1> DEFINE m == move_window(v, v.dp.sect)
           d == dir_next(m, FALSE)
           y == Res(m, "NO_FILE")
           z == IF d.res = "OK" THEN Again(d) ELSE d
<1>1. TryValid(v) = IF v.dp.sect = 0 THEN Res(v, "NO_FILE")
                    ELSE IF m.res = "OK"
                    THEN IF dir(m).nm = "" THEN y
                         ELSE IF dir(m).nm \notin {Deleted, ".", ".."} THEN m ELSE z
                    ELSE m
  BY Zenon DEF TryValid, Then
<1>9. CASE v.dp.sect = 0
  <2> DEFINE x == Res(v, "NO_FILE")
  <2>1. Went(q, v, x) /\ x \in Good(q) /\ x.res = "NO_FILE"
    BY WentSelf, ResGoes, ResultsAre
  <2> HIDE DEF x
  <2>2. x \in Walk(q, v)
    BY <2>1 DEF Walk, GO
  <2> QED
    BY <1>1, <1>9, <2>2 DEF x
<1>0. SUFFICES ASSUME v.dp.sect # 0 PROVE TryValid(v) \in Walk(q, v)
  BY <1>9
<1>8. InTable(v.dp)
  BY <1>0 DEF AtOrPast
<1>2. /\ Went(q, v, m) /\ m \in Good(q) /\ m.dp = v.dp
      /\ m.res \in {"OK", "DISK_ERR"} /\ (m.res = "OK" => OnEntry(m))
  BY <1>8, EntryMoves
<1> HIDE DEF m
<1>3. z \in Walk(q, v)
  BY <1>2, <1>8, NextOrEnd
<1>4. m \in Walk(q, v)
  BY <1>2 DEF Walk, GO
<1>5. y \in Walk(q, v)
  <2>1. Went(q, v, y) /\ y \in Good(q) /\ y.res = "NO_FILE"
    BY <1>2, ResGoes, ResultsAre
  <2> HIDE DEF y
  <2> QED
    BY <2>1 DEF Walk, GO
<1> HIDE DEF y, z
<1> DEFINE t == TryValid(v)
           e == dir(m).nm = ""
           k == dir(m).nm \notin {Deleted, ".", ".."}
<1>10. t = IF m.res = "OK" THEN IF e THEN y ELSE IF k THEN m ELSE z ELSE m
  BY <1>0, <1>1
<1> HIDE DEF t, e, k
<1>11. t \in Walk(q, v)
  BY <1>3, <1>4, <1>5, <1>10
<1> QED
  BY <1>11 DEF t

(* And its loop, *)
LEMMA NextValidKeeps ==
  ASSUME NEW q \in BOOLEAN, NEW v \in Good(q), AtOrPast(v.dp)
  PROVE  Walked(q, v, NextValid(v))
<1> DEFINE n == MAX_DIR
           a == Again(v)
           V == Reading0(q, v)
           B(u, k) == IF u.res = GO THEN TryValid(u) ELSE u
           F(h) == [k \in 0..n |-> IF k = 0 THEN a ELSE B(h[k - 1], k)]
           at == CHOOSE h : h = F(h)
           G == [p \in V \X (1..n) |-> B(p[1], p[2])]
<1>1. n \in Nat /\ a \in V
  <2>1. Went(q, v, a) /\ a \in Good(q) /\ a.res = GO /\ a.dp = v.dp
    BY WentSelf, ResGoes, ResultsAre DEF Again
  <2> HIDE DEF a
  <2>2. a \in V
    BY <2>1 DEF Reading0, GO
  <2> HIDE DEF V, n
  <2> QED
    BY <2>2, WalkBound DEF n
<1>2. \A u \in V, k \in 1..n : B(u, k) \in V
  <2>1. ASSUME NEW u \in V, u.res = GO PROVE TryValid(u) \in V
    <3>1. u \in Good(q) /\ AtOrPast(u.dp) /\ Went(q, v, u)
      BY <2>1 DEF Reading0
    <3>2. TryValid(u) \in Walk(q, u)
      BY <3>1, TryValidKeeps
    <3>3. TryValid(u) \in Walk(q, v)
      BY <3>1, <3>2, WalkOn
    <3> QED
      BY <3>3 DEF Walk, Reading0, AtOrPast
  <2> HIDE DEF V
  <2> QED
    BY <2>1
<1>3. NextValid(v) = IF at[n].res = GO THEN Res(at[n], "ENDLESS") ELSE at[n]
  BY Zenon DEF NextValid, Rounds, With
<1> HIDE DEF a, V, B, n
<1>4. G \in [V \X (1..n) -> V] /\ \A u \in V, k \in 1..n : G[<<u, k>>] = B(u, k)
  BY <1>2
<1> HIDE DEF G
<1>5. PICK g \in [0..n -> V] : Runs(g, V, a, G, n)
  BY <1>1, <1>4, LoopRuns, Zenon
<1>6. g = F(g)
  <2>1. \A k \in 1..n : g[k] = B(g[k - 1], k)
    BY <1>4, <1>5, Zenon DEF Runs
  <2>2. \A k \in 0..n : g[k] = IF k = 0 THEN a ELSE B(g[k - 1], k)
    BY <1>5, <2>1 DEF Runs
  <2> QED
    BY <2>2
<1>7. at = F(at)
  BY <1>6
<1> HIDE DEF at
<1>8. at[0] = a /\ \A k \in 1..n : at[k] = B(at[k - 1], k)
  BY <1>1, <1>7
<1>9. at[n] \in V
  <2>1. \A k \in 1..n : at[k - 1] \in V => at[k] \in V
    BY <1>2, <1>8, Zenon
  <2> QED
    BY <1>1, <1>8, <2>1, LoopStays, Zenon
<1> DEFINE e == at[n]
<1>10. e \in V /\ NextValid(v) = IF e.res = GO THEN Res(e, "ENDLESS") ELSE e
  BY <1>3, <1>9
<1> HIDE DEF e
<1>11. e \in Reading0(q, v)
  BY <1>10 DEF V
<1> DEFINE z == Res(e, "ENDLESS")
<1>12. Went(q, v, e) /\ (e.res = "OK" => OnEntry(e))
  BY <1>11 DEF Reading0
<1>13. Went(q, v, z) /\ z.res = "ENDLESS"
  BY <1>12, ResGoes, ResultsAre
<1>14. NextValid(v) = IF e.res = GO THEN z ELSE e
  BY <1>10
<1> HIDE DEF z
<1> QED
  BY <1>12, <1>13, <1>14 DEF Walked, GO

(* And dir_find's round, *)
LEMMA TryFindKeeps ==
  ASSUME NEW q \in BOOLEAN, NEW v \in Good(q), InTable(v.dp)
  PROVE  TryFind(v) \in Walk(q, v)
<1> DEFINE m == move_window(v, v.dp.sect)
           x == [[m.dp EXCEPT !.dir = dir(m).dir] EXCEPT !.ro = dir(m).ro]
           u == WithDp(m, x)
           d == dir_next(u, FALSE)
           y == Res(m, "NO_FILE")
           z == IF d.res = "OK" THEN Again(d) ELSE d
           j == [m EXCEPT !.dp.dir = dir(m).dir, !.dp.ro = dir(m).ro]
<1>1. TryFind(v) = IF m.res = "OK"
                   THEN IF dir(m).nm = "" THEN y
                        ELSE IF dir(j).nm = j.dp.fn THEN j
                        ELSE LET t == dir_next(j, FALSE) IN IF t.res = "OK" THEN Again(t) ELSE t
                   ELSE m
  BY Zenon DEF TryFind, Then, With
<1>2. /\ Went(q, v, m) /\ m \in Good(q) /\ m.dp = v.dp
      /\ m.res \in {"OK", "DISK_ERR"} /\ (m.res = "OK" => OnEntry(m))
  BY EntryMoves
<1> HIDE DEF m
<1>3. m \in CallSet /\ m.dp \in DirSet /\ dir(m) \in EntrySet
  BY <1>2, GoodIs, DirIs
<1>4. j = u
  BY <1>3 DEF CallSet, DirSet, WithDp
<1>5. x \in DirSet /\ (InTable(m.dp) => InTable(x)) /\ x.sect = m.dp.sect
  <2> DEFINE p == [m.dp EXCEPT !.dir = dir(m).dir]
             o == [p EXCEPT !.ro = dir(m).ro]
  <2>1. dir(m).dir \in BOOLEAN /\ dir(m).ro \in BOOLEAN
    BY <1>3 DEF EntrySet
  <2>2. p \in DirSet /\ p.clust = m.dp.clust /\ p.dptr = m.dp.dptr /\ p.sect = m.dp.sect
    BY <1>3, <2>1 DEF DirSet
  <2> HIDE DEF p
  <2>3. o \in DirSet /\ o.clust = p.clust /\ o.dptr = p.dptr /\ o.sect = p.sect
    BY <2>1, <2>2 DEF DirSet
  <2>4. o = x
    BY DEF p
  <2> HIDE DEF o, x
  <2> QED
    BY <2>2, <2>3, <2>4 DEF InTable
<1> HIDE DEF x
<1>6. Went(q, v, u) /\ u \in Good(q) /\ u.res = m.res
  BY <1>2, <1>5, DpGoes
<1>7. u.dp = x /\ u.fs = m.fs
  BY <1>2, <1>5, DpGoes
<1> HIDE DEF u, j
<1>8. InTable(u.dp)
  BY <1>2, <1>5, <1>7
<1>9. z \in Walk(q, v)
  BY <1>6, <1>8, NextOrEnd
<1>10. m \in Walk(q, v)
  BY <1>2 DEF Walk, GO
<1>11. y \in Walk(q, v)
  <2>1. Went(q, v, y) /\ y \in Good(q) /\ y.res = "NO_FILE"
    BY <1>2, ResGoes, ResultsAre
  <2> HIDE DEF y
  <2> QED
    BY <2>1 DEF Walk, GO
<1>12. m.res = "OK" => u \in Walk(q, v)
  BY <1>2, <1>5, <1>6, <1>7, <1>8 DEF Walk, GO, OnEntry
<1>13. TryFind(v) = IF m.res = "OK"
                    THEN IF dir(m).nm = "" THEN y ELSE IF dir(u).nm = u.dp.fn THEN u ELSE z
                    ELSE m
  BY <1>1, <1>4, Zenon
<1> HIDE DEF y, z
<1> QED
  BY <1>9, <1>10, <1>11, <1>12, <1>13

(* And its loop. *)
LEMMA FindFromKeeps ==
  ASSUME NEW q \in BOOLEAN, NEW v \in Good(q), InTable(v.dp)
  PROVE  Walked(q, v, FindFrom(v))
<1> DEFINE n == MAX_DIR
           a == Again(v)
           V == Walk(q, v)
           B(u, k) == IF u.res = GO THEN TryFind(u) ELSE u
           F(h) == [k \in 0..n |-> IF k = 0 THEN a ELSE B(h[k - 1], k)]
           at == CHOOSE h : h = F(h)
           G == [p \in V \X (1..n) |-> B(p[1], p[2])]
<1>1. n \in Nat /\ a \in V
  BY WalkBound, WalkStarts
<1>2. \A u \in V, k \in 1..n : B(u, k) \in V
  <2>1. ASSUME NEW u \in V, u.res = GO PROVE TryFind(u) \in V
    <3>1. u \in Good(q) /\ InTable(u.dp) /\ Went(q, v, u)
      BY <2>1 DEF Walk
    <3>2. TryFind(u) \in Walk(q, u)
      BY <3>1, TryFindKeeps
    <3> QED
      BY <3>1, <3>2, WalkOn
  <2> HIDE DEF V
  <2> QED
    BY <2>1
<1>3. FindFrom(v) = IF at[n].res = GO THEN Res(at[n], "ENDLESS") ELSE at[n]
  BY Zenon DEF FindFrom, Rounds, With
<1> HIDE DEF a, V, B, n
<1>4. G \in [V \X (1..n) -> V] /\ \A u \in V, k \in 1..n : G[<<u, k>>] = B(u, k)
  BY <1>2
<1> HIDE DEF G
<1>5. PICK g \in [0..n -> V] : Runs(g, V, a, G, n)
  BY <1>1, <1>4, LoopRuns, Zenon
<1>6. g = F(g)
  <2>1. \A k \in 1..n : g[k] = B(g[k - 1], k)
    BY <1>4, <1>5, Zenon DEF Runs
  <2>2. \A k \in 0..n : g[k] = IF k = 0 THEN a ELSE B(g[k - 1], k)
    BY <1>5, <2>1 DEF Runs
  <2> QED
    BY <2>2
<1>7. at = F(at)
  BY <1>6
<1> HIDE DEF at
<1>8. at[0] = a /\ \A k \in 1..n : at[k] = B(at[k - 1], k)
  BY <1>1, <1>7
<1>9. at[n] \in V
  <2>1. \A k \in 1..n : at[k - 1] \in V => at[k] \in V
    BY <1>2, <1>8, Zenon
  <2> QED
    BY <1>1, <1>8, <2>1, LoopStays, Zenon
<1> DEFINE e == at[n]
<1>10. e \in V /\ FindFrom(v) = IF e.res = GO THEN Res(e, "ENDLESS") ELSE e
  BY <1>3, <1>9
<1> HIDE DEF e
<1>11. e \in Walk(q, v)
  BY <1>10 DEF V
<1> QED
  BY <1>10, <1>11, WalkEnds

-----------------------------------------------------------------------------
(* The directory functions. *)
LEMMA SdiGoes ==
  ASSUME NEW q \in BOOLEAN, NEW v \in Good(q), NEW ofs \in Nat
  PROVE  Stepped(q, v, dir_sdi(v, ofs)) /\ dir_sdi(v, ofs) \in Good(q)
<1> DEFINE w == dir_sdi(v, ofs)
<1>1. v \in Steady(q)
  BY GoodIs
<1>2. /\ Calm(q, v, w) /\ SameFile(v, w) /\ w.res \in {"OK", "INT_ERR", "DISK_ERR"}
      /\ w.res = "OK" => InTable(w.dp)
  BY <1>1, DirSdiKeeps
<1> HIDE DEF w
<1>3. Went(q, v, w) /\ w \in Good(q)
  BY <1>2, CalmGoes DEF Went
<1> QED
  BY <1>2, <1>3 DEF Stepped, GO, w

(* A walk after a step is one from before the step. *)
LEMMA WalkedOn ==
  ASSUME NEW q, NEW v, NEW u, Went(q, v, u), NEW w, Walked(q, u, w)
  PROVE  Walked(q, v, w)
BY WentOn DEF Walked

(* Dir_alloc ends at an entry that is in the window, or with an error, *)
LEMMA DirAllocKeeps ==
  ASSUME NEW q \in BOOLEAN, NEW v \in Good(q)
  PROVE  Walked(q, v, dir_alloc(v))
<1> DEFINE s == dir_sdi(v, 0)
           f == FirstFree(s)
           t == IF s.res = "OK" THEN f ELSE s
           y == Res(t, "DENIED")
<1>1. dir_alloc(v) = IF t.res = "NO_FILE" THEN y ELSE t
  BY Zenon DEF dir_alloc, With, Then
<1>2. Stepped(q, v, s)
  BY SdiGoes
<1> HIDE DEF s
<1>3. s.res = "OK" => Walked(q, v, f)
  <2>1. SUFFICES ASSUME s.res = "OK" PROVE Walked(q, v, f)
    OBVIOUS
  <2>2. s \in Good(q) /\ InTable(s.dp) /\ Went(q, v, s)
    BY <1>2, <2>1 DEF Stepped, Went
  <2>3. Walked(q, s, f)
    BY <2>2, FirstFreeKeeps
  <2> HIDE DEF f
  <2> QED
    BY <2>2, <2>3, WalkedOn
<1> HIDE DEF f
<1>4. Walked(q, v, t)
  BY <1>2, <1>3 DEF Stepped, Walked
<1> HIDE DEF t
<1>5. Went(q, v, y) /\ y.res = "DENIED"
  BY <1>4, ResGoes, ResultsAre DEF Walked
<1> HIDE DEF y
<1> QED
  BY <1>1, <1>4, <1>5 DEF Walked, GO

(* And so does dir_read, *)
LEMMA DirReadKeeps ==
  ASSUME NEW q \in BOOLEAN, NEW v \in Good(q), AtOrPast(v.dp)
  PROVE  Walked(q, v, dir_read(v))
<1> DEFINE w == NextValid(v)
           x == [w.dp EXCEPT !.sect = 0]
           u == WithDp(w, x)
<1>1. Walked(q, v, w)
  BY NextValidKeeps
<1>2. dir_read(v) = IF w.res = "OK" THEN w ELSE [w EXCEPT !.dp.sect = 0]
  BY Zenon DEF dir_read, With
<1> HIDE DEF w
<1>3. Went(q, v, w) /\ w \in CallSet /\ w.dp \in DirSet
  BY <1>1, GoodIs DEF Walked, Went
<1>4. [w EXCEPT !.dp.sect = 0] = u
  BY <1>3, DpChanges
<1>5. x \in DirSet
  BY <1>3 DEF DirSet
<1> HIDE DEF x
<1>6. Went(q, v, u) /\ u.res = w.res
  BY <1>3, <1>5, DpGoes
<1> HIDE DEF u
<1> QED
  BY <1>1, <1>2, <1>4, <1>6 DEF Walked

(* And dir_find. *)
LEMMA DirFindKeeps ==
  ASSUME NEW q \in BOOLEAN, NEW v \in Good(q)
  PROVE  Walked(q, v, dir_find(v))
<1> DEFINE s == dir_sdi(v, 0)
           f == FindFrom(s)
<1>1. dir_find(v) = IF s.res = "OK" THEN f ELSE s
  BY Zenon DEF dir_find, Then
<1>2. Stepped(q, v, s)
  BY SdiGoes
<1> HIDE DEF s
<1>3. s.res = "OK" => Walked(q, v, f)
  <2>1. SUFFICES ASSUME s.res = "OK" PROVE Walked(q, v, f)
    OBVIOUS
  <2>2. s \in Good(q) /\ InTable(s.dp) /\ Went(q, v, s)
    BY <1>2, <2>1 DEF Stepped, Went
  <2>3. Walked(q, s, f)
    BY <2>2, FindFromKeeps
  <2> HIDE DEF f
  <2> QED
    BY <2>2, <2>3, WalkedOn
<1> HIDE DEF f
<1> QED
  BY <1>1, <1>2, <1>3 DEF Stepped, Walked

(* A new entry is one. *)
LEMMA EntryIs ==
  ASSUME NEW nm \in Words, NEW d \in BOOLEAN, NEW c \in ClusterNos
  PROVE  Entry(nm, d, FALSE, c, 0) \in EntrySet
BY DEF Entry, EntrySet

(* A change of the entry the DIR is at. *)
LEMMA ChangeKeeps ==
  ASSUME NEW q \in BOOLEAN, NEW v, NEW m, Walked(q, v, m), m.res = "OK", NEW e \in EntrySet
  PROVE  Walked(q, v, SetDir(m, e)) /\ SetDir(m, e).dp = m.dp /\ SetDir(m, e).res = "OK"
<1> DEFINE w == SetDir(m, e)
<1>1. Went(q, v, m) /\ m \in Good(q) /\ InTable(m.dp) /\ m.fs.winsect = m.dp.sect
  BY DEF Walked, OnEntry, Went
<1>2. m.fs.winsect \in TableArea
  BY <1>1, GoodIs, InTableIs
<1>3. Went(q, m, w) /\ w.dp = m.dp
  BY <1>1, <1>2, SetDirKeeps
<1>4. w.res = m.res
  BY <1>1, <1>2, SetDirKeeps
<1>5. w.fs.winsect = m.fs.winsect
  BY <1>1, <1>2, SetDirKeeps
<1> HIDE DEF w
<1>6. Went(q, v, w)
  BY <1>1, <1>3, WentOn
<1> QED
  BY <1>1, <1>3, <1>4, <1>5, <1>6 DEF Walked, OnEntry, GO, w

(* Bringing the entry in ends at it. *)
LEMMA EntryWalks ==
  ASSUME NEW q \in BOOLEAN, NEW v, NEW u, Went(q, v, u), InTable(u.dp)
  PROVE  LET m == move_window(u, u.dp.sect)
         IN  Walked(q, v, m) /\ m.dp = u.dp /\ m.res \in {"OK", "DISK_ERR"}
<1>0. u \in Good(q)
  BY DEF Went
<1> DEFINE m == move_window(u, u.dp.sect)
<1>1. /\ Went(q, u, m) /\ m.dp = u.dp
      /\ m.res \in {"OK", "DISK_ERR"} /\ (m.res = "OK" => OnEntry(m))
  BY <1>0, EntryMoves
<1> HIDE DEF m
<1>2. Went(q, v, m)
  BY <1>1, WentOn
<1> QED
  BY <1>1, <1>2 DEF Walked, GO, m

(* Dir_register writes the new entry into the sector that was found for    *)
(* it,                                                                     *)
LEMMA DirRegisterKeeps ==
  ASSUME NEW q \in BOOLEAN, NEW v \in Good(q)
  PROVE  Walked(q, v, dir_register(v))
<1> DEFINE a == dir_alloc(v)
           m == move_window(a, a.dp.sect)
           e == Entry(m.dp.fn, FALSE, FALSE, 0, 0)
           w == SetDir(m, e)
<1>1. dir_register(v) = IF a.res = "OK" THEN IF m.res = "OK" THEN w ELSE m ELSE a
  BY Zenon DEF dir_register, Then
<1>2. Walked(q, v, a)
  BY DirAllocKeeps
<1> HIDE DEF a
<1>3. CASE a.res # "OK"
  BY <1>1, <1>2, <1>3
<1>4. CASE a.res = "OK"
  <2>1. Went(q, v, a) /\ InTable(a.dp)
    BY <1>2, <1>4 DEF Walked, OnEntry
  <2>2. Walked(q, v, m)
    BY <2>1, EntryWalks
  <2> HIDE DEF m
  <2>3. e \in EntrySet
    <3>1. m \in Good(q)
      BY <2>2 DEF Walked, Went
    <3>2. m.dp.fn \in Words
      BY <3>1, GoodIs DEF DirSet
    <3>3. 0 \in ClusterNos
      BY LayoutIs DEF ClusterNos
    <3> QED
      BY <3>2, <3>3, EntryIs
  <2> HIDE DEF e
  <2>4. m.res = "OK" => Walked(q, v, w)
    BY <2>2, <2>3, ChangeKeeps
  <2> HIDE DEF w
  <2> QED
    BY <1>1, <1>4, <2>2, <2>4
<1> QED
  BY <1>3, <1>4

(* And dir_remove marks the one it was given. *)
LEMMA DirRemoveKeeps ==
  ASSUME NEW q \in BOOLEAN, NEW v, NEW u, Went(q, v, u), InTable(u.dp)
  PROVE  Walked(q, v, dir_remove(u))
<1> DEFINE m == move_window(u, u.dp.sect)
           e == [dir(m) EXCEPT !.nm = Deleted]
           w == SetDir(m, e)
<1>1. dir_remove(u) = IF m.res = "OK" THEN w ELSE m
  BY Zenon DEF dir_remove, Then
<1>2. Walked(q, v, m)
  BY EntryWalks
<1> HIDE DEF m
<1>3. e \in EntrySet
  <2>1. dir(m) \in EntrySet
    BY <1>2, DirIs DEF Walked, Went
  <2> QED
    BY <2>1 DEF EntrySet, Words
<1> HIDE DEF e
<1>4. m.res = "OK" => Walked(q, v, w)
  BY <1>2, <1>3, ChangeKeeps
<1> HIDE DEF w
<1> QED
  BY <1>1, <1>2, <1>4

-----------------------------------------------------------------------------
(* Paths.  A path that was followed leads to an entry in the window or to  *)
(* the directory it starts at.                                             *)
PathSet == [abs : BOOLEAN, seg : Seq(Words)]
Reached(q, v, w) == /\ Went(q, v, w) /\ w.res # GO
                    /\ w.res = "OK" => w.dp.origin \/ OnEntry(w)
Found1(q, v) == {u \in Good(q) : /\ Went(q, v, u)
                                 /\ u.res = "OK" => u.dp.origin \/ OnEntry(u)}

(* Create_name only sets the name. *)
LEMMA CreateNameKeeps ==
  ASSUME NEW q \in BOOLEAN, NEW v \in Good(q), NEW nm \in Words, NEW last \in BOOLEAN
  PROVE  LET w == create_name(v, nm, last)
         IN  Went(q, v, w) /\ w.res \in {"OK", "INVALID_NAME"}
<1> DEFINE d == nm \in {".", ".."}
           x1 == [v.dp EXCEPT !.fn = nm]
           x2 == [x1 EXCEPT !.dot = d]
           x3 == [x2 EXCEPT !.last = last]
           x4 == [x3 EXCEPT !.origin = FALSE]
           u == WithDp(v, x4)
           w == Res(u, "OK")
           y == Res(v, "INVALID_NAME")
           j == [v EXCEPT !.dp.fn = nm, !.dp.dot = d, !.dp.last = last, !.dp.origin = FALSE]
<1>0. v \in CallSet /\ v.dp \in DirSet /\ d \in BOOLEAN
  BY GoodIs
<1>1. create_name(v, nm, last) = IF nm \in BadNames THEN y ELSE Res(j, "OK")
  BY Zenon DEF create_name, OK
<1> HIDE DEF d
<1>2. j = u
  BY <1>0 DEF CallSet, DirSet, WithDp
<1>3. x1 \in DirSet
  BY <1>0 DEF DirSet
<1> HIDE DEF x1
<1>4. x2 \in DirSet
  BY <1>0, <1>3 DEF DirSet
<1> HIDE DEF x2
<1>5. x3 \in DirSet
  BY <1>4 DEF DirSet
<1> HIDE DEF x3
<1>6. x4 \in DirSet
  BY <1>5 DEF DirSet
<1> HIDE DEF x4
<1>7. Went(q, v, u)
  BY <1>6, WentSelf, DpGoes
<1> HIDE DEF u, j
<1>8. Went(q, v, w) /\ w.res = "OK"
  BY <1>7, ResGoes, ResultsAre
<1>9. Went(q, v, y) /\ y.res = "INVALID_NAME"
  BY WentSelf, ResGoes, ResultsAre
<1> QED
  BY <1>1, <1>2, <1>8, <1>9

(* One name of follow_path leads to an entry, to the origin, or to an      *)
(* error,                                                                  *)
LEMMA FollowNameKeeps ==
  ASSUME NEW q \in BOOLEAN, NEW v \in Good(q), NEW nm \in Words, NEW last \in BOOLEAN
  PROVE  FollowName(v, nm, last) \in Found1(q, v)
<1> DEFINE c == create_name(v, nm, last)
           d == dir_find(c)
           f == IF c.res = "OK" THEN d ELSE c
           jo == [f EXCEPT !.dp.origin = TRUE]
           js == [f EXCEPT !.dp.sclust = dir(f).cl]
           xo == [f.dp EXCEPT !.origin = TRUE]
           xs == [f.dp EXCEPT !.sclust = dir(f).cl]
           uo == WithDp(f, xo)
           us == WithDp(f, xs)
           wo == Res(uo, "OK")
           ws == Res(us, GO)
           g == Res(f, GO)
           p == Res(f, "NO_PATH")
<1>1. FollowName(v, nm, last) =
        IF f.res = "NO_FILE" /\ f.dp.dot THEN IF f.dp.last THEN Res(jo, "OK") ELSE g
        ELSE IF f.res = "NO_FILE" /\ ~f.dp.last THEN p
        ELSE IF f.res # "OK" \/ f.dp.last THEN f
        ELSE IF ~f.dp.dir THEN p ELSE Res(js, GO)
  BY Zenon DEF FollowName, With, Then, Again, OK
<1>2. Went(q, v, c) /\ c.res \in {"OK", "INVALID_NAME"}
  BY CreateNameKeeps
<1> HIDE DEF c
<1>3. Walked(q, v, d)
  <2>1. c \in Good(q)
    BY <1>2 DEF Went
  <2>2. Walked(q, c, d)
    BY <2>1, DirFindKeeps
  <2> HIDE DEF d
  <2> QED
    BY <1>2, <2>2, WalkedOn
<1> HIDE DEF d
<1>4. Walked(q, v, f)
  BY <1>2, <1>3 DEF Walked, GO
<1> HIDE DEF f
<1>5. Went(q, v, f) /\ f \in Good(q)
  BY <1>4 DEF Walked, Went
<1>6. f \in CallSet /\ f.dp \in DirSet /\ dir(f) \in EntrySet
  BY <1>5, GoodIs, DirIs
<1>7. jo = uo /\ js = us
  BY <1>6, DpChanges
<1>8. xo \in DirSet /\ xo.origin /\ xs \in DirSet
  <2>1. dir(f).cl \in ClusterNos
    BY <1>6 DEF EntrySet
  <2>2. xo \in DirSet /\ xo.origin
    BY <1>6 DEF DirSet
  <2>3. xs \in DirSet
    BY <1>6, <2>1 DEF DirSet
  <2> QED
    BY <2>2, <2>3
<1> HIDE DEF xo, xs
<1>9. Went(q, v, uo) /\ Went(q, v, us)
  BY <1>5, <1>8, DpGoes
<1>10. uo.dp = xo
  BY <1>5, <1>8, DpGoes
<1> HIDE DEF uo, us, jo, js
<1>11. Went(q, v, wo) /\ wo \in Good(q)
  BY <1>9, ResGoes, ResultsAre
<1>12. wo.dp = uo.dp
  BY <1>9, ResGoes, ResultsAre
<1>13. Went(q, v, ws) /\ ws \in Good(q) /\ ws.res = GO
  BY <1>9, ResGoes, ResultsAre
<1>14. Went(q, v, g) /\ g \in Good(q) /\ g.res = GO
  BY <1>5, ResGoes, ResultsAre
<1>15. Went(q, v, p) /\ p \in Good(q) /\ p.res = "NO_PATH"
  BY <1>5, ResGoes, ResultsAre
<1> HIDE DEF wo, ws, g, p
<1>16. {wo, ws, g, p, f} \subseteq Found1(q, v)
  <2>1. wo \in Found1(q, v)
    BY <1>8, <1>10, <1>11, <1>12 DEF Found1
  <2>2. ws \in Found1(q, v) /\ g \in Found1(q, v) /\ p \in Found1(q, v)
    BY <1>13, <1>14, <1>15 DEF Found1, GO
  <2>3. f \in Found1(q, v)
    BY <1>4, <1>5 DEF Found1, Walked
  <2> QED
    BY <2>1, <2>2, <2>3
<1>17. FollowName(v, nm, last) =
        IF f.res = "NO_FILE" /\ f.dp.dot THEN IF f.dp.last THEN wo ELSE g
        ELSE IF f.res = "NO_FILE" /\ ~f.dp.last THEN p
        ELSE IF f.res # "OK" \/ f.dp.last THEN f
        ELSE IF ~f.dp.dir THEN p ELSE ws
  BY <1>1, <1>7, Zenon DEF wo, ws
<1> QED
  BY <1>16, <1>17

(* And so does a list of names of any length, *)
LEMMA FollowKeeps ==
  ASSUME NEW q \in BOOLEAN, NEW v \in Good(q), NEW path \in Seq(Words)
  PROVE  Reached(q, v, Follow(v, path))
<1> DEFINE n == Len(path)
           a == Again(v)
           V == Found1(q, v)
           B(u, k) == IF u.res = GO THEN FollowName(u, path[k], k = Len(path)) ELSE u
           F(h) == [k \in 0..n |-> IF k = 0 THEN a ELSE B(h[k - 1], k)]
           at == CHOOSE h : h = F(h)
           G == [p \in V \X (1..n) |-> B(p[1], p[2])]
<1>1. n \in Nat /\ a \in V
  <2>2. Went(q, v, a) /\ a \in Good(q) /\ a.res = GO
    BY AgainGoes
  <2> HIDE DEF a
  <2> QED
    BY <2>2 DEF Found1, GO
<1>2. \A u \in V, k \in 1..n : B(u, k) \in V
  <2>1. ASSUME NEW u \in V, NEW k \in 1..n PROVE FollowName(u, path[k], k = Len(path)) \in V
    <3> DEFINE y == FollowName(u, path[k], k = Len(path))
    <3>1. u \in Good(q) /\ Went(q, v, u)
      BY <2>1 DEF Found1
    <3>2. path[k] \in Words /\ (k = Len(path)) \in BOOLEAN
      BY <2>1
    <3>3. y \in Found1(q, u)
      BY <3>1, <3>2, FollowNameKeeps
    <3> HIDE DEF y
    <3>4. y \in Found1(q, v)
      BY <3>1, <3>3, WentOn DEF Found1
    <3> QED
      BY <3>4 DEF y
  <2> HIDE DEF V
  <2> QED
    BY <2>1
<1>3. Follow(v, path) = IF at[n].res = GO THEN Res(at[n], "ENDLESS") ELSE at[n]
  BY Zenon DEF Follow, Rounds, With
<1> HIDE DEF a, V, B, n
<1>4. G \in [V \X (1..n) -> V] /\ \A u \in V, k \in 1..n : G[<<u, k>>] = B(u, k)
  BY <1>2
<1> HIDE DEF G
<1>5. PICK g \in [0..n -> V] : Runs(g, V, a, G, n)
  BY <1>1, <1>4, LoopRuns, Zenon
<1>6. g = F(g)
  <2>1. \A k \in 1..n : g[k] = B(g[k - 1], k)
    BY <1>4, <1>5, Zenon DEF Runs
  <2>2. \A k \in 0..n : g[k] = IF k = 0 THEN a ELSE B(g[k - 1], k)
    BY <1>5, <2>1 DEF Runs
  <2> QED
    BY <2>2
<1>7. at = F(at)
  BY <1>6
<1> HIDE DEF at
<1>8. at[0] = a /\ \A k \in 1..n : at[k] = B(at[k - 1], k)
  BY <1>1, <1>7
<1>9. at[n] \in V
  <2>1. \A k \in 1..n : at[k - 1] \in V => at[k] \in V
    BY <1>2, <1>8, Zenon
  <2> QED
    BY <1>1, <1>8, <2>1, LoopStays, Zenon
<1> DEFINE e == at[n]
<1>10. e \in V /\ Follow(v, path) = IF e.res = GO THEN Res(e, "ENDLESS") ELSE e
  BY <1>3, <1>9
<1> HIDE DEF e
<1>11. e \in Found1(q, v)
  BY <1>10 DEF V
<1> DEFINE z == Res(e, "ENDLESS")
<1>12. Went(q, v, e) /\ (e.res = "OK" => e.dp.origin \/ OnEntry(e))
  BY <1>11 DEF Found1
<1>13. Went(q, v, z) /\ z.res = "ENDLESS"
  BY <1>12, ResGoes, ResultsAre
<1>14. Follow(v, path) = IF e.res = GO THEN z ELSE e
  BY <1>10
<1> HIDE DEF z
<1> QED
  BY <1>12, <1>13, <1>14 DEF Reached, GO

(* An empty DIR is one. *)
LEMMA NoDirIs ==
  NoDir \in DirSet
BY LayoutIs DEF NoDir, DirSet, ClusterNos, Words

(* Follow_path, for a path of any length and any table, ends at an entry   *)
(* that is in the window, at the origin, or with an error, and changes     *)
(* nothing on the card.                                                    *)
THEOREM FollowPathKeeps ==
  ASSUME NEW q \in BOOLEAN, NEW v \in Good(q), NEW path \in PathSet
  PROVE  Reached(q, v, follow_path(v, path))
<1> DEFINE c == IF path.abs THEN 0 ELSE v.fs.cdir
           x == [NoDir EXCEPT !.sclust = c]
           xo == [x EXCEPT !.origin = TRUE]
           u == WithDp(v, x)
           uo == WithDp(u, xo)
           j == [v EXCEPT !.dp = NoDir, !.dp.sclust = c]
           jo == [j EXCEPT !.dp.origin = TRUE]
           s == dir_sdi(uo, 0)
           f == Follow(u, path.seg)
<1>0. v \in CallSet /\ c \in ClusterNos /\ path.seg \in Seq(Words)
  <2>1. c \in ClusterNos
    BY GoodIs, LayoutIs DEF ClusterNos
  <2> QED
    BY <2>1, GoodIs DEF PathSet
<1>1. follow_path(v, path) = IF path.seg = <<>> THEN dir_sdi(jo, 0) ELSE Follow(j, path.seg)
  BY Zenon DEF follow_path
<1> HIDE DEF c
<1>2. x \in DirSet
  BY <1>0, NoDirIs DEF DirSet
<1>3. j = u
  BY <1>0 DEF CallSet, WithDp
<1> HIDE DEF x
<1>4. xo \in DirSet /\ xo.origin
  BY <1>2 DEF DirSet
<1>5. Went(q, v, u) /\ u \in Good(q)
  BY <1>2, WentSelf, DpGoes
<1>6. u.dp = x
  BY <1>2, WentSelf, DpGoes
<1>7. jo = uo
  <2>1. [u EXCEPT !.dp.origin = TRUE] = WithDp(u, [u.dp EXCEPT !.origin = TRUE])
    <3> HIDE DEF u
    <3> QED
      BY <1>5, GoodIs, DpChanges
  <2> HIDE DEF j, u
  <2>2. [u EXCEPT !.dp.origin = TRUE] = uo
    BY <1>6, <2>1, Zenon
  <2> QED
    BY <1>3, <2>2
<1> HIDE DEF xo, u, j, jo
<1>8. Went(q, v, uo) /\ uo \in Good(q)
  BY <1>4, <1>5, DpGoes
<1>9. uo.dp = xo
  BY <1>4, <1>5, DpGoes
<1> HIDE DEF uo
<1>10. Reached(q, v, s)
  <2>1. uo \in Steady(q)
    BY <1>8, GoodIs
  <2>2. /\ Calm(q, uo, s) /\ SameFile(uo, s) /\ s.res \in {"OK", "INT_ERR", "DISK_ERR"}
        /\ s.dp.origin = uo.dp.origin
    BY <2>1, DirSdiKeeps
  <2> HIDE DEF s
  <2>3. Went(q, uo, s)
    BY <1>8, <2>2, CalmGoes
  <2>4. Went(q, v, s)
    BY <1>8, <2>3, WentOn
  <2> QED
    BY <1>4, <1>9, <2>2, <2>4 DEF Reached, GO
<1>11. Reached(q, v, f)
  <2>1. Reached(q, u, f)
    BY <1>0, <1>5, FollowKeeps
  <2> HIDE DEF f
  <2> QED
    BY <1>5, <2>1, WentOn DEF Reached
<1> HIDE DEF s, f
<1>12. follow_path(v, path) = IF path.seg = <<>> THEN s ELSE f
  BY <1>1, <1>3, <1>7, Zenon DEF s, f
<1> QED
  BY <1>10, <1>11, <1>12

-----------------------------------------------------------------------------
(* The calls by name. *)
LEMMA LookupKeeps ==
  ASSUME NEW q \in BOOLEAN, NEW v \in Good(q), NEW path \in PathSet
  PROVE  Reached(q, v, Lookup(v, path))
<1> DEFINE u == Res(v, "OK")
           w == follow_path(u, path)
<1>1. mount_volume(v) = u
  <2>1. v.fs.reg /\ v.fs.type # 0
    BY GoodIs
  <2> QED
    BY <2>1 DEF mount_volume, OK
<1>2. Went(q, v, u) /\ u \in Good(q) /\ u.res = "OK"
  BY WentSelf, ResGoes, ResultsAre
<1>3. Lookup(v, path) = IF u.res = "OK" THEN w ELSE u
  BY <1>1, Zenon DEF Lookup, Then
<1> HIDE DEF u
<1>4. Reached(q, u, w)
  BY <1>2, FollowPathKeeps
<1> HIDE DEF w
<1> QED
  BY <1>2, <1>3, <1>4, WentOn DEF Reached

(* What is known where follow_path ended. *)
LEMMA ReachedIs ==
  ASSUME NEW q \in BOOLEAN, NEW v, NEW f, Reached(q, v, f)
  PROVE  /\ Went(q, v, f) /\ f \in Good(q) /\ f.dp \in DirSet /\ dir(f) \in EntrySet
         /\ f.res = "OK" /\ ~f.dp.origin => OnEntry(f) /\ InTable(f.dp)
<1>1. Went(q, v, f) /\ f \in Good(q)
  BY DEF Reached, Went
<1>2. f.dp \in DirSet /\ dir(f) \in EntrySet
  BY <1>1, GoodIs, DirIs
<1> QED
  BY <1>1, <1>2 DEF Reached, OnEntry

(* Remove_chain leaves the DIR and the file object alone, *)
LEMMA RemoveChainGoes ==
  ASSUME NEW q \in BOOLEAN, NEW v, NEW u, Went(q, v, u), NEW c \in Nat
  PROVE  LET w == remove_chain(u, c, 0)
         IN  Went(q, v, w) /\ w \in Good(q) /\ w.dp = u.dp
<1> DEFINE w == remove_chain(u, c, 0)
<1>1. w \in Good(q) /\ SameWork(u, w)
  BY NumbersApart, RemoveChainKeeps DEF Went
<1> HIDE DEF w
<1> QED
  BY <1>1 DEF Went, SameWork, SameFile, w

(* And so does sync_fs. *)
LEMMA SyncGoes ==
  ASSUME NEW q \in BOOLEAN, NEW v, NEW u, Went(q, v, u)
  PROVE  LET w == sync_fs(u)
         IN  Went(q, v, w) /\ w \in Good(q) /\ w.dp = u.dp
<1> DEFINE w == sync_fs(u)
<1>1. w \in Good(q) /\ SameRest(u, w)
  BY SyncFsKeeps DEF Went
<1> HIDE DEF w
<1> QED
  BY <1>1 DEF Went, SameRest, SameWork, SameFile, w

(* F_unlink's look into a directory puts the DIR back. *)
LEMMA TestEmptyKeeps ==
  ASSUME NEW q \in BOOLEAN, NEW v \in Good(q), NEW c \in ClusterNos
  PROVE  LET w == TestEmpty(v, c)
         IN  Went(q, v, w) /\ w.dp = v.dp
<1> DEFINE x == [NoDir EXCEPT !.sclust = c]
           u == WithDp(v, x)
           s == dir_sdi(u, 0)
           d == dir_read(s)
           r == IF s.res = "OK" THEN d ELSE s
           e == IF r.res = "OK" THEN "DENIED" ELSE IF r.res = "NO_FILE" THEN "OK" ELSE r.res
           p == WithDp(r, v.dp)
           w == Res(p, e)
<1>1. TestEmpty(v, c) = [r EXCEPT !.dp = v.dp,
                           !.res = IF @ = "OK" THEN "DENIED"
                                   ELSE IF @ = "NO_FILE" THEN "OK" ELSE @]
  BY Zenon DEF TestEmpty, With, Then, WithDp
<1>2. x \in DirSet
  BY NoDirIs DEF DirSet
<1> HIDE DEF x
<1>3. Went(q, v, u) /\ u \in Good(q)
  BY <1>2, WentSelf, DpGoes
<1> HIDE DEF u
<1>4. Stepped(q, v, s)
  <2>1. Stepped(q, u, s)
    BY <1>3, SdiGoes
  <2> HIDE DEF s
  <2> QED
    BY <1>3, <2>1, WentOn DEF Stepped
<1> HIDE DEF s
<1>5. s.res = "OK" => Went(q, v, d)
  <2>1. SUFFICES ASSUME s.res = "OK" PROVE Went(q, v, d)
    OBVIOUS
  <2>2. s \in Good(q) /\ InTable(s.dp) /\ Went(q, v, s)
    BY <1>4, <2>1 DEF Stepped, Went
  <2>3. Walked(q, s, d)
    BY <2>2, DirReadKeeps DEF AtOrPast
  <2> HIDE DEF d
  <2> QED
    BY <2>2, <2>3, WentOn DEF Walked
<1> HIDE DEF d
<1>6. Went(q, v, r) /\ r \in Good(q)
  BY <1>4, <1>5 DEF Stepped, Went
<1> HIDE DEF r
<1>7. r \in CallSet /\ v.dp \in DirSet /\ e \in Results
  <2>1. r.res \in Results
    BY <1>6, GoodIs
  <2> QED
    BY <1>6, <2>1, GoodIs, ResultsAre
<1>8. TestEmpty(v, c) = w
  BY <1>1, <1>7 DEF CallSet, WithDp, Res
<1>9. Went(q, v, p)
  BY <1>6, <1>7, DpGoes
<1>10. p.dp = v.dp
  BY <1>6, <1>7, DpGoes
<1> HIDE DEF p, e
<1>11. Went(q, v, w)
  BY <1>7, <1>9, ResGoes
<1>12. w.dp = p.dp
  BY <1>7, <1>9, ResGoes
<1> HIDE DEF w
<1> QED
  BY <1>8, <1>10, <1>11, <1>12

(* F_unlink takes the entry first, then the chain. *)
LEMMA RemoveObjectKeeps ==
  ASSUME NEW q \in BOOLEAN, NEW v, NEW u, Went(q, v, u), InTable(u.dp), NEW c \in Nat
  PROVE  Went(q, v, RemoveObject(u, c))
<1> DEFINE x == dir_remove(u)
           r == remove_chain(x, c, 0)
           y == IF c # 0 THEN r ELSE x
           z == sync_fs(y)
<1>1. RemoveObject(u, c) = IF x.res = "OK" THEN IF y.res = "OK" THEN z ELSE y ELSE x
  BY Zenon DEF RemoveObject, Then
<1>2. Went(q, v, x)
  BY DirRemoveKeeps DEF Walked
<1> HIDE DEF x
<1>3. Went(q, v, r)
  BY <1>2, RemoveChainGoes
<1> HIDE DEF r
<1>4. Went(q, v, y)
  BY <1>2, <1>3
<1> HIDE DEF y
<1>5. Went(q, v, z)
  BY <1>4, SyncGoes
<1> HIDE DEF z
<1> QED
  BY <1>1, <1>2, <1>4, <1>5

(* F_unlink keeps the count of free clusters right and the copies of the   *)
(* FAT the same, for every path and card and wherever it fails.            *)
THEOREM UnlinkKeeps ==
  ASSUME NEW q \in BOOLEAN, NEW v \in Good(q), NEW path \in PathSet
  PROVE  Went(q, v, f_unlink(v, path))
<1> DEFINE f == Lookup(v, path)
           c == dir(f).cl
           t == IF f.dp.dir THEN TestEmpty(f, c) ELSE f
           y == Res(f, "INVALID_NAME")
           z == Res(f, "DENIED")
           w == RemoveObject(t, c)
<1>1. f_unlink(v, path) =
        IF f.res = "OK"
        THEN IF f.dp.dot \/ f.dp.origin THEN y
             ELSE IF f.dp.ro \/ (f.dp.dir /\ c = f.fs.cdir) THEN z
             ELSE IF t.res = "OK" THEN w ELSE t
        ELSE f
  BY Zenon DEF f_unlink, Then
<1>2. /\ Went(q, v, f) /\ f \in Good(q) /\ dir(f) \in EntrySet
      /\ f.res = "OK" /\ ~f.dp.origin => InTable(f.dp)
  BY LookupKeeps, ReachedIs
<1> HIDE DEF f
<1>3. c \in ClusterNos /\ c \in Nat
  BY <1>2, LayoutIs DEF EntrySet, ClusterNos
<1> HIDE DEF c
<1>4. Went(q, v, y) /\ Went(q, v, z)
  BY <1>2, ResGoes, ResultsAre
<1> HIDE DEF y, z
<1>5. Went(q, v, t) /\ t.dp = f.dp
  <2> DEFINE o == TestEmpty(f, c)
  <2>1. Went(q, f, o) /\ o.dp = f.dp
    BY <1>2, <1>3, TestEmptyKeeps
  <2> HIDE DEF o
  <2>2. t = IF f.dp.dir THEN o ELSE f
    BY DEF o
  <2> QED
    BY <1>2, <2>1, <2>2, WentOn
<1> HIDE DEF t
<1>6. f.res = "OK" /\ ~f.dp.origin => Went(q, v, w)
  BY <1>2, <1>3, <1>5, RemoveObjectKeeps
<1> HIDE DEF w
<1> QED
  BY <1>1, <1>2, <1>4, <1>5, <1>6

(* A change of a table's sector leaves the DIR and the file object alone. *)
LEMMA WinGoes ==
  ASSUME NEW q \in BOOLEAN, NEW v, NEW u, Went(q, v, u), u.fs.winsect \in TableArea, NEW c \in TableSet
  PROVE  LET w == SetWin(u, c)
         IN  /\ Went(q, v, w) /\ w \in Good(q) /\ w.dp = u.dp
             /\ w.res = u.res /\ w.fs.winsect = u.fs.winsect
<1> DEFINE w == SetWin(u, c)
<1>1. u \in Good(q) /\ u \in Steady(q)
  BY GoodIs DEF Went
<1>2. Calm(q, u, w) /\ SameRest(u, w) /\ w.res = u.res /\ w.fs.winsect = u.fs.winsect
  BY <1>1, SetWinKeeps
<1> HIDE DEF w
<1>3. SameFile(u, w) /\ w.dp = u.dp
  BY <1>2 DEF SameRest, SameWork, SameFile
<1>4. Went(q, u, w)
  BY <1>1, <1>2, <1>3, CalmGoes
<1>5. Went(q, v, w) /\ w \in Good(q)
  BY <1>4, WentOn DEF Went
<1> QED
  BY <1>2, <1>3, <1>5 DEF w

(* The first sector of a cluster. *)
LEMMA TableTop ==
  ASSUME NEW c \in RealClusters
  PROVE  clst2sect(c) \in TableArea /\ clst2sect(c) \in WinSects
<1>1. c \in Int /\ 0 \in 0 .. ClusterSectors - 1
  BY NumbersApart, GeometryAssumption
<1>2. clst2sect(c) \in Nat /\ clst2sect(c) + 0 \in TableArea
  BY <1>1, ClusterIsThere
<1> QED
  BY <1>2, AreasApart

(* F_mkdir writes both dot entries into the first sector of the new table. *)
LEMMA DotEntriesKeep ==
  ASSUME NEW q \in BOOLEAN, NEW v, NEW u, Went(q, v, u), NEW c \in RealClusters,
         u.fs.winsect = clst2sect(c), NEW parent \in ClusterNos
  PROVE  Went(q, v, DotEntries(u, c, parent))
<1> DEFINE es == EntriesOf(u.fs.win)
           a == Entry(".", TRUE, FALSE, c, 0)
           b == Entry("..", TRUE, FALSE, parent, 0)
           x == [es EXCEPT ![0] = a, ![1] = b]
           t == DirSector(x)
<1>1. DotEntries(u, c, parent) = SetWin(u, t)
  BY Zenon DEF DotEntries
<1>2. es \in [0 .. DirEntriesPerSector - 1 -> EntrySet]
  BY GoodIs, EntriesAre DEF Went
<1>3. a \in EntrySet /\ b \in EntrySet
  BY NumbersApart, EntryIs DEF Words
<1>3a. b \in EntrySet
  BY EntryIs DEF Words
<1> HIDE DEF es, a, b
<1>4. x \in [0 .. DirEntriesPerSector - 1 -> EntrySet]
  BY <1>2, <1>3
<1> HIDE DEF x
<1>5. t \in TableSet
  BY <1>4 DEF DirSector, TableSet
<1> HIDE DEF t
<1>6. u.fs.winsect \in TableArea
  BY TableTop
<1> QED
  BY <1>1, <1>5, <1>6, WinGoes

(* It makes a table of the new cluster only if it got one. *)
LEMMA MakeTableKeeps ==
  ASSUME NEW q \in BOOLEAN, NEW v \in Good(q), v.ret \in {0, 1, DISKERR} \union RealClusters
  PROVE  LET w == MakeTable(v)
         IN  Walked(q, v, w) /\ (w.res = "OK" => v.ret \in RealClusters)
<1> DEFINE c == v.ret
           d == dir_clear(v, c)
           p == DotEntries(d, c, d.dp.sclust)
           r == dir_register(p)
           y == Res(v, "DENIED")
           z == Res(v, ClusterError(c))
<1>1. MakeTable(v) = IF c = 0 THEN y ELSE IF c \in {1, DISKERR} THEN z
                     ELSE IF d.res = "OK" THEN r ELSE d
  BY Zenon DEF MakeTable, Then
<1>2. Walked(q, v, y) /\ y.res = "DENIED" /\ Walked(q, v, z) /\ z.res # "OK"
  <2>1. Went(q, v, y) /\ y.res = "DENIED"
    BY WentSelf, ResGoes, ResultsAre
  <2>2. Went(q, v, z) /\ z.res = ClusterError(c)
    BY WentSelf, ResGoes, ClusterErrorIs
  <2> HIDE DEF y, z
  <2> QED
    BY <2>1, <2>2, ClusterErrorIs DEF Walked, GO
<1> HIDE DEF y, z
<1>3. CASE c = 0 \/ c \in {1, DISKERR}
  BY <1>1, <1>2, <1>3
<1>4. CASE ~(c = 0 \/ c \in {1, DISKERR})
  <2>1. c \in RealClusters /\ v \in Steady(q)
    BY <1>4, GoodIs
  <2>2. /\ Calm(q, v, d) /\ SameRest(v, d) /\ d.res \in {"OK", "DISK_ERR"}
        /\ d.res = "OK" => d.fs.winsect = clst2sect(c)
    BY <2>1, DirClearKeeps
  <2> HIDE DEF d
  <2>3. Went(q, v, d) /\ d \in Good(q)
    <3>1. SameFile(v, d)
      BY <2>2 DEF SameRest, SameWork, SameFile
    <3> QED
      BY <2>2, <3>1, CalmGoes DEF Went
  <2>4. d.res = "OK" => Walked(q, v, r)
    <3>1. SUFFICES ASSUME d.res = "OK" PROVE Walked(q, v, r)
      OBVIOUS
    <3>2. d.dp.sclust \in ClusterNos
      BY <2>3, GoodIs DEF DirSet
    <3>3. Went(q, v, p) /\ p \in Good(q)
      BY <2>1, <2>2, <2>3, <3>1, <3>2, DotEntriesKeep DEF Went
    <3> HIDE DEF p
    <3>4. Walked(q, p, r)
      BY <3>3, DirRegisterKeeps
    <3> HIDE DEF r
    <3> QED
      BY <3>3, <3>4, WalkedOn
  <2> HIDE DEF r
  <2> QED
    BY <1>1, <1>4, <2>1, <2>2, <2>3, <2>4 DEF Walked, GO
<1> QED
  BY <1>3, <1>4

(* F_mkdir does too, also when it has to give back the cluster it took. *)
THEOREM MkdirKeeps ==
  ASSUME NEW q \in BOOLEAN, NEW v \in Good(q), NEW path \in PathSet
  PROVE  Went(q, v, f_mkdir(v, path))
<1> DEFINE f == Lookup(v, path)
           c == create_chain(f, 0)
           m == MakeTable(c)
           e == [dir(m) EXCEPT !.dir = TRUE, !.cl = c.ret]
           d == SetDir(m, e)
           s == sync_fs(d)
           r == remove_chain(m, c.ret, 0)
           z == Res(r, m.res)
           x == Res(f, "EXIST")
           y == Res(f, "INVALID_NAME")
<1>1. f_mkdir(v, path) =
        IF f.res = "OK" THEN x ELSE IF f.res # "NO_FILE" THEN f ELSE IF f.dp.dot THEN y
        ELSE IF m.res = "OK" THEN s ELSE z
  BY Zenon DEF f_mkdir, With
<1>2. Went(q, v, f) /\ f \in Good(q)
  BY LookupKeeps, ReachedIs
<1> HIDE DEF f
<1>3. Went(q, v, x) /\ Went(q, v, y)
  BY <1>2, ResGoes, ResultsAre
<1> HIDE DEF x, y
<1>4. Went(q, f, c) /\ c \in Good(q) /\ c.ret \in {0, 1, DISKERR} \union RealClusters
  BY <1>2, CreateChainGoes
<1> HIDE DEF c
<1>5. Walked(q, c, m) /\ (m.res = "OK" => c.ret \in RealClusters)
  BY <1>4, MakeTableKeeps
<1> HIDE DEF m
<1>6. Walked(q, v, m) /\ Went(q, v, m) /\ m \in Good(q)
  BY <1>2, <1>4, <1>5, WalkedOn, WentOn DEF Walked, Went
<1>7. m.res = "OK" => Went(q, v, s)
  <2>1. SUFFICES ASSUME m.res = "OK" PROVE Went(q, v, s)
    OBVIOUS
  <2>2. e \in EntrySet
    <3>1. dir(m) \in EntrySet /\ c.ret \in ClusterNos
      BY <1>5, <1>6, <2>1, DirIs, NumbersApart
    <3> QED
      BY <3>1 DEF EntrySet
  <2> HIDE DEF e
  <2>3. Went(q, v, d)
    BY <1>6, <2>1, <2>2, ChangeKeeps DEF Walked
  <2> HIDE DEF d
  <2> QED
    BY <2>3, SyncGoes
<1> HIDE DEF s
<1>8. Went(q, v, z)
  <2>1. c.ret \in Nat /\ m.res \in Results
    BY <1>4, <1>6, GoodIs
  <2>2. Went(q, v, r)
    BY <1>6, <2>1, RemoveChainGoes
  <2> HIDE DEF r
  <2> QED
    BY <2>1, <2>2, ResGoes
<1> HIDE DEF z
<1> QED
  BY <1>1, <1>2, <1>3, <1>7, <1>8

(* F_rename's change of ".." is written into the table that was moved, *)
LEMMA UpdateDotDotKeeps ==
  ASSUME NEW q \in BOOLEAN, NEW v, NEW u, Went(q, v, u), NEW c \in ClusterNos
  PROVE  LET w == UpdateDotDot(u, c)
         IN  Went(q, v, w)
<1> DEFINE m == move_window(u, clst2sect(c))
           es == EntriesOf(m.fs.win)
           e == [es[1] EXCEPT !.cl = u.dp.sclust]
           x == [es EXCEPT ![1] = e]
           t == DirSector(x)
           w == SetWin(m, t)
           y == Res(u, "INT_ERR")
<1>1. UpdateDotDot(u, c) = IF clst2sect(c) = 0 THEN y
                           ELSE IF m.res = "OK" /\ es[1].nm = ".." THEN w ELSE m
  <2>1. UpdateDotDot(u, c) = IF clst2sect(c) = 0 THEN y
                           ELSE IF m.res = "OK" /\ es[1].nm = ".."
                           THEN SetWin(m, DirSector([es EXCEPT ![1] = [@ EXCEPT !.cl = u.dp.sclust]])) ELSE m
    BY Zenon DEF UpdateDotDot, With
  <2> QED
    BY <2>1
<1>2. Went(q, v, y)
  BY ResGoes, ResultsAre
<1> HIDE DEF y
<1>3. CASE clst2sect(c) = 0
  BY <1>1, <1>2, <1>3
<1>4. CASE clst2sect(c) # 0
  <2>1. c \in RealClusters
    BY <1>4, ClusterIsThere, LayoutIs DEF ClusterNos
  <2>2. clst2sect(c) \in TableArea /\ clst2sect(c) \in WinSects /\ u \in Good(q)
    BY <2>1, TableTop DEF Went
  <2>3. Went(q, u, m) /\ m \in Good(q) /\ (m.res = "OK" => m.fs.winsect = clst2sect(c))
    BY <2>2, MoveGoes
  <2> HIDE DEF m
  <2>4. Went(q, v, m)
    BY <2>3, WentOn
  <2>5. t \in TableSet
    <3>1. es \in [0 .. DirEntriesPerSector - 1 -> EntrySet]
      BY <2>3, GoodIs, EntriesAre
    <3> HIDE DEF es
    <3>2. u.dp.sclust \in ClusterNos
      BY <2>2, GoodIs DEF DirSet
    <3>3. 1 \in 0 .. DirEntriesPerSector - 1
      BY GeometryAssumption
    <3>4. e \in EntrySet
      <4>1. es[1] \in EntrySet
        BY <3>1, <3>3
      <4> QED
        BY <3>2, <4>1 DEF EntrySet
    <3> HIDE DEF e
    <3>5. x \in [0 .. DirEntriesPerSector - 1 -> EntrySet]
      BY <3>1, <3>4
    <3> HIDE DEF x
    <3> QED
      BY <3>5 DEF DirSector, TableSet
  <2> HIDE DEF t
  <2>6. m.res = "OK" => Went(q, v, w)
    BY <2>2, <2>3, <2>4, <2>5, WinGoes
  <2> HIDE DEF w, es
  <2> QED
    BY <1>1, <1>4, <2>4, <2>6
<1> QED
  BY <1>3, <1>4

(* The entry e under the name that the DIR holds, and the entry old gone.  *)
LEMMA MoveEntryKeeps ==
  ASSUME NEW q \in BOOLEAN, NEW v \in Good(q), NEW e \in EntrySet,
         NEW old \in DirSet, InTable(old)
  PROVE  Went(q, v, MoveEntry(v, e, old))
<1> DEFINE r == dir_register(v)
           f == [e EXCEPT !.nm = r.dp.fn]
           n == SetDir(r, f)
           d == UpdateDotDot(n, e.cl)
           w == IF e.dir /\ old.sclust # n.dp.sclust THEN d ELSE n
           p == WithDp(w, old)
           x == dir_remove(p)
           s == sync_fs(x)
<1>1. MoveEntry(v, e, old) =
        IF r.res = "OK" THEN IF w.res = "OK" THEN IF x.res = "OK" THEN s ELSE x ELSE w ELSE r
  BY Zenon DEF MoveEntry, Then, With, WithDp
<1>2. Walked(q, v, r)
  BY DirRegisterKeeps
<1> HIDE DEF r
<1>3. r.res = "OK" => Went(q, v, n)
  <2>1. SUFFICES ASSUME r.res = "OK" PROVE Went(q, v, n)
    OBVIOUS
  <2>2. f \in EntrySet
    <3>1. r \in Good(q)
      BY <1>2 DEF Walked, Went
    <3>2. r.dp.fn \in Words
      BY <3>1, GoodIs DEF DirSet
    <3> QED
      BY <3>2 DEF EntrySet
  <2> HIDE DEF f
  <2>3. Walked(q, v, n)
    BY <1>2, <2>1, <2>2, ChangeKeeps
  <2> QED
    BY <2>3 DEF Walked
<1> HIDE DEF n
<1>4. CASE r.res # "OK"
  BY <1>1, <1>2, <1>4 DEF Walked
<1>5. CASE r.res = "OK"
  <2>1. e.cl \in ClusterNos
    BY DEF EntrySet
  <2>2. Went(q, v, d)
    BY <1>3, <1>5, <2>1, UpdateDotDotKeeps
  <2> HIDE DEF d
  <2>3. Went(q, v, w)
    BY <1>3, <1>5, <2>2
  <2> HIDE DEF w
  <2>4. Went(q, v, p) /\ p \in Good(q)
    BY <2>3, DpGoes
  <2>5. p.dp = old
    BY <2>3, DpGoes
  <2> HIDE DEF p
  <2>6. Went(q, v, x)
    <3>1. Walked(q, v, x)
      BY <2>4, <2>5, DirRemoveKeeps
    <3> QED
      BY <3>1 DEF Walked
  <2> HIDE DEF x
  <2>7. Went(q, v, s)
    BY <2>6, SyncGoes
  <2> HIDE DEF s
  <2> QED
    BY <1>1, <1>5, <2>3, <2>6, <2>7
<1> QED
  BY <1>4, <1>5

(* F_rename does too. *)
THEOREM RenameKeeps ==
  ASSUME NEW q \in BOOLEAN, NEW v \in Good(q), NEW old \in PathSet, NEW new \in PathSet
  PROVE  Went(q, v, f_rename(v, old, new))
<1> DEFINE f == Lookup(v, old)
           g == follow_path(f, new)
           o == Res(g, "OK")
           m == MoveEntry(o, dir(f), f.dp)
           x == Res(f, "INVALID_NAME")
           y == Res(g, "EXIST")
<1>1. f_rename(v, old, new) =
        IF f.res = "OK"
        THEN IF f.dp.dot \/ f.dp.origin THEN x
             ELSE IF g.res = "NO_FILE" \/ (g.res = "OK" /\ SameEntry(g.dp, f.dp)) THEN m
             ELSE IF g.res = "OK" THEN y ELSE g
        ELSE f
  BY Zenon DEF f_rename, Then, With, OK
<1>2. /\ Went(q, v, f) /\ f \in Good(q) /\ dir(f) \in EntrySet /\ f.dp \in DirSet
      /\ f.res = "OK" /\ ~f.dp.origin => InTable(f.dp)
  BY LookupKeeps, ReachedIs
<1> HIDE DEF f
<1>3. Went(q, v, x)
  BY <1>2, ResGoes, ResultsAre
<1> HIDE DEF x
<1>4. Went(q, v, g)
  <2>1. Reached(q, f, g)
    BY <1>2, FollowPathKeeps
  <2> HIDE DEF g
  <2> QED
    BY <1>2, <2>1, WentOn DEF Reached
<1> HIDE DEF g
<1>5. Went(q, v, o) /\ o \in Good(q) /\ Went(q, v, y)
  BY <1>4, ResGoes, ResultsAre
<1> HIDE DEF o, y
<1>6. f.res = "OK" /\ ~f.dp.origin => Went(q, v, m)
  <2>1. SUFFICES ASSUME f.res = "OK" /\ ~f.dp.origin PROVE Went(q, v, m)
    OBVIOUS
  <2>2. Went(q, o, m)
    BY <1>2, <1>5, <2>1, MoveEntryKeeps
  <2> HIDE DEF m
  <2> QED
    BY <1>5, <2>2, WentOn
<1> HIDE DEF m
<1> QED
  BY <1>1, <1>2, <1>3, <1>4, <1>5, <1>6

-----------------------------------------------------------------------------
(* The current directory. *)
LEMMA CdirGoes ==
  ASSUME NEW q \in BOOLEAN, NEW v, NEW u, Went(q, v, u), NEW c \in ClusterNos
  PROVE  Went(q, v, [u EXCEPT !.fs.cdir = c])
<1> DEFINE f == u.fs
           g == [f EXCEPT !.cdir = c]
           w == [u EXCEPT !.fs = g]
<1>1. u \in Good(q) /\ u \in Steady(q) /\ f \in Volumes /\ u \in CallSet
  BY GoodIs DEF Went
<1>2. /\ g \in Volumes /\ g.free = f.free
      /\ g.reg = f.reg /\ g.type = f.type /\ g.win = f.win
      /\ g.winsect = f.winsect /\ g.wflag = f.wflag
  BY <1>1, SetNumber
<1>3. [u EXCEPT !.fs.cdir = c] = w
  BY Zenon
<1> HIDE DEF g
<1>4. w \in Steady(q) /\ w.fs = g /\ SameRest(u, w) /\ SameFat(u, w)
  BY <1>1, <1>2, NumbersChanged
<1> HIDE DEF w
<1>5. w \in Good(q)
  BY <1>1, <1>2, <1>4, SameCount
<1>6. SameFile(u, w)
  BY <1>4 DEF SameRest, SameWork, SameFile
<1> QED
  BY <1>3, <1>5, <1>6 DEF Went, SameFile

(* A path that leads nowhere is an error like any other. *)
LEMMA NoPathKeeps ==
  ASSUME NEW q \in BOOLEAN, NEW v, NEW u, Went(q, v, u)
  PROVE  Went(q, v, NoPath(u))
<1> DEFINE x == Res(u, "NO_PATH")
<1>1. Went(q, v, x)
  BY ResGoes, ResultsAre
<1> HIDE DEF x
<1> QED
  BY <1>1 DEF NoPath, x

(* F_chdir changes nothing but the current directory. *)
LEMMA ChdirKeeps ==
  ASSUME NEW q \in BOOLEAN, NEW v \in Good(q), NEW path \in PathSet
  PROVE  Went(q, v, f_chdir(v, path))
<1> DEFINE f == Lookup(v, path)
           a == [f EXCEPT !.fs.cdir = f.dp.sclust]
           b == [f EXCEPT !.fs.cdir = dir(f).cl]
           x == Res(f, "NO_PATH")
           w == IF f.res = "OK" THEN IF f.dp.origin THEN a ELSE IF f.dp.dir THEN b ELSE x
                ELSE f
<1>1. f_chdir(v, path) = NoPath(w)
  BY Zenon DEF f_chdir, Then
<1>2. Went(q, v, f) /\ f \in Good(q) /\ f.dp \in DirSet /\ dir(f) \in EntrySet
  BY LookupKeeps, ReachedIs
<1> HIDE DEF f
<1>3. f.dp.sclust \in ClusterNos /\ dir(f).cl \in ClusterNos
  BY <1>2 DEF DirSet, EntrySet
<1>4. Went(q, v, a) /\ Went(q, v, b)
  BY <1>2, <1>3, CdirGoes
<1>5. Went(q, v, x)
  BY <1>2, ResGoes, ResultsAre
<1> HIDE DEF a, b, x
<1>6. Went(q, v, w)
  BY <1>2, <1>4, <1>5
<1> HIDE DEF w
<1> QED
  BY <1>1, <1>6, NoPathKeeps

(* What a call answers is put in its buffer. *)
LEMMA BufGoes ==
  ASSUME NEW q \in BOOLEAN, NEW u \in Good(q), NEW x \in Seq(Words \union EntrySet)
  PROVE  LET w == [u EXCEPT !.buf = x]
         IN  /\ w \in Good(q) /\ w.buf = x /\ w.res = u.res /\ w.ret = u.ret
             /\ w.fp = u.fp /\ w.dp = u.dp /\ w.cnt = u.cnt /\ w.fs = u.fs
<1> DEFINE w == [u EXCEPT !.buf = x]
<1>1. u \in CallSet
  BY GoodIs
<1>2. /\ w \in CallSet /\ w.buf = x /\ w.res = u.res /\ w.ret = u.ret
      /\ w.fp = u.fp /\ w.dp = u.dp /\ w.cnt = u.cnt /\ SameCard(u, w)
  BY <1>1, SetBuf
<1> HIDE DEF w
<1>3. w \in Good(q)
  BY <1>2, SameCardKeeps
<1> QED
  BY <1>2, <1>3 DEF SameCard, w

(* F_stat changes nothing on the card. *)
LEMMA StatKeeps ==
  ASSUME NEW q \in BOOLEAN, NEW v \in Good(q), NEW path \in PathSet
  PROVE  f_stat(v, path) \in Good(q)
<1> DEFINE f == Lookup(v, path)
           x == Res(f, "INVALID_NAME")
           b == <<dir(f)>>
           w == [f EXCEPT !.buf = b]
<1>1. f_stat(v, path) = IF f.res = "OK" THEN IF f.dp.origin THEN x ELSE w ELSE f
  BY Zenon DEF f_stat, Then
<1>2. Went(q, v, f) /\ f \in Good(q) /\ dir(f) \in EntrySet
  BY LookupKeeps, ReachedIs
<1> HIDE DEF f
<1>3. x \in Good(q)
  BY <1>2, ResGoes, ResultsAre
<1> HIDE DEF x
<1>4. b \in Seq(Words \union EntrySet)
  BY <1>2
<1> HIDE DEF b
<1>5. w \in Good(q)
  BY <1>2, <1>4, BufGoes
<1> HIDE DEF w
<1> QED
  BY <1>1, <1>2, <1>3, <1>5

(* F_getcwd's round over a parent table, *)
LEMMA TryChildKeeps ==
  ASSUME NEW q \in BOOLEAN, NEW v \in Good(q), InTable(v.dp), NEW c
  PROVE  TryChild(v, c) \in Walk(q, v)
<1> DEFINE m == dir_read(v)
           d == dir_next(m, FALSE)
           z == IF d.res = "OK" THEN Again(d) ELSE d
<1>1. TryChild(v, c) = IF m.res = "OK" THEN IF dir(m).cl = c THEN m ELSE z ELSE m
  BY Zenon DEF TryChild, Then
<1>2. Walked(q, v, m) /\ m \in Good(q) /\ Went(q, v, m)
  BY DirReadKeeps DEF Walked, Went, AtOrPast
<1> HIDE DEF m
<1>3. m.res = "OK" => z \in Walk(q, v)
  <2>1. SUFFICES ASSUME m.res = "OK" PROVE z \in Walk(q, v)
    OBVIOUS
  <2>2. InTable(m.dp)
    BY <1>2, <2>1 DEF Walked, OnEntry
  <2> QED
    BY <1>2, <2>2, NextOrEnd
<1>4. m \in Walk(q, v)
  BY <1>2 DEF Walk, Walked
<1> HIDE DEF z
<1> QED
  BY <1>1, <1>3, <1>4

(* Its loop, *)
LEMMA FindChildKeeps ==
  ASSUME NEW q \in BOOLEAN, NEW v \in Good(q), InTable(v.dp), NEW c
  PROVE  Walked(q, v, FindChild(v, c))
<1> DEFINE n == MAX_DIR
           a == Again(v)
           V == Walk(q, v)
           B(u, k) == IF u.res = GO THEN TryChild(u, c) ELSE u
           F(h) == [k \in 0..n |-> IF k = 0 THEN a ELSE B(h[k - 1], k)]
           at == CHOOSE h : h = F(h)
           G == [p \in V \X (1..n) |-> B(p[1], p[2])]
<1>1. n \in Nat /\ a \in V
  BY WalkBound, WalkStarts
<1>2. \A u \in V, k \in 1..n : B(u, k) \in V
  <2>1. ASSUME NEW u \in V, u.res = GO PROVE TryChild(u, c) \in V
    <3>1. u \in Good(q) /\ InTable(u.dp) /\ Went(q, v, u)
      BY <2>1 DEF Walk
    <3>2. TryChild(u, c) \in Walk(q, u)
      BY <3>1, TryChildKeeps
    <3> QED
      BY <3>1, <3>2, WalkOn
  <2> HIDE DEF V
  <2> QED
    BY <2>1
<1>3. FindChild(v, c) = IF at[n].res = GO THEN Res(at[n], "ENDLESS") ELSE at[n]
  BY Zenon DEF FindChild, Rounds, With
<1> HIDE DEF a, V, B, n
<1>4. G \in [V \X (1..n) -> V] /\ \A u \in V, k \in 1..n : G[<<u, k>>] = B(u, k)
  BY <1>2
<1> HIDE DEF G
<1>5. PICK g \in [0..n -> V] : Runs(g, V, a, G, n)
  BY <1>1, <1>4, LoopRuns, Zenon
<1>6. g = F(g)
  <2>1. \A k \in 1..n : g[k] = B(g[k - 1], k)
    BY <1>4, <1>5, Zenon DEF Runs
  <2>2. \A k \in 0..n : g[k] = IF k = 0 THEN a ELSE B(g[k - 1], k)
    BY <1>5, <2>1 DEF Runs
  <2> QED
    BY <2>2
<1>7. at = F(at)
  BY <1>6
<1> HIDE DEF at
<1>8. at[0] = a /\ \A k \in 1..n : at[k] = B(at[k - 1], k)
  BY <1>1, <1>7
<1>9. at[n] \in V
  <2>1. \A k \in 1..n : at[k - 1] \in V => at[k] \in V
    BY <1>2, <1>8, Zenon
  <2> QED
    BY <1>1, <1>8, <2>1, LoopStays, Zenon
<1> DEFINE e == at[n]
<1>10. e \in V /\ FindChild(v, c) = IF e.res = GO THEN Res(e, "ENDLESS") ELSE e
  BY <1>3, <1>9
<1> HIDE DEF e
<1>11. e \in Walk(q, v)
  BY <1>10 DEF V
<1> QED
  BY <1>10, <1>11, WalkEnds

(* Its way to the parent by "..", *)
LEMMA ParentTableKeeps ==
  ASSUME NEW q \in BOOLEAN, NEW v \in Good(q)
  PROVE  Stepped(q, v, ParentTable(v))
<1> DEFINE s == dir_sdi(v, 1)
           m == move_window(s, s.dp.sect)
           x == [m.dp EXCEPT !.sclust = dir(m).cl]
           u == WithDp(m, x)
           j == [m EXCEPT !.dp.sclust = dir(m).cl]
           t == dir_sdi(u, 0)
<1>1. ParentTable(v) = IF s.res = "OK" THEN IF m.res = "OK" THEN dir_sdi(j, 0) ELSE m ELSE s
  BY Zenon DEF ParentTable, Then
<1>2. Stepped(q, v, s)
  BY SdiGoes
<1> HIDE DEF s
<1>3. CASE s.res # "OK"
  BY <1>1, <1>2, <1>3
<1>4. CASE s.res = "OK"
  <2>1. Went(q, v, s) /\ InTable(s.dp)
    BY <1>2, <1>4 DEF Stepped
  <2>2. Walked(q, v, m) /\ m.dp = s.dp
    BY <2>1, EntryWalks
  <2> HIDE DEF m
  <2>3. Went(q, v, m) /\ m \in Good(q)
    BY <2>2 DEF Walked, Went
  <2>4. m \in CallSet /\ m.dp \in DirSet /\ dir(m) \in EntrySet
    BY <2>3, GoodIs, DirIs
  <2>5. j = u
    BY <2>4, DpChanges
  <2>6. x \in DirSet
    <3>1. dir(m).cl \in ClusterNos
      BY <2>4 DEF EntrySet
    <3> QED
      BY <2>4, <3>1 DEF DirSet
  <2> HIDE DEF x
  <2>7. Went(q, v, u) /\ u \in Good(q)
    BY <2>3, <2>6, DpGoes
  <2> HIDE DEF u, j
  <2>8. Stepped(q, v, t)
    <3>1. Stepped(q, u, t)
      BY <2>7, SdiGoes
    <3> HIDE DEF t
    <3> QED
      BY <2>7, <3>1, WentOn DEF Stepped
  <2>9. ParentTable(v) = IF m.res = "OK" THEN t ELSE m
    BY <1>1, <1>4, <2>5, Zenon
  <2>10. Stepped(q, v, m)
    BY <2>1, <2>2 DEF Walked, Stepped, OnEntry
  <2> HIDE DEF t
  <2> QED
    BY <2>8, <2>9, <2>10
<1> QED
  BY <1>3, <1>4

(* One level of it, *)
LEMMA ClimbKeeps ==
  ASSUME NEW q \in BOOLEAN, NEW v \in Good(q), NEW room
  PROVE  Climb(v, room) \in Good(q)
<1> DEFINE p == ParentTable(v)
           c == v.dp.sclust
           f == FindChild(p, c)
           t == IF p.res = "OK" THEN f ELSE p
           o == Res(v, "OK")
           x == Res(t, "INT_ERR")
           b == <<dir(t).nm>> \o t.buf
           y == [t EXCEPT !.buf = b]
           z == Res(y, GO)
           k == Res(t, "NOT_ENOUGH_CORE")
<1>1. Climb(v, room) = IF c = 0 THEN o ELSE IF t.res = "NO_FILE" THEN x
                 ELSE IF t.res = "OK" THEN (IF Len(t.buf) = room THEN k ELSE z) ELSE t
  BY Zenon DEF Climb, With, Then, Again, OK
<1>2. o \in Good(q)
  BY WentSelf, ResGoes, ResultsAre
<1> HIDE DEF o
<1>3. Stepped(q, v, p)
  BY ParentTableKeeps
<1> HIDE DEF p
<1>4. p.res = "OK" => Went(q, v, f)
  <2>1. SUFFICES ASSUME p.res = "OK" PROVE Went(q, v, f)
    OBVIOUS
  <2>2. p \in Good(q) /\ InTable(p.dp) /\ Went(q, v, p)
    BY <1>3, <2>1 DEF Stepped, Went
  <2> HIDE DEF c
  <2>3. Walked(q, p, f)
    BY <2>2, FindChildKeeps
  <2> HIDE DEF f
  <2> QED
    BY <2>2, <2>3, WentOn DEF Walked
<1> HIDE DEF f
<1>5. Went(q, v, t) /\ t \in Good(q)
  BY <1>3, <1>4 DEF Stepped, Went
<1> HIDE DEF t
<1>6. x \in Good(q) /\ k \in Good(q)
  BY <1>5, ResGoes, ResultsAre
<1> HIDE DEF x, k
<1>7. b \in Seq(Words \union EntrySet)
  <2>1. dir(t).nm \in Words
    BY <1>5, DirIs DEF EntrySet
  <2>2. t.buf \in Seq(Words \union EntrySet)
    BY <1>5, GoodIs DEF CallSet
  <2> QED
    BY <2>1, <2>2
<1> HIDE DEF b
<1>8. y \in Good(q)
  BY <1>5, <1>7, BufGoes
<1> HIDE DEF y
<1>9. z \in Good(q)
  BY <1>8, WentSelf, ResGoes, ResultsAre
<1> HIDE DEF z
<1> QED
  BY <1>1, <1>2, <1>5, <1>6, <1>9

(* And all levels. *)
LEMMA ClimbToRootKeeps ==
  ASSUME NEW q \in BOOLEAN, NEW v \in Good(q), NEW room
  PROVE  ClimbToRoot(v, room) \in Good(q)
<1> DEFINE n == NFatEnt
           a == Again(v)
           V == Good(q)
           B(u, k) == IF u.res = GO THEN Climb(u, room) ELSE u
           F(h) == [k \in 0..n |-> IF k = 0 THEN a ELSE B(h[k - 1], k)]
           at == CHOOSE h : h = F(h)
           G == [p \in V \X (1..n) |-> B(p[1], p[2])]
<1>1. n \in Nat /\ a \in V
  BY LayoutIs, AgainGoes
<1>2. \A u \in V, k \in 1..n : B(u, k) \in V
  BY ClimbKeeps
<1>3. ClimbToRoot(v, room) = IF at[n].res = GO THEN Res(at[n], "ENDLESS") ELSE at[n]
  BY Zenon DEF ClimbToRoot, Rounds, With
<1> HIDE DEF a, V, B, n
<1>4. G \in [V \X (1..n) -> V] /\ \A u \in V, k \in 1..n : G[<<u, k>>] = B(u, k)
  BY <1>2
<1> HIDE DEF G
<1>5. PICK g \in [0..n -> V] : Runs(g, V, a, G, n)
  BY <1>1, <1>4, LoopRuns, Zenon
<1>6. g = F(g)
  <2>1. \A k \in 1..n : g[k] = B(g[k - 1], k)
    BY <1>4, <1>5, Zenon DEF Runs
  <2>2. \A k \in 0..n : g[k] = IF k = 0 THEN a ELSE B(g[k - 1], k)
    BY <1>5, <2>1 DEF Runs
  <2> QED
    BY <2>2
<1>7. at = F(at)
  BY <1>6
<1> HIDE DEF at
<1>8. at[0] = a /\ \A k \in 1..n : at[k] = B(at[k - 1], k)
  BY <1>1, <1>7
<1>9. at[n] \in V
  <2>1. \A k \in 1..n : at[k - 1] \in V => at[k] \in V
    BY <1>2, <1>8, Zenon
  <2> QED
    BY <1>1, <1>8, <2>1, LoopStays, Zenon
<1> DEFINE e == at[n]
<1>10. e \in V /\ ClimbToRoot(v, room) = IF e.res = GO THEN Res(e, "ENDLESS") ELSE e
  BY <1>3, <1>9
<1> HIDE DEF e
<1> DEFINE z == Res(e, "ENDLESS")
<1>11. e \in Good(q)
  BY <1>10 DEF V
<1>12. z \in Good(q)
  BY <1>11, WentSelf, ResGoes, ResultsAre
<1>13. ClimbToRoot(v, room) = IF e.res = GO THEN z ELSE e
  BY <1>10
<1> HIDE DEF z
<1> QED
  BY <1>11, <1>12, <1>13

(* A volume that is mounted is not mounted again. *)
LEMMA MountedIs ==
  ASSUME NEW q \in BOOLEAN, NEW v \in Good(q)
  PROVE  mount_volume(v) = OK(v)
<1>1. v.fs.reg /\ v.fs.type # 0
  BY GoodIs
<1> QED
  BY <1>1 DEF mount_volume

(* F_getcwd changes nothing on the card. *)
LEMMA GetcwdKeeps ==
  ASSUME NEW q \in BOOLEAN, NEW v \in Good(q), NEW room
  PROVE  f_getcwd(v, room) \in Good(q)
<1> DEFINE o == Res(v, "OK")
           x == [NoDir EXCEPT !.sclust = o.fs.cdir]
           u == WithDp(o, x)
           w == [u EXCEPT !.buf = <<>>]
           j == [o EXCEPT !.dp = x, !.buf = <<>>]
           c == ClimbToRoot(w, room)
<1>1. mount_volume(v) = o
  BY MountedIs DEF OK
<1>2. o \in Good(q) /\ o.res = "OK"
  BY WentSelf, ResGoes, ResultsAre
<1>3. f_getcwd(v, room) = IF o.res = "OK" THEN ClimbToRoot(j, room) ELSE o
  BY <1>1, Zenon DEF f_getcwd, Then
<1> HIDE DEF o
<1>4. x \in DirSet
  <2>1. o.fs.cdir \in ClusterNos
    BY <1>2, GoodIs
  <2> QED
    BY <2>1, NoDirIs DEF DirSet
<1>5. j = w
  BY Zenon DEF WithDp
<1> HIDE DEF x
<1>6. u \in Good(q)
  BY <1>2, <1>4, WentSelf, DpGoes
<1> HIDE DEF u
<1>7. w \in Good(q)
  <2>1. <<>> \in Seq(Words \union EntrySet)
    OBVIOUS
  <2> QED
    BY <1>6, <2>1, BufGoes
<1> HIDE DEF w, j
<1>8. c \in Good(q)
  BY <1>7, ClimbToRootKeeps
<1> HIDE DEF c
<1> QED
  BY <1>2, <1>3, <1>5, <1>8 DEF c

-----------------------------------------------------------------------------
(* The directory object. *)
LEMMA OpendirKeeps ==
  ASSUME NEW q \in BOOLEAN, NEW v \in Good(q), NEW path \in PathSet
  PROVE  LET w == f_opendir(v, path)
         IN  w \in Good(q) /\ w.res # GO /\ (w.res = "OK" => InTable(w.dp))
<1> DEFINE f == Lookup(v, path)
           c == IF f.dp.origin THEN f.dp.sclust ELSE dir(f).cl
           x1 == [f.dp EXCEPT !.id = f.fs.id]
           x2 == [x1 EXCEPT !.sclust = c]
           u == WithDp(f, x2)
           j == [f EXCEPT !.dp.id = f.fs.id,
                          !.dp.sclust = IF f.dp.origin THEN @ ELSE dir(f).cl]
           s == dir_sdi(u, 0)
           x == Res(f, "NO_PATH")
           t == IF f.res = "OK" THEN IF ~f.dp.origin /\ ~f.dp.dir THEN x ELSE s ELSE f
           d == NoPath(t)
           y == [d.dp EXCEPT !.open = (d.res = "OK")]
           w == WithDp(d, y)
<1>1. /\ Went(q, v, f) /\ f \in Good(q) /\ f.dp \in DirSet /\ dir(f) \in EntrySet
      /\ f \in CallSet /\ f.fs.id \in Nat /\ f.res # GO
  <2>1. Reached(q, v, f)
    BY LookupKeeps
  <2>2. Went(q, v, f) /\ f \in Good(q) /\ f.dp \in DirSet /\ dir(f) \in EntrySet
    BY <2>1, ReachedIs
  <2> HIDE DEF f
  <2> QED
    BY <2>1, <2>2, GoodIs DEF Reached
<1>2. f_opendir(v, path) =
        LET e == NoPath(IF f.res = "OK" THEN IF ~f.dp.origin /\ ~f.dp.dir THEN x
                                             ELSE dir_sdi(j, 0) ELSE f)
        IN  [e EXCEPT !.dp.open = (e.res = "OK")]
  BY Zenon DEF f_opendir, With, Then
<1> HIDE DEF f
<1>3. j = u
  BY <1>1 DEF CallSet, DirSet, WithDp
<1>4. f_opendir(v, path) = [d EXCEPT !.dp.open = (d.res = "OK")]
  BY <1>2, <1>3, Zenon
<1>5. x1 \in DirSet
  BY <1>1 DEF DirSet
<1>6. c \in ClusterNos
  BY <1>1 DEF DirSet, EntrySet
<1> HIDE DEF x1, c
<1>7. x2 \in DirSet
  BY <1>5, <1>6 DEF DirSet
<1> HIDE DEF x2
<1>8. Went(q, v, u) /\ u \in Good(q)
  BY <1>1, <1>7, DpGoes
<1> HIDE DEF u, j
<1>9. Went(q, v, s) /\ s.res # GO /\ (s.res = "OK" => InTable(s.dp))
  <2>1. Stepped(q, u, s)
    BY <1>8, SdiGoes
  <2> HIDE DEF s
  <2> QED
    BY <1>8, <2>1, WentOn DEF Stepped
<1>10. Went(q, v, x) /\ x.res = "NO_PATH"
  BY <1>1, ResGoes, ResultsAre
<1> HIDE DEF s, x
<1>11. Went(q, v, t) /\ t.res # GO /\ (t.res = "OK" => InTable(t.dp))
  <2>1. CASE f.res # "OK"
    <3>1. t = f
      BY <2>1
    <3> HIDE DEF t
    <3> QED
      BY <1>1, <2>1, <3>1
  <2>2. CASE f.res = "OK" /\ ~f.dp.origin /\ ~f.dp.dir
    <3>1. t = x
      BY <2>2
    <3> HIDE DEF t
    <3> QED
      BY <1>10, <3>1 DEF GO
  <2>3. CASE f.res = "OK" /\ ~(~f.dp.origin /\ ~f.dp.dir)
    <3>1. t = s
      BY <2>3
    <3> HIDE DEF t
    <3> QED
      BY <1>9, <3>1
  <2> QED
    BY <2>1, <2>2, <2>3
<1> HIDE DEF t
<1>12. /\ Went(q, v, d) /\ d \in Good(q) /\ d.res # GO
       /\ d.res = "OK" => InTable(d.dp)
  <2>1. t.res # "NO_FILE" => d = t
    BY DEF NoPath
  <2>2. Went(q, v, d)
    BY <1>11, NoPathKeeps
  <2>3. t.res = "NO_FILE" => d.res = "NO_PATH"
    <3> DEFINE z == Res(t, "NO_PATH")
    <3>1. z.res = "NO_PATH"
      BY <1>11, ResGoes, ResultsAre
    <3>2. t.res = "NO_FILE" => d = z
      BY DEF NoPath
    <3> QED
      BY <3>1, <3>2
  <2> QED
    BY <1>11, <2>1, <2>2, <2>3 DEF Went, GO
<1> HIDE DEF d
<1>13. d \in CallSet /\ d.dp \in DirSet
  BY <1>12, GoodIs
<1>14. [d EXCEPT !.dp.open = (d.res = "OK")] = w
  BY <1>13, DpChanges
<1>15. y \in DirSet /\ (InTable(d.dp) => InTable(y))
  BY <1>13 DEF DirSet, InTable
<1> HIDE DEF y
<1>16. w \in Good(q) /\ w.res = d.res /\ w.dp = y
  BY <1>12, <1>15, DpGoes
<1> HIDE DEF w
<1> QED
  BY <1>4, <1>12, <1>14, <1>15, <1>16

(* Validate only looks. *)
LEMMA ValidateKeeps ==
  ASSUME NEW q \in BOOLEAN, NEW v \in Good(q), NEW o
  PROVE  LET w == validate(v, o)
         IN  /\ w \in Good(q) /\ Went(q, v, w) /\ w.res \in {"OK", "INVALID_OBJECT"}
             /\ w.dp = v.dp /\ w.fs = v.fs
<1> DEFINE a == Res(v, "OK")
           b == Res(v, "INVALID_OBJECT")
<1>1. validate(v, o) = IF o.open /\ v.fs.type # 0 /\ o.id = v.fs.id THEN a ELSE b
  BY Zenon DEF validate, OK
<1>2. a \in Good(q) /\ Went(q, v, a) /\ a.res = "OK"
  BY WentSelf, ResGoes, ResultsAre
<1>3. a.dp = v.dp /\ a.fs = v.fs
  BY WentSelf, ResGoes, ResultsAre
<1>4. b \in Good(q) /\ Went(q, v, b) /\ b.res = "INVALID_OBJECT"
  BY WentSelf, ResGoes, ResultsAre
<1>5. b.dp = v.dp /\ b.fs = v.fs
  BY WentSelf, ResGoes, ResultsAre
<1> HIDE DEF a, b
<1> QED
  BY <1>1, <1>2, <1>3, <1>4, <1>5

(* At the end of a table dir_next leaves the DIR without a sector. *)
LEMMA DirNextEnds ==
  ASSUME NEW q \in BOOLEAN, NEW v \in Good(q), AtOrPast(v.dp)
  PROVE  LET w == dir_next(v, FALSE)
         IN  Stepped(q, v, w) /\ (w.res = "NO_FILE" => w.dp.sect = 0)
<1> DEFINE x == v.dp
           n == x.dptr + 1
           D == DirEntriesPerSector
           g == get_fat(v, x.clust)
           jb == [v EXCEPT !.dp.dptr = n]
           jd == [v EXCEPT !.dp.dptr = n, !.dp.sect = @ + 1]
           wa == EndOfTable(v)
           wb == Res(jb, "OK")
           wc == EndOfTable(v)
           wd == Res(jd, "OK")
           e1 == Res(g, ClusterError(g.ret))
           e2 == NextCluster(g)
           e4 == EndOfTable(g)
           e3 == StretchTable(g)
           we == IF g.ret \in {0, 1, DISKERR} THEN e1 ELSE IF g.ret < NFatEnt THEN e2
                 ELSE IF FALSE THEN e3 ELSE e4
           w == dir_next(v, FALSE)
<1>1. w = IF x.sect = 0 \/ n >= MAX_DIR THEN wa ELSE IF n % D # 0 THEN wb
          ELSE IF x.clust = 0 /\ n >= RootEntries THEN wc
          ELSE IF x.clust = 0 \/ (n \div D) % ClusterSectors # 0 THEN wd ELSE we
  BY Zenon DEF dir_next, OK, With
<1>2. Stepped(q, v, w)
  BY DirNextKeeps DEF AtOrPast
<1>3. v \in CallSet /\ x \in DirSet
  BY GoodIs
<1>4. wa.dp.sect = 0
  BY <1>3 DEF EndOfTable, Res, CallSet, DirSet
<1>5. wb.res = "OK" /\ wd.res = "OK"
  BY <1>3 DEF Res, CallSet
<1>6. wc.dp.sect = 0
  BY <1>3 DEF EndOfTable, Res, CallSet, DirSet
<1>7. g \in CallSet /\ g.dp = x
  <2>1. Calm(q, v, g) /\ SameWork(v, g)
    <3>1. x.clust \in Int /\ v \in Steady(q)
      BY <1>3, GoodIs, LayoutIs DEF DirSet, ClusterNos
    <3> QED
      BY <3>1, GetFatKeeps
  <2> HIDE DEF g
  <2> QED
    BY <2>1 DEF Calm, Steady, SameWork
<1> HIDE DEF g
<1>8. e1.res # "NO_FILE"
  BY <1>7, ClusterErrorIs DEF Res, CallSet
<1>9. e2.res = "OK"
  BY <1>7 DEF NextCluster, OK, Res, CallSet
<1>10. e4.dp.sect = 0
  BY <1>3, <1>7 DEF EndOfTable, Res, CallSet, DirSet
<1> HIDE DEF wa, wb, wc, wd, e1, e2, e3, e4, w
<1>11. w.res = "NO_FILE" => w.dp.sect = 0
  BY <1>1, <1>4, <1>5, <1>6, <1>8, <1>9, <1>10
<1> QED
  BY <1>2, <1>11 DEF w

(* F_readdir leaves the DIR of a table that it has read at an entry or     *)
(* past the last.                                                          *)
LEMMA ReaddirKeeps ==
  ASSUME NEW q \in BOOLEAN, NEW v \in Good(q), AtOrPast(v.dp)
  PROVE  LET w == f_readdir(v)
         IN  w \in Good(q) /\ (w.res = "OK" => w.buf = <<>> \/ AtOrPast(w.dp))
<1> DEFINE u == validate(v, v.dp)
           r == dir_read(u)
           e == [r EXCEPT !.buf = <<>>]
           c == <<dir(r)>>
           b == [r EXCEPT !.buf = c]
           n == dir_next(b, FALSE)
           w == f_readdir(v)
<1>1. w = IF u.res # "OK" THEN u
          ELSE IF r.res = "NO_FILE" THEN Res(e, "OK")
          ELSE IF r.res # "OK" THEN r
          ELSE IF n.res = "NO_FILE" THEN Res(n, "OK") ELSE n
  BY Zenon DEF f_readdir, Then, With, OK
<1> HIDE DEF w
<1>2. u \in Good(q) /\ u.dp = v.dp
  BY ValidateKeeps
<1> HIDE DEF u
<1>3. Walked(q, u, r)
  BY <1>2, DirReadKeeps
<1> HIDE DEF r
<1>4. r \in Good(q) /\ (r.res = "OK" => OnEntry(r))
  BY <1>3 DEF Walked, Went
<1>5. <<>> \in Seq(Words \union EntrySet)
  OBVIOUS
<1>6. e \in Good(q)
  BY <1>4, <1>5, BufGoes
<1>7. Res(e, "OK") \in Good(q) /\ Res(e, "OK").buf = <<>>
  <2> DEFINE z == Res(e, "OK")
  <2>1. Went(q, e, z)
    BY <1>6, WentSelf, ResGoes, ResultsAre
  <2> HIDE DEF z
  <2>2. e.buf = <<>>
    BY <1>4, GoodIs DEF CallSet
  <2> HIDE DEF e
  <2>3. z \in Good(q) /\ z.buf = <<>>
    BY <2>1, <2>2 DEF Went, SameFile
  <2> QED
    BY <2>3 DEF z
<1>8. ASSUME r.res = "OK"
      PROVE  /\ n \in Good(q) /\ Res(n, "OK") \in Good(q)
             /\ n.res \in {"OK", "NO_FILE"} => AtOrPast(n.dp)
             /\ n.res = "NO_FILE" => AtOrPast(Res(n, "OK").dp)
  <2>1. dir(r) \in EntrySet
    BY <1>4, DirIs
  <2>2. c \in Seq(Words \union EntrySet)
    BY <2>1
  <2> HIDE DEF c
  <2>3. b \in Good(q) /\ b.dp = r.dp
    BY <1>4, <2>2, BufGoes
  <2> HIDE DEF b
  <2>4. AtOrPast(b.dp)
    BY <1>4, <1>8, <2>3 DEF OnEntry, AtOrPast
  <2>5. Stepped(q, b, n) /\ (n.res = "NO_FILE" => n.dp.sect = 0)
    BY <2>3, <2>4, DirNextEnds
  <2> HIDE DEF n
  <2> DEFINE z == Res(n, "OK")
  <2>6. n \in Good(q) /\ (n.res = "OK" => InTable(n.dp))
    BY <2>5 DEF Stepped, Went
  <2>7. z \in Good(q) /\ z.dp = n.dp
    BY <2>6, WentSelf, ResGoes, ResultsAre
  <2> HIDE DEF z
  <2>8. n.res \in {"OK", "NO_FILE"} => AtOrPast(n.dp)
    BY <2>5, <2>6 DEF AtOrPast
  <2> QED
    BY <2>6, <2>7, <2>8 DEF z
<1> HIDE DEF e, n
<1> QED
  BY <1>1, <1>2, <1>4, <1>6, <1>7, <1>8 DEF w

(* F_closedir changes the DIR only. *)
LEMMA ClosedirKeeps ==
  ASSUME NEW q \in BOOLEAN, NEW v \in Good(q)
  PROVE  f_closedir(v) \in Good(q)
<1> DEFINE u == validate(v, v.dp)
           x == [u.dp EXCEPT !.open = FALSE]
           w == WithDp(u, x)
<1>1. f_closedir(v) = IF u.res = "OK" THEN [u EXCEPT !.dp.open = FALSE] ELSE u
  BY Zenon DEF f_closedir, Then
<1>2. u \in Good(q)
  BY ValidateKeeps
<1> HIDE DEF u
<1>3. u \in CallSet /\ u.dp \in DirSet
  BY <1>2, GoodIs
<1>4. [u EXCEPT !.dp.open = FALSE] = w
  BY <1>3, DpChanges
<1>5. x \in DirSet
  BY <1>3 DEF DirSet
<1> HIDE DEF x
<1>6. w \in Good(q)
  BY <1>2, <1>5, WentSelf, DpGoes
<1> HIDE DEF w
<1> QED
  BY <1>1, <1>2, <1>4, <1>6

-----------------------------------------------------------------------------
(* The file object of a call.  An open file knows the sector of its entry, *)
(* and, unless an error stays with it, is within its size and has the      *)
(* sector of the byte it is at.                                            *)
Held(x)   == x.open /\ x.dsect \in TableArea
AtData(x) == x.fptr % SectorBytes # 0 => x.sect \in TableArea
FileOK(x) == x.open => /\ x.dsect \in TableArea
                       /\ x.err = "OK" => x.fptr <= x.size /\ AtData(x)
Fine(q)   == {u \in Good(q) : FileOK(u.fp)}

WithFp(v, x) == [v EXCEPT !.fp = x]

(* A call may be given another file object and stay good, *)
LEMMA FpGoes ==
  ASSUME NEW q \in BOOLEAN, NEW u \in Good(q), NEW x \in FilSet
  PROVE  LET w == WithFp(u, x)
         IN  /\ w \in Good(q) /\ w.fp = x /\ w.res = u.res /\ w.ret = u.ret
             /\ w.dp = u.dp /\ w.cnt = u.cnt /\ w.fs = u.fs /\ w.disk = u.disk
<1> DEFINE w == WithFp(u, x)
<1>1. u \in CallSet
  BY GoodIs
<1>2. /\ w \in CallSet /\ w.fp = x /\ w.res = u.res /\ w.ret = u.ret
      /\ w.dp = u.dp /\ w.cnt = u.cnt /\ SameCard(u, w)
  BY <1>1, SetFp DEF WithFp
<1> HIDE DEF w
<1>3. w \in Good(q)
  BY <1>2, SameCardKeeps
<1> QED
  BY <1>2, <1>3 DEF SameCard, w

(* Another count, *)
LEMMA CntGoes ==
  ASSUME NEW q \in BOOLEAN, NEW u \in Good(q), NEW x \in Nat
  PROVE  LET w == [u EXCEPT !.cnt = x]
         IN  /\ w \in Good(q) /\ w.cnt = x /\ w.res = u.res /\ w.ret = u.ret
             /\ w.fp = u.fp /\ w.dp = u.dp /\ w.fs = u.fs
<1> DEFINE w == [u EXCEPT !.cnt = x]
<1>1. u \in CallSet
  BY GoodIs
<1>2. /\ w \in CallSet /\ w.cnt = x /\ w.res = u.res /\ w.ret = u.ret
      /\ w.fp = u.fp /\ w.dp = u.dp /\ SameCard(u, w)
  BY <1>1, SetCnt
<1> HIDE DEF w
<1>3. w \in Good(q)
  BY <1>2, SameCardKeeps
<1> QED
  BY <1>2, <1>3 DEF SameCard, w

WithBuf(v, x) == [v EXCEPT !.buf = x]

(* Or other bytes read. *)
LEMMA BufIs ==
  ASSUME NEW q \in BOOLEAN, NEW u \in Good(q), NEW x \in Seq(Words \union EntrySet)
  PROVE  LET w == WithBuf(u, x)
         IN  /\ w \in Good(q) /\ w.buf = x /\ w.res = u.res /\ w.ret = u.ret
             /\ w.fp = u.fp /\ w.dp = u.dp /\ w.cnt = u.cnt /\ w.fs = u.fs
<1> DEFINE w == WithBuf(u, x)
<1>1. u \in CallSet
  BY GoodIs
<1>2. /\ w \in CallSet /\ w.buf = x /\ w.res = u.res /\ w.ret = u.ret
      /\ w.fp = u.fp /\ w.dp = u.dp /\ w.cnt = u.cnt /\ SameCard(u, w)
  BY <1>1, SetBuf DEF WithBuf
<1> HIDE DEF w
<1>3. w \in Good(q)
  BY <1>2, SameCardKeeps
<1> QED
  BY <1>2, <1>3 DEF SameCard, w

(* A change of one field of the file object, as an assignment to the       *)
(* whole.                                                                  *)
LEMMA FpChanges ==
  ASSUME NEW v \in CallSet
  PROVE  /\ \A a : [v EXCEPT !.fp.err = a] = WithFp(v, [v.fp EXCEPT !.err = a])
         /\ \A a : [v EXCEPT !.fp.sect = a] = WithFp(v, [v.fp EXCEPT !.sect = a])
         /\ \A a : [v EXCEPT !.fp.clust = a] = WithFp(v, [v.fp EXCEPT !.clust = a])
         /\ \A a : [v EXCEPT !.fp.sclust = a] = WithFp(v, [v.fp EXCEPT !.sclust = a])
         /\ \A a : [v EXCEPT !.fp.fptr = a] = WithFp(v, [v.fp EXCEPT !.fptr = a])
         /\ \A a : [v EXCEPT !.fp.size = a] = WithFp(v, [v.fp EXCEPT !.size = a])
         /\ \A a : [v EXCEPT !.fp.mod = a] = WithFp(v, [v.fp EXCEPT !.mod = a])
         /\ \A a : [v EXCEPT !.fp.open = a] = WithFp(v, [v.fp EXCEPT !.open = a])
<1> USE DEF CallSet, WithFp
<1>1. \A a : [v EXCEPT !.fp.err = a] = WithFp(v, [v.fp EXCEPT !.err = a])
  OBVIOUS
<1>2. \A a : [v EXCEPT !.fp.sect = a] = WithFp(v, [v.fp EXCEPT !.sect = a])
  OBVIOUS
<1>3. \A a : [v EXCEPT !.fp.clust = a] = WithFp(v, [v.fp EXCEPT !.clust = a])
  OBVIOUS
<1>4. \A a : [v EXCEPT !.fp.sclust = a] = WithFp(v, [v.fp EXCEPT !.sclust = a])
  OBVIOUS
<1>5. \A a : [v EXCEPT !.fp.fptr = a] = WithFp(v, [v.fp EXCEPT !.fptr = a])
  OBVIOUS
<1>6. \A a : [v EXCEPT !.fp.size = a] = WithFp(v, [v.fp EXCEPT !.size = a])
  OBVIOUS
<1>7. \A a : [v EXCEPT !.fp.mod = a] = WithFp(v, [v.fp EXCEPT !.mod = a])
  OBVIOUS
<1>8. \A a : [v EXCEPT !.fp.open = a] = WithFp(v, [v.fp EXCEPT !.open = a])
  OBVIOUS
<1> QED
  BY <1>1, <1>2, <1>3, <1>4, <1>5, <1>6, <1>7, <1>8

(* A field of the file object is set, the others are what they were. *)
LEMMA FilField ==
  ASSUME NEW x \in FilSet
  PROVE  /\ \A a \in Results : LET y == [x EXCEPT !.err = a] IN y \in FilSet /\ y.err = a
         /\ \A a \in TableArea \union {0} : LET y == [x EXCEPT !.sect = a] IN y \in FilSet /\ y.sect = a
         /\ \A a \in FileClusters : LET y == [x EXCEPT !.clust = a] IN y \in FilSet /\ y.clust = a
         /\ \A a \in ClusterNos : LET y == [x EXCEPT !.sclust = a] IN y \in FilSet /\ y.sclust = a
         /\ \A a \in Nat : LET y == [x EXCEPT !.fptr = a] IN y \in FilSet /\ y.fptr = a
         /\ \A a \in Nat : LET y == [x EXCEPT !.size = a] IN y \in FilSet /\ y.size = a
         /\ \A a \in BOOLEAN : LET y == [x EXCEPT !.mod = a] IN y \in FilSet /\ y.mod = a
         /\ \A a \in BOOLEAN : LET y == [x EXCEPT !.open = a] IN y \in FilSet /\ y.open = a
<1> USE DEF FilSet
<1>1. \A a \in Results : LET y == [x EXCEPT !.err = a] IN y \in FilSet /\ y.err = a
  OBVIOUS
<1>2. \A a \in TableArea \union {0} : LET y == [x EXCEPT !.sect = a] IN y \in FilSet /\ y.sect = a
  OBVIOUS
<1>3. \A a \in FileClusters : LET y == [x EXCEPT !.clust = a] IN y \in FilSet /\ y.clust = a
  OBVIOUS
<1>4. \A a \in ClusterNos : LET y == [x EXCEPT !.sclust = a] IN y \in FilSet /\ y.sclust = a
  OBVIOUS
<1>5. \A a \in Nat : LET y == [x EXCEPT !.fptr = a] IN y \in FilSet /\ y.fptr = a
  OBVIOUS
<1>6. \A a \in Nat : LET y == [x EXCEPT !.size = a] IN y \in FilSet /\ y.size = a
  OBVIOUS
<1>7. \A a \in BOOLEAN : LET y == [x EXCEPT !.mod = a] IN y \in FilSet /\ y.mod = a
  OBVIOUS
<1>8. \A a \in BOOLEAN : LET y == [x EXCEPT !.open = a] IN y \in FilSet /\ y.open = a
  OBVIOUS
<1> QED
  BY <1>1, <1>2, <1>3, <1>4, <1>5, <1>6, <1>7, <1>8

(* The parts of the file object. *)
LEMMA FilIs ==
  ASSUME NEW q \in BOOLEAN, NEW v \in Good(q)
  PROVE  /\ v \in CallSet /\ v.fp \in FilSet /\ v.fp.clust \in FileClusters /\ v.fp.clust \in Nat
         /\ v.fp.sclust \in ClusterNos /\ v.fp.sclust \in Nat /\ v.fp.fptr \in Nat /\ v.fp.size \in Nat
         /\ v.fp.open \in BOOLEAN /\ v.fp.mod \in BOOLEAN /\ v.fp.err \in Results
         /\ v.cnt \in Nat /\ v.buf \in Seq(Words \union EntrySet)
<1>1. v \in CallSet /\ v.fp \in FilSet /\ v.cnt \in Nat
  BY GoodIs
<1>2. v.buf \in Seq(Words \union EntrySet)
  BY <1>1 DEF CallSet
<1>3. /\ v.fp.clust \in FileClusters /\ v.fp.sclust \in ClusterNos
      /\ v.fp.fptr \in Nat /\ v.fp.size \in Nat
      /\ v.fp.open \in BOOLEAN /\ v.fp.mod \in BOOLEAN /\ v.fp.err \in Results
  BY <1>1 DEF FilSet
<1>4. v.fp.clust \in Nat
  <2>1. FatValues \subseteq Nat
    BY NumbersApart
  <2>2. \A c \in FileClusters : c \in Nat
    BY <2>1 DEF FileClusters
  <2> QED
    BY <1>3, <2>2
<1>5. v.fp.sclust \in Nat
  BY <1>3, LayoutIs DEF ClusterNos
<1> QED
  BY <1>1, <1>2, <1>3, <1>4, <1>5

(* An error that stays with the file object. *)
Aborted(q, w) == /\ w \in Good(q) /\ Held(w.fp) /\ w.fp.err # "OK"
                 /\ w.res # "OK" /\ w.res # GO /\ w.res # "FULL"

(* ABORT keeps the error in the file object and ends the loop. *)
LEMMA AbortKeeps ==
  ASSUME NEW q \in BOOLEAN, NEW u \in Good(q), Held(u.fp),
         NEW e \in {"DISK_ERR", "INT_ERR"}
  PROVE  Aborted(q, Abort(u, e))
<1> DEFINE x == [u.fp EXCEPT !.err = e]
           y == WithFp(u, x)
           w == Res(y, e)
<1>1. u \in CallSet /\ u.fp \in FilSet /\ e \in Results /\ e # "OK" /\ e # GO /\ e # "FULL"
  BY FilIs, ResultsAre DEF GO
<1>2. Abort(u, e) = w
  <2>1. Abort(u, e) = [[u EXCEPT !.fp.err = e] EXCEPT !.res = e]
    BY Zenon DEF Abort
  <2>2. [u EXCEPT !.fp.err = e] = y
    BY <1>1, FpChanges
  <2> HIDE DEF y
  <2> QED
    BY <2>1, <2>2 DEF Res
<1>3. x \in FilSet /\ x.err = e /\ Held(x)
  BY <1>1 DEF FilSet, Held
<1> HIDE DEF x
<1>4. y \in Good(q) /\ y.fp = x
  BY <1>3, FpGoes
<1> HIDE DEF y
<1>5. w \in Good(q) /\ Went(q, y, w) /\ w.res = e
  BY <1>1, <1>4, WentSelf, ResGoes
<1> HIDE DEF w
<1>6. w.fp = x
  BY <1>4, <1>5 DEF Went, SameFile
<1> QED
  BY <1>1, <1>2, <1>3, <1>5, <1>6 DEF Aborted

(* Get_fat leaves the file object alone. *)
LEMMA GetFatGoes ==
  ASSUME NEW q \in BOOLEAN, NEW v \in Good(q), NEW c \in Int
  PROVE  LET w == get_fat(v, c)
         IN  /\ Went(q, v, w) /\ w \in Good(q) /\ w.dp = v.dp /\ w.res = "OK"
             /\ w.ret \in FatValues \union {1, DISKERR}
<1> DEFINE w == get_fat(v, c)
<1>1. v \in Steady(q)
  BY GoodIs
<1>2. /\ Calm(q, v, w) /\ SameWork(v, w) /\ w.res = "OK"
      /\ w.ret \in FatValues \union {1, DISKERR}
  BY <1>1, GetFatKeeps
<1> HIDE DEF w
<1>3. SameFile(v, w) /\ w.dp = v.dp
  BY <1>2 DEF SameWork, SameFile
<1>4. Went(q, v, w) /\ w \in Good(q)
  BY <1>2, <1>3, CalmGoes DEF Went
<1> QED
  BY <1>2, <1>3, <1>4 DEF w

(* So does giving back a number. *)
LEMMA RetGoes ==
  ASSUME NEW q \in BOOLEAN, NEW v, NEW u, Went(q, v, u), NEW c \in Nat
  PROVE  LET w == Ret(u, c)
         IN  /\ Went(q, v, w) /\ w \in Good(q)
             /\ w.res = "OK" /\ w.ret = c /\ w.dp = u.dp /\ w.fs = u.fs
<1> DEFINE w == Ret(u, c)
<1>1. u \in CallSet /\ u \in Good(q) /\ SameFile(v, u)
  BY GoodIs DEF Went
<1>2. w \in CallSet /\ w.res = "OK" /\ w.ret = c /\ SameCard(u, w) /\ SameWork(u, w)
  BY <1>1, RetKeeps
<1> HIDE DEF w
<1>3. w \in Good(q)
  BY <1>1, <1>2, SameCardKeeps
<1> QED
  BY <1>1, <1>2, <1>3 DEF Went, SameWork, SameFile, SameCard, w

-----------------------------------------------------------------------------
(* Where a file is in its cluster, and how much one step moves.            *)
LEMMA SpotIs ==
  ASSUME NEW q \in BOOLEAN, NEW v \in Good(q), NEW len \in Nat
  PROVE  /\ SectInClust(v) \in 0 .. ClusterSectors - 1
         /\ v.fp.fptr % SectorBytes \in 0 .. SectorBytes - 1
         /\ PartBytes(v, len) \in Nat /\ PartBytes(v, len) <= len
         /\ (v.fp.fptr % SectorBytes) + PartBytes(v, len) <= SectorBytes
<1>1. v.fp.fptr \in Nat /\ SectorBytes \in Nat \ {0} /\ ClusterSectors \in Nat \ {0}
  BY FilIs, GeometryAssumption
<1>2. v.fp.fptr % SectorBytes \in 0 .. SectorBytes - 1
  BY <1>1
<1>3. v.fp.fptr \div SectorBytes \in Nat
  BY <1>1
<1> DEFINE d == v.fp.fptr \div SectorBytes
           o == v.fp.fptr % SectorBytes
<1>4. PartBytes(v, len) = Least(len, SectorBytes - o) /\ SectInClust(v) = d % ClusterSectors
  BY DEF PartBytes, SectInClust
<1> HIDE DEF d, o
<1>5. d % ClusterSectors \in 0 .. ClusterSectors - 1
  BY <1>1, <1>3 DEF d
<1>6. o \in 0 .. SectorBytes - 1
  BY <1>2 DEF o
<1>7. PartBytes(v, len) \in Nat /\ PartBytes(v, len) <= len /\ o + PartBytes(v, len) <= SectorBytes
  BY <1>1, <1>4, <1>6 DEF Least
<1> QED
  BY <1>2, <1>4, <1>5, <1>7 DEF o

(* The whole sectors of a transfer lie in one cluster and in what was      *)
(* asked for.                                                              *)
LEMMA WholeIs ==
  ASSUME NEW q \in BOOLEAN, NEW v \in Good(q), NEW len \in Nat
  PROVE  /\ WholeSectors(v, len) \in Nat /\ WholeSectors(v, len) * SectorBytes \in Nat
         /\ WholeSectors(v, len) * SectorBytes <= len
         /\ WholeSectors(v, len) + SectInClust(v) <= ClusterSectors
         /\ WholeSectors(v, len) # 0 => AtSector(v)
<1> DEFINE m == len \div SectorBytes
           s == SectInClust(v)
           k == WholeSectors(v, len)
<1>1. SectorBytes \in Nat \ {0} /\ ClusterSectors \in Nat \ {0} /\ s \in 0 .. ClusterSectors - 1
  BY SpotIs, GeometryAssumption
<1>2. m \in Nat /\ SectorBytes * m <= len
  BY <1>1
<1>3. k = IF AtSector(v) THEN Least(m, ClusterSectors - s) ELSE 0
  BY Zenon DEF WholeSectors
<1> HIDE DEF m, s, k
<1>4. k \in Nat /\ k <= m /\ k + s <= ClusterSectors /\ (k # 0 => AtSector(v))
  BY <1>1, <1>2, <1>3 DEF Least
<1>5. \A i, j, b \in Nat : i <= j => i * b <= b * j /\ i * b \in Nat
  OBVIOUS
<1>6. k * SectorBytes <= SectorBytes * m /\ k * SectorBytes \in Nat /\ SectorBytes * m \in Int
  BY <1>1, <1>2, <1>4, <1>5
<1>7. k * SectorBytes <= len
  BY <1>2, <1>6
<1> QED
  BY <1>4, <1>6, <1>7 DEF k, s

(* A multiple of d does not count in a remainder. *)
LEMMA ModWhole ==
  ASSUME NEW d \in Nat \ {0}, NEW a \in Nat, NEW k \in Nat
  PROVE  (a + k * d) % d = a % d
<1> DEFINE i == a \div d
           r == a % d
           b == a + k * d
           j == b \div d
           t == b % d
<1>1. i \in Nat /\ r \in 0 .. d - 1 /\ a = d * i + r
  OBVIOUS
<1>2. k * d \in Nat /\ b \in Nat
  OBVIOUS
<1>3. j \in Nat /\ t \in 0 .. d - 1 /\ b = d * j + t
  <2> HIDE DEF b
  <2> QED
    BY <1>2
<1>4. b = d * (i + k) + r
  <2> HIDE DEF r, i
  <2>1. d * (i + k) = d * i + k * d
    BY <1>1
  <2>2. d * i \in Nat
    BY <1>1
  <2> QED
    BY <1>1, <1>2, <2>1, <2>2
<1> HIDE DEF b, i, j, r, t
<1>5. \A x, y \in Nat : x < y => d * x + d <= d * y
  <2>1. ASSUME NEW x \in Nat, NEW y \in Nat, x < y PROVE d * x + d <= d * y
    <3>1. x + 1 <= y
      BY <2>1
    <3>2. \A m, n \in Nat : m <= n => d * m <= d * n
      OBVIOUS
    <3>3. d * (x + 1) <= d * y
      BY <3>1, <3>2
    <3> QED
      BY <3>3
  <2> QED
    BY <2>1
<1> DEFINE h == i + k
<1>6. h \in Nat /\ b = d * h + r
  BY <1>1, <1>4
<1> HIDE DEF h
<1>7. d * h \in Nat /\ d * j \in Nat
  BY <1>3, <1>6
<1>8. ~(h < j)
  <2>1. SUFFICES ASSUME h < j PROVE FALSE
    OBVIOUS
  <2>2. d * h + d <= d * j
    BY <1>3, <1>5, <1>6, <2>1
  <2> QED
    BY <1>1, <1>3, <1>6, <1>7, <2>2
<1>9. ~(j < h)
  <2>1. SUFFICES ASSUME j < h PROVE FALSE
    OBVIOUS
  <2>2. d * j + d <= d * h
    BY <1>3, <1>5, <1>6, <2>1
  <2> QED
    BY <1>1, <1>3, <1>6, <1>7, <2>2
<1>10. h = j
  BY <1>3, <1>6, <1>8, <1>9
<1>11. t = r
  BY <1>1, <1>3, <1>6, <1>7, <1>10
<1> QED
  BY <1>11 DEF t, r, b

(* The sectors of a cluster that clst2sect knows are there. *)
LEMMA InCluster ==
  ASSUME NEW c \in FileClusters, clst2sect(c) # 0
  PROVE  /\ c \in RealClusters /\ clst2sect(c) \in Nat
         /\ \A i \in 0 .. ClusterSectors - 1 : clst2sect(c) + i \in TableArea
<1>1. c \in Int
  BY NumbersApart DEF FileClusters
<1> QED
  BY <1>1, ClusterIsThere

(* A sector read as data gives bytes, *)
LEMMA BytesAre ==
  ASSUME NEW c \in SectorSet
  PROVE  BytesOf(c) \in [1 .. SectorBytes -> Words]
<1>1. BlankData.d \in [1 .. SectorBytes -> Words]
  BY DEF BlankData, Data, Words
<1>2. c.k = "data" => c.d \in [1 .. SectorBytes -> Words]
  BY DEF SectorSet, BootSet, Boot, InfoSet, FatSet, TableSet
<1> QED
  BY <1>1, <1>2 DEF BytesOf

(* As many as a sector has. *)
LEMMA BytesAreSeq ==
  ASSUME NEW c \in SectorSet
  PROVE  BytesOf(c) \in Seq(Words \union EntrySet) /\ Len(BytesOf(c)) = SectorBytes
<1> DEFINE b == BytesOf(c)
<1>1. b \in [1 .. SectorBytes -> Words] /\ SectorBytes \in Nat
  BY BytesAre, GeometryAssumption
<1> HIDE DEF b
<1>2. b \in Seq(Words \union EntrySet) /\ Len(b) = SectorBytes
  BY <1>1
<1> QED
  BY <1>2 DEF b

-----------------------------------------------------------------------------
(* f_read.                                                                 *)

(* The file object is the one it was, apart from its cluster. *)
SameSpot(x, y) == /\ y.open = x.open /\ y.dsect = x.dsect /\ y.err = x.err /\ y.fptr = x.fptr
                  /\ y.size = x.size /\ y.sect = x.sect
Stays(q, v, w) == w \in Good(q) /\ SameSpot(v.fp, w.fp) /\ w.cnt = v.cnt

(* F_read's way to the cluster of its byte sets the cluster or aborts. *)
LEMMA ReadClusterKeeps ==
  ASSUME NEW q \in BOOLEAN, NEW v \in Good(q), Held(v.fp)
  PROVE  LET w == ReadCluster(v)
         IN  Aborted(q, w) \/ (Stays(q, v, w) /\ w.res = "OK")
<1> DEFINE g == get_fat(v, v.fp.clust)
           r == Ret(v, v.fp.sclust)
           c == IF v.fp.fptr = 0 THEN r ELSE g
           x == [c.fp EXCEPT !.clust = c.ret]
           y == WithFp(c, x)
           w == Res(y, "OK")
           o == Res(v, "OK")
           b == Abort(c, ClusterError(c.ret))
<1>1. ReadCluster(v) = IF ~AtSector(v) \/ SectInClust(v) # 0 THEN o
                       ELSE IF c.ret \in {0, 1, DISKERR} THEN b
                       ELSE Res([c EXCEPT !.fp.clust = c.ret], "OK")
  BY Zenon DEF ReadCluster, With, OK
<1>2. Went(q, v, c) /\ c \in Good(q) /\ c.ret \in ClusterNos \union FatValues \union {1, DISKERR}
  <2>1. v.fp.clust \in Int /\ v.fp.sclust \in Nat /\ v.fp.sclust \in ClusterNos
    BY FilIs
  <2>2. Went(q, v, r) /\ r \in Good(q) /\ r.ret = v.fp.sclust
    BY <2>1, WentSelf, RetGoes
  <2>3. Went(q, v, g) /\ g \in Good(q) /\ g.ret \in FatValues \union {1, DISKERR}
    BY <2>1, GetFatGoes
  <2> HIDE DEF r, g
  <2> QED
    BY <2>1, <2>2, <2>3
<1> HIDE DEF c
<1>3. c.fp = v.fp /\ c.cnt = v.cnt
  BY <1>2 DEF Went, SameFile
<1>4. Aborted(q, b)
  BY <1>2, <1>3, ClusterErrorIs, AbortKeeps
<1> HIDE DEF b
<1>5. Stays(q, v, o) /\ o.res = "OK"
  <2>1. Went(q, v, o) /\ o \in Good(q) /\ o.res = "OK"
    BY WentSelf, ResGoes, ResultsAre
  <2> HIDE DEF o
  <2> QED
    BY <2>1 DEF Went, SameFile, Stays, SameSpot
<1> HIDE DEF o
<1>6. CASE c.ret \in {0, 1, DISKERR}
  BY <1>1, <1>4, <1>5, <1>6
<1>7. CASE c.ret \notin {0, 1, DISKERR}
  <2>1. c.ret \in FileClusters
    <3>1. \A i \in ClusterNos : i # 0 /\ i # 1 => i \in RealClusters
      BY LayoutIs DEF ClusterNos, RealClusters
    <3> QED
      BY <1>2, <1>7, <3>1, NumbersApart DEF FileClusters
  <2>2. c \in CallSet /\ c.fp \in FilSet
    BY <1>2, FilIs
  <2>3. [c EXCEPT !.fp.clust = c.ret] = y
    BY <2>2, FpChanges
  <2>4. x \in FilSet /\ SameSpot(c.fp, x)
    BY <2>1, <2>2 DEF FilSet, SameSpot
  <2> HIDE DEF x
  <2>5. y \in Good(q) /\ y.fp = x /\ y.cnt = c.cnt
    BY <1>2, <2>4, FpGoes
  <2> HIDE DEF y
  <2>6. Went(q, y, w) /\ w \in Good(q) /\ w.res = "OK"
    BY <2>5, WentSelf, ResGoes, ResultsAre
  <2>7. ReadCluster(v) = IF ~AtSector(v) \/ SectInClust(v) # 0 THEN o ELSE w
    BY <1>1, <1>7, <2>3
  <2> HIDE DEF w
  <2>8. Stays(q, v, w)
    BY <1>3, <2>4, <2>5, <2>6 DEF Went, SameFile, Stays
  <2> QED
    BY <1>5, <2>6, <2>7, <2>8
<1> QED
  BY <1>6, <1>7

(* The pointer and the count move together, *)
LEMMA AdvanceKeeps ==
  ASSUME NEW q \in BOOLEAN, NEW v \in Good(q), NEW k \in Nat
  PROVE  LET w == Advance(v, k)
         IN  /\ w \in Good(q) /\ w.res = v.res /\ w.cnt = v.cnt + k
             /\ w.fp = [v.fp EXCEPT !.fptr = v.fp.fptr + k]
<1> DEFINE p == v.fp.fptr + k
           x == [v.fp EXCEPT !.fptr = p]
           y == WithFp(v, x)
           m == v.cnt + k
           w == [y EXCEPT !.cnt = m]
           j == [v EXCEPT !.fp.fptr = p]
<1>1. v \in CallSet /\ v.fp \in FilSet /\ p \in Nat /\ m \in Nat
  BY FilIs
<1>2. Advance(v, k) = [j EXCEPT !.cnt = m]
  BY <1>1 DEF Advance, CallSet
<1> HIDE DEF p, m
<1>3. j = y
  BY <1>1, FpChanges
<1>4. x \in FilSet
  BY <1>1 DEF FilSet
<1> HIDE DEF x, j
<1>5. y \in Good(q) /\ y.fp = x /\ y.res = v.res
  BY <1>4, FpGoes
<1> HIDE DEF y
<1>6. w \in Good(q) /\ w.cnt = m /\ w.res = y.res /\ w.fp = y.fp
  BY <1>1, <1>5, CntGoes
<1> HIDE DEF w
<1>7. Advance(v, k) = w
  BY <1>2, <1>3 DEF w
<1> QED
  BY <1>5, <1>6, <1>7 DEF x, p, m

(* k bytes further, in a file that no error stays with. *)
Moved(q, v, w, k) == /\ w \in Good(q) /\ w.res = "OK" /\ w.cnt = v.cnt + k
                     /\ Held(w.fp) /\ w.fp.err = "OK" /\ AtData(w.fp)
                     /\ w.fp.fptr = v.fp.fptr + k /\ w.fp.size = v.fp.size

(* By the bytes that were taken from the window, *)
LEMMA ReadPartKeeps ==
  ASSUME NEW q \in BOOLEAN, NEW v \in Good(q), Held(v.fp), v.fp.err = "OK",
         v.fp.sect \in TableArea, NEW k \in Nat, (v.fp.fptr % SectorBytes) + k <= SectorBytes
  PROVE  LET w == ReadPart(v, k)
         IN  Aborted(q, w) \/ Moved(q, v, w, k)
<1> DEFINE m == move_window(v, v.fp.sect)
           ofs == v.fp.fptr % SectorBytes
           s == SubSeq(BytesOf(m.fs.win), ofs + 1, ofs + k)
           t == m.buf \o s
           y == WithBuf(m, t)
           w == Advance(y, k)
           b == Abort(m, "DISK_ERR")
<1>1. ReadPart(v, k) = IF m.res # "OK" THEN b ELSE w
  BY Zenon DEF ReadPart, With, WithBuf
<1>2. v.fp.sect \in WinSects
  BY AreasApart
<1>3. Went(q, v, m) /\ m \in Good(q) /\ m.res \in {"OK", "DISK_ERR"}
  BY <1>2, MoveGoes
<1> HIDE DEF m
<1>4. m.fp = v.fp /\ m.cnt = v.cnt /\ Held(m.fp)
  BY <1>3 DEF Went, SameFile
<1>5. Aborted(q, b)
  BY <1>3, <1>4, AbortKeeps
<1> HIDE DEF b
<1>6. t \in Seq(Words \union EntrySet)
  <2>1. m.fs.win \in SectorSet /\ m.buf \in Seq(Words \union EntrySet)
    BY <1>3, GoodIs, FilIs
  <2> DEFINE c == BytesOf(m.fs.win)
  <2>2. c \in Seq(Words \union EntrySet) /\ Len(c) = SectorBytes
    BY <2>1, BytesAreSeq
  <2>3. ofs \in Nat /\ SectorBytes \in Nat
    BY SpotIs, GeometryAssumption
  <2> HIDE DEF c, ofs
  <2>4. \A i \in (ofs + 1) .. (ofs + k) : i \in 1 .. Len(c)
    <3>1. ofs + k <= SectorBytes
      BY DEF ofs
    <3> QED
      BY <2>2, <2>3, <3>1
  <2>5. s \in Seq(Words \union EntrySet)
    BY <2>2, <2>3, <2>4 DEF c
  <2> HIDE DEF s
  <2> QED
    BY <2>1, <2>5
<1> HIDE DEF t
<1>7. y \in Good(q) /\ y.res = m.res /\ y.fp = m.fp /\ y.cnt = m.cnt
  BY <1>3, <1>6, BufIs
<1> HIDE DEF y
<1>8. w \in Good(q) /\ w.res = y.res /\ w.cnt = y.cnt + k /\ w.fp = [y.fp EXCEPT !.fptr = y.fp.fptr + k]
  BY <1>7, AdvanceKeeps
<1> HIDE DEF w
<1>9. m.res = "OK" => Moved(q, v, w, k)
  <2>1. v.fp \in FilSet
    BY FilIs
  <2>2. w.fp = [v.fp EXCEPT !.fptr = v.fp.fptr + k]
    BY <1>4, <1>7, <1>8
  <2>3. /\ w.fp.fptr = v.fp.fptr + k /\ w.fp.size = v.fp.size /\ w.fp.err = v.fp.err
        /\ w.fp.open = v.fp.open /\ w.fp.dsect = v.fp.dsect /\ w.fp.sect = v.fp.sect
    BY <2>1, <2>2 DEF FilSet
  <2> QED
    BY <1>4, <1>7, <1>8, <2>3 DEF Moved, Held, AtData
<1> QED
  BY <1>1, <1>3, <1>5, <1>9

(* A sector at a time past it, *)
LEMMA ReadSectorKeeps ==
  ASSUME NEW q \in BOOLEAN, NEW v \in Good(q), NEW s \in Sectors
  PROVE  LET w == ReadSector(v, s)
         IN  w \in Good(q) /\ w.fp = v.fp /\ w.cnt = v.cnt
<1> DEFINE r == DiskRead(v, s)
           c == IF r.fs.wflag /\ r.fs.winsect = s THEN r.fs.win ELSE r.disk[s]
           t == r.buf \o BytesOf(c)
           y == WithBuf(r, t)
           w == Res(y, GO)
<1>1. ReadSector(v, s) = IF r.res = "OK" THEN w ELSE r
  BY Zenon DEF ReadSector, Then, Again, WithBuf
<1>2. r \in CallSet /\ SameCard(v, r) /\ SameRest(v, r)
  BY GoodIs, DiskReadKeeps
<1> HIDE DEF r
<1>3. r \in Good(q) /\ r.fp = v.fp /\ r.cnt = v.cnt
  BY <1>2, SameCardKeeps DEF SameRest, SameWork
<1>4. t \in Seq(Words \union EntrySet)
  <2>1. c \in SectorSet
    <3>1. r.disk \in Cards /\ r.fs.win \in SectorSet
      BY <1>2, <1>3, GoodIs DEF CallSet
    <3> QED
      BY <3>1 DEF Cards
  <2> HIDE DEF c
  <2>2. BytesOf(c) \in Seq(Words \union EntrySet) /\ r.buf \in Seq(Words \union EntrySet)
    BY <1>3, <2>1, BytesAreSeq, FilIs
  <2> QED
    BY <2>2
<1> HIDE DEF t
<1>5. y \in Good(q) /\ y.fp = r.fp /\ y.cnt = r.cnt
  BY <1>3, <1>4, BufIs
<1> HIDE DEF y
<1>6. Went(q, y, w) /\ w \in Good(q)
  BY <1>5, WentSelf, ResGoes, ResultsAre
<1> HIDE DEF w
<1> QED
  BY <1>1, <1>3, <1>5, <1>6 DEF Went, SameFile

(* Or many. *)
LEMMA ReadSectorsKeeps ==
  ASSUME NEW q \in BOOLEAN, NEW v \in Good(q), NEW s \in Int, NEW m \in Nat,
         \A i \in 1..m : s + i - 1 \in TableArea
  PROVE  LET w == ReadSectors(v, s, m)
         IN  w \in Good(q) /\ w.fp = v.fp /\ w.cnt = v.cnt
<1> DEFINE n == m
           a == Again(v)
           V == {u \in Good(q) : u.fp = v.fp /\ u.cnt = v.cnt}
           B(u, k) == IF u.res = GO THEN ReadSector(u, s + k - 1) ELSE u
           F(h) == [k \in 0..n |-> IF k = 0 THEN a ELSE B(h[k - 1], k)]
           at == CHOOSE h : h = F(h)
           G == [p \in V \X (1..n) |-> B(p[1], p[2])]
<1>1. n \in Nat /\ a \in V
  <2>1. Went(q, v, a) /\ a \in Good(q)
    BY AgainGoes
  <2> QED
    BY <2>1 DEF Went, SameFile
<1>2. \A u \in V, k \in 1..n : B(u, k) \in V
  <2>1. ASSUME NEW u \in V, NEW k \in 1..n PROVE ReadSector(u, s + k - 1) \in V
    <3> DEFINE t == s + k - 1
               w == ReadSector(u, t)
    <3>1. t \in Sectors
      BY <2>1, TableHolds
    <3> HIDE DEF t
    <3>2. u \in Good(q) /\ u.fp = v.fp /\ u.cnt = v.cnt
      OBVIOUS
    <3>3. w \in Good(q) /\ w.fp = u.fp /\ w.cnt = u.cnt
      BY <3>1, <3>2, ReadSectorKeeps
    <3> HIDE DEF w
    <3> QED
      BY <3>2, <3>3 DEF w, t
  <2> HIDE DEF V
  <2> QED
    BY <2>1
<1>3. ReadSectors(v, s, m) = IF at[n].res = GO THEN Res(at[n], "OK") ELSE at[n]
  BY Zenon DEF ReadSectors, Rounds, With
<1> HIDE DEF a, V, B, n
<1>4. G \in [V \X (1..n) -> V] /\ \A u \in V, k \in 1..n : G[<<u, k>>] = B(u, k)
  BY <1>2
<1> HIDE DEF G
<1>5. PICK g \in [0..n -> V] : Runs(g, V, a, G, n)
  BY <1>1, <1>4, LoopRuns, Zenon
<1>6. g = F(g)
  <2>1. \A k \in 1..n : g[k] = B(g[k - 1], k)
    BY <1>4, <1>5, Zenon DEF Runs
  <2>2. \A k \in 0..n : g[k] = IF k = 0 THEN a ELSE B(g[k - 1], k)
    BY <1>5, <2>1 DEF Runs
  <2> QED
    BY <2>2
<1>7. at = F(at)
  BY <1>6
<1> HIDE DEF at
<1>8. at[0] = a /\ \A k \in 1..n : at[k] = B(at[k - 1], k)
  BY <1>1, <1>7
<1>9. at[n] \in V
  <2>1. \A k \in 1..n : at[k - 1] \in V => at[k] \in V
    BY <1>2, <1>8, Zenon
  <2> QED
    BY <1>1, <1>8, <2>1, LoopStays, Zenon
<1> DEFINE e == at[n]
<1>10. e \in V /\ ReadSectors(v, s, m) = IF e.res = GO THEN Res(e, "OK") ELSE e
  BY <1>3, <1>9
<1> HIDE DEF e
<1> DEFINE z == Res(e, "OK")
<1>11. e \in Good(q) /\ e.fp = v.fp /\ e.cnt = v.cnt
  BY <1>10 DEF V
<1>12. Went(q, e, z) /\ z \in Good(q)
  BY <1>11, WentSelf, ResGoes, ResultsAre
<1>13. ReadSectors(v, s, m) = IF e.res = GO THEN z ELSE e
  BY <1>10
<1> HIDE DEF z
<1> QED
  BY <1>11, <1>12, <1>13 DEF Went, SameFile

(* The file goes to the sector s. *)
LEMMA SectGoes ==
  ASSUME NEW q \in BOOLEAN, NEW v \in Good(q), NEW s \in TableArea
  PROVE  LET w == [v EXCEPT !.fp.sect = s]
         IN  /\ w \in Good(q) /\ w.res = v.res /\ w.ret = v.ret /\ w.cnt = v.cnt /\ w.fs = v.fs
             /\ w.fp.sect = s /\ w.fp.open = v.fp.open /\ w.fp.dsect = v.fp.dsect
             /\ w.fp.err = v.fp.err /\ w.fp.fptr = v.fp.fptr /\ w.fp.size = v.fp.size
<1> DEFINE x == [v.fp EXCEPT !.sect = s]
           y == WithFp(v, x)
           w == [v EXCEPT !.fp.sect = s]
<1>1. v \in CallSet /\ v.fp \in FilSet
  BY FilIs
<1>2. w = y
  BY <1>1, FpChanges
<1> HIDE DEF w
<1>3. /\ x \in FilSet /\ x.sect = s /\ x.open = v.fp.open /\ x.dsect = v.fp.dsect
      /\ x.err = v.fp.err /\ x.fptr = v.fp.fptr /\ x.size = v.fp.size
  BY <1>1 DEF FilSet
<1> HIDE DEF x
<1>4. y \in Good(q) /\ y.fp = x /\ y.res = v.res /\ y.ret = v.ret /\ y.cnt = v.cnt /\ y.fs = v.fs
  BY <1>3, FpGoes
<1> HIDE DEF y
<1> QED
  BY <1>2, <1>3, <1>4 DEF w

(* Some of the len bytes are read, or an error stays with the file. *)
Some(q, v, w, len) == Aborted(q, w) \/ \E k \in 0..len : Moved(q, v, w, k)

(* A step of f_read that ends inside a sector knows that sector. *)
LEMMA ReadStepPart ==
  ASSUME NEW q \in BOOLEAN, NEW v \in Good(q), Held(v.fp), v.fp.err = "OK", AtData(v.fp),
         NEW len \in Nat, NEW sect \in Int, AtSector(v) => sect \in TableArea
  PROVE  LET x == IF AtSector(v) THEN [v EXCEPT !.fp.sect = sect] ELSE v
         IN  Some(q, v, ReadPart(x, PartBytes(v, len)), len)
<1> DEFINE z == [v EXCEPT !.fp.sect = sect]
           x == IF AtSector(v) THEN z ELSE v
           k == PartBytes(v, len)
           w == ReadPart(x, k)
<1>1. /\ x \in Good(q) /\ x.cnt = v.cnt /\ x.fp.sect \in TableArea /\ x.fp.open = v.fp.open
      /\ x.fp.dsect = v.fp.dsect /\ x.fp.err = v.fp.err /\ x.fp.fptr = v.fp.fptr /\ x.fp.size = v.fp.size
  <2>1. CASE AtSector(v)
    <3>1. sect \in TableArea
      BY <2>1
    <3>2. /\ z \in Good(q) /\ z.cnt = v.cnt /\ z.fp.sect = sect /\ z.fp.open = v.fp.open
          /\ z.fp.dsect = v.fp.dsect /\ z.fp.err = v.fp.err /\ z.fp.fptr = v.fp.fptr
          /\ z.fp.size = v.fp.size
      BY <3>1, SectGoes
    <3> HIDE DEF z
    <3> QED
      BY <2>1, <3>1, <3>2
  <2>2. CASE ~AtSector(v)
    BY <2>2 DEF AtSector, AtData
  <2> QED
    BY <2>1, <2>2
<1> HIDE DEF x, z
<1>2. k \in 0 .. len /\ k \in Nat /\ (x.fp.fptr % SectorBytes) + k <= SectorBytes
  <2>1. k \in Nat /\ k <= len
    BY SpotIs
  <2>2. (v.fp.fptr % SectorBytes) + k <= SectorBytes
    BY SpotIs
  <2> HIDE DEF k
  <2> QED
    BY <1>1, <2>1, <2>2
<1> HIDE DEF k
<1>3. Held(x.fp) /\ x.fp.err = "OK"
  BY <1>1 DEF Held
<1>4. Aborted(q, w) \/ Moved(q, x, w, k)
  BY <1>1, <1>2, <1>3, ReadPartKeeps
<1> HIDE DEF w
<1>5. Moved(q, x, w, k) => Moved(q, v, w, k)
  BY <1>1 DEF Moved
<1>6. Some(q, v, w, len)
  BY <1>2, <1>4, <1>5 DEF Some
<1> QED
  BY <1>6 DEF w, x, z, k

(* A step of f_read moves by no more than was asked for, or aborts. *)
LEMMA ReadStepKeeps ==
  ASSUME NEW q \in BOOLEAN, NEW v \in Good(q), Held(v.fp), v.fp.err = "OK", AtData(v.fp),
         NEW len \in Nat
  PROVE  Some(q, v, ReadStep(v, len), len)
<1> DEFINE cl == v.fp.clust
           i == SectInClust(v)
           top == clst2sect(cl)
           sect == top + i
           cc == WholeSectors(v, len)
           x == IF AtSector(v) THEN [v EXCEPT !.fp.sect = sect] ELSE v
           p == ReadPart(x, PartBytes(v, len))
           d == ReadSectors(v, sect, cc)
           b == Abort(v, "INT_ERR")
           y == WithBuf(d, v.buf)
           e == Abort(y, "DISK_ERR")
           n == cc * SectorBytes
           w == Advance(d, n)
<1>1. ReadStep(v, len) = IF AtSector(v) /\ top = 0 THEN b
                         ELSE IF cc = 0 THEN p
                         ELSE IF d.res # "OK" THEN e ELSE w
  BY Zenon DEF ReadStep, With, WithBuf
<1>2. cl \in FileClusters /\ v.buf \in Seq(Words \union EntrySet) /\ i \in 0 .. ClusterSectors - 1
  BY FilIs, SpotIs
<1>3. /\ cc \in Nat /\ n \in Nat /\ n <= len /\ cc + i <= ClusterSectors
      /\ (cc # 0 => AtSector(v))
  BY WholeIs
<1> HIDE DEF cl, i, cc
<1>4. top # 0 => top \in Nat /\ \A j \in 0 .. ClusterSectors - 1 : top + j \in TableArea
  BY <1>2, InCluster
<1>5. top \in Int /\ sect \in Int
  <2>1. top \in Int
    BY <1>4
  <2> HIDE DEF top
  <2> QED
    BY <1>2, <2>1
<1> HIDE DEF top
<1>6. top # 0 => sect \in TableArea
  BY <1>2, <1>4
<1> HIDE DEF n
<1>7. CASE AtSector(v) /\ top = 0
  <2>1. Aborted(q, b)
    BY AbortKeeps
  <2> HIDE DEF b
  <2> QED
    BY <1>1, <1>7, <2>1 DEF Some
<1>8. CASE ~(AtSector(v) /\ top = 0) /\ cc = 0
  <2>1. AtSector(v) => sect \in TableArea
    BY <1>6, <1>8
  <2> HIDE DEF sect
  <2>2. Some(q, v, p, len)
    BY <1>5, <2>1, ReadStepPart
  <2> HIDE DEF p
  <2> QED
    BY <1>1, <1>8, <2>2
<1>9. CASE ~(AtSector(v) /\ top = 0) /\ cc # 0
  <2>1. AtSector(v) /\ top # 0
    BY <1>3, <1>9
  <2>2. \A j \in 1 .. cc : sect + j - 1 \in TableArea
    <3>1. ASSUME NEW j \in 1 .. cc PROVE sect + j - 1 \in TableArea
      <4> DEFINE a == i + j - 1
      <4>1. a \in 0 .. ClusterSectors - 1 /\ sect + j - 1 = top + a
        BY <1>2, <1>3, <1>5, GeometryAssumption
      <4> HIDE DEF a, sect
      <4> QED
        BY <1>4, <2>1, <4>1
    <3> QED
      BY <3>1
  <2> HIDE DEF sect
  <2>3. d \in Good(q) /\ d.fp = v.fp /\ d.cnt = v.cnt
    BY <1>3, <1>5, <2>2, ReadSectorsKeeps
  <2> HIDE DEF d
  <2>4. y \in Good(q) /\ y.fp = d.fp
    BY <1>2, <2>3, BufIs
  <2> HIDE DEF y
  <2>5. Aborted(q, e)
    BY <2>3, <2>4, AbortKeeps
  <2> HIDE DEF e
  <2>6. w \in Good(q) /\ w.res = d.res /\ w.cnt = d.cnt + n /\ w.fp = [d.fp EXCEPT !.fptr = d.fp.fptr + n]
    BY <1>3, <2>3, AdvanceKeeps
  <2> HIDE DEF w
  <2>7. (v.fp.fptr + n) % SectorBytes = 0
    <3>1. v.fp.fptr % SectorBytes = 0 /\ v.fp.fptr \in Nat /\ SectorBytes \in Nat \ {0}
      BY <2>1, FilIs, GeometryAssumption DEF AtSector
    <3>2. (v.fp.fptr + cc * SectorBytes) % SectorBytes = v.fp.fptr % SectorBytes
      BY <1>3, <3>1, ModWhole
    <3> QED
      BY <3>1, <3>2 DEF n
  <2>8. d.res = "OK" => Moved(q, v, w, n)
    <3>1. v.fp \in FilSet
      BY FilIs
    <3>2. w.fp = [v.fp EXCEPT !.fptr = v.fp.fptr + n]
      BY <2>3, <2>6
    <3>3. /\ w.fp.fptr = v.fp.fptr + n /\ w.fp.size = v.fp.size /\ w.fp.err = v.fp.err
          /\ w.fp.open = v.fp.open /\ w.fp.dsect = v.fp.dsect
      BY <3>1, <3>2 DEF FilSet
    <3> QED
      BY <2>3, <2>6, <2>7, <3>3 DEF Moved, Held, AtData
  <2>9. n \in 0 .. len
    BY <1>3
  <2>10. Some(q, v, e, len) /\ (d.res = "OK" => Some(q, v, w, len))
    BY <2>5, <2>8, <2>9 DEF Some
  <2> QED
    BY <1>1, <1>9, <2>10
<1> QED
  BY <1>7, <1>8, <1>9

(* A loop over the bytes of a file: v.cnt of the len bytes are behind it. *)
Reading(q, len, u) ==
    /\ u \in Good(q) /\ Held(u.fp)
    /\ u.res = GO => u.fp.err = "OK"
    /\ u.fp.err = "OK" => /\ u.cnt <= len /\ AtData(u.fp)
                         /\ u.fp.fptr + (len - u.cnt) <= u.fp.size

(* The loop's invariant does not depend on the result. *)
LEMMA ReadingAs ==
  ASSUME NEW q \in BOOLEAN, NEW len \in Nat, NEW u, Reading(q, len, u), u.fp.err = "OK",
         NEW r \in Results
  PROVE  LET w == Res(u, r) IN Reading(q, len, w) /\ w.res = r
<1> DEFINE w == Res(u, r)
<1>1. u \in Good(q)
  BY DEF Reading
<1>2. Went(q, u, w) /\ w.res = r
  BY <1>1, WentSelf, ResGoes
<1> HIDE DEF w
<1> QED
  BY <1>2 DEF Went, SameFile, Reading, w

(* A round keeps the pointer within the size and what is left to read      *)
(* within the file,                                                        *)
LEMMA ReadRoundKeeps ==
  ASSUME NEW q \in BOOLEAN, NEW len \in Nat, NEW v, Reading(q, len, v), v.res = GO
  PROVE  Reading(q, len, ReadRound(v, len))
<1> DEFINE o == Res(v, "OK")
           c == ReadCluster(v)
           m == len - c.cnt
           d == ReadStep(c, m)
           a == Res(d, GO)
<1>1. ReadRound(v, len) = IF v.cnt = len THEN o
                          ELSE IF c.res # "OK" THEN c
                          ELSE IF d.res # "OK" THEN d ELSE a
  BY Zenon DEF ReadRound, Then, Again, OK
<1>2. /\ v \in Good(q) /\ Held(v.fp) /\ v.cnt <= len /\ v.fp.err = "OK" /\ AtData(v.fp)
      /\ v.fp.fptr + (len - v.cnt) <= v.fp.size
  BY DEF Reading
<1>3. Reading(q, len, o)
  BY <1>2, ReadingAs, ResultsAre
<1> HIDE DEF o
<1>4. Aborted(q, c) \/ (Stays(q, v, c) /\ c.res = "OK")
  BY <1>2, ReadClusterKeeps
<1> HIDE DEF c
<1>5. \A u : Aborted(q, u) => Reading(q, len, u)
  BY DEF Aborted, Reading
<1>6. CASE v.cnt = len
  BY <1>1, <1>3, <1>6
<1>7. CASE v.cnt # len /\ c.res # "OK"
  BY <1>1, <1>4, <1>5, <1>7
<1>8. CASE v.cnt # len /\ c.res = "OK"
  <2>1. /\ c \in Good(q) /\ SameSpot(v.fp, c.fp) /\ c.cnt = v.cnt
    BY <1>4, <1>8 DEF Aborted, Stays
  <2>2. Held(c.fp) /\ c.fp.err = "OK" /\ AtData(c.fp) /\ c.fp.fptr = v.fp.fptr /\ c.fp.size = v.fp.size
    BY <1>2, <2>1 DEF SameSpot, Held, AtData
  <2>3. /\ v.cnt \in Nat /\ v.fp.fptr \in Nat /\ v.fp.size \in Nat
    BY <1>2, FilIs
  <2>4. m \in Nat
    BY <1>2, <2>1, <2>3
  <2>5. Some(q, c, d, m)
    BY <2>1, <2>2, <2>4, ReadStepKeeps
  <2> HIDE DEF d
  <2>6. CASE Aborted(q, d)
    <3>1. d.res # "OK"
      BY <2>6 DEF Aborted
    <3> QED
      BY <1>1, <1>5, <1>8, <2>6, <3>1
  <2>7. ASSUME NEW k \in 0..m, Moved(q, c, d, k) PROVE Reading(q, len, a)
    <3>1. /\ d \in Good(q) /\ d.cnt = v.cnt + k /\ Held(d.fp) /\ d.fp.err = "OK" /\ AtData(d.fp)
          /\ d.fp.fptr = v.fp.fptr + k /\ d.fp.size = v.fp.size
      BY <2>1, <2>2, <2>7 DEF Moved
    <3>2. d.cnt <= len /\ d.fp.fptr + (len - d.cnt) <= d.fp.size
      BY <1>2, <2>1, <2>3, <2>7, <3>1
    <3>3. Reading(q, len, d)
      BY <3>1, <3>2 DEF Reading
    <3> QED
      BY <3>1, <3>3, ReadingAs, ResultsAre
  <2>8. \A k : Moved(q, c, d, k) => d.res = "OK"
    BY DEF Moved
  <2> HIDE DEF a
  <2> QED
    BY <1>1, <1>8, <2>5, <2>6, <2>7, <2>8 DEF Some
<1> QED
  BY <1>6, <1>7, <1>8

(* And so does f_read's loop, for every length. *)
LEMMA ReadLoopKeeps ==
  ASSUME NEW q \in BOOLEAN, NEW len \in Nat, NEW v, Reading(q, len, v), v.fp.err = "OK"
  PROVE  Reading(q, len, ReadLoop(v, len))
<1> DEFINE n == len + 1
           a == Again(v)
           V == {u \in Good(q) : Reading(q, len, u)}
           B(u, k) == IF u.res = GO THEN ReadRound(u, len) ELSE u
           F(h) == [k \in 0..n |-> IF k = 0 THEN a ELSE B(h[k - 1], k)]
           at == CHOOSE h : h = F(h)
           G == [p \in V \X (1..n) |-> B(p[1], p[2])]
<1>1. n \in Nat /\ a \in V
  <2>1. Reading(q, len, a)
    BY ReadingAs, ResultsAre DEF Again
  <2> HIDE DEF a
  <2> QED
    BY <2>1 DEF Reading
<1>2. \A u \in V, k \in 1..n : B(u, k) \in V
  <2>1. ASSUME NEW u \in V, NEW k \in 1..n PROVE B(u, k) \in V
    <3> DEFINE w == ReadRound(u, len)
    <3>1. u.res = GO => Reading(q, len, w)
      BY ReadRoundKeeps
    <3> HIDE DEF w
    <3>2. u.res = GO => w \in V
      BY <3>1 DEF Reading
    <3> HIDE DEF V
    <3> QED
      BY <3>2 DEF w
  <2> HIDE DEF V
  <2> QED
    BY <2>1
<1>3. ReadLoop(v, len) = IF at[n].res = GO THEN Res(at[n], "ENDLESS") ELSE at[n]
  BY Zenon DEF ReadLoop, Rounds, With
<1> HIDE DEF a, V, B, n
<1>4. G \in [V \X (1..n) -> V] /\ \A u \in V, k \in 1..n : G[<<u, k>>] = B(u, k)
  BY <1>2
<1> HIDE DEF G
<1>5. PICK g \in [0..n -> V] : Runs(g, V, a, G, n)
  BY <1>1, <1>4, LoopRuns, Zenon
<1>6. g = F(g)
  <2>1. \A k \in 1..n : g[k] = B(g[k - 1], k)
    BY <1>4, <1>5, Zenon DEF Runs
  <2>2. \A k \in 0..n : g[k] = IF k = 0 THEN a ELSE B(g[k - 1], k)
    BY <1>5, <2>1 DEF Runs
  <2> QED
    BY <2>2
<1>7. at = F(at)
  BY <1>6
<1> HIDE DEF at
<1>8. at[0] = a /\ \A k \in 1..n : at[k] = B(at[k - 1], k)
  BY <1>1, <1>7
<1>9. at[n] \in V
  <2>1. \A k \in 1..n : at[k - 1] \in V => at[k] \in V
    BY <1>2, <1>8, Zenon
  <2> QED
    BY <1>1, <1>8, <2>1, LoopStays, Zenon
<1> DEFINE e == at[n]
<1>10. e \in V /\ ReadLoop(v, len) = IF e.res = GO THEN Res(e, "ENDLESS") ELSE e
  BY <1>3, <1>9
<1> HIDE DEF e
<1> DEFINE z == Res(e, "ENDLESS")
<1>11. Reading(q, len, e)
  BY <1>10 DEF V
<1>12. e.res = GO => Reading(q, len, z)
  BY <1>11, ReadingAs, ResultsAre DEF Reading
<1>13. ReadLoop(v, len) = IF e.res = GO THEN z ELSE e
  BY <1>10
<1> HIDE DEF z
<1> QED
  BY <1>11, <1>12, <1>13

(* A file that may be used is open, and no error is with it. *)
LEMMA UsableKeeps ==
  ASSUME NEW q \in BOOLEAN, NEW v \in Good(q), NEW b \in BOOLEAN
  PROVE  LET w == Usable(v, b)
         IN  /\ Went(q, v, w) /\ w \in Good(q) /\ w.fp = v.fp /\ w.fs = v.fs
             /\ w.res = "OK" => v.fp.open /\ v.fp.err = "OK" /\ b
<1> DEFINE u == validate(v, v.fp)
           x == Res(u, u.fp.err)
           y == Res(u, "DENIED")
           w == Usable(v, b)
<1>1. w = IF u.res = "OK" THEN IF u.fp.err # "OK" THEN x ELSE IF ~b THEN y ELSE u ELSE u
  BY Zenon DEF Usable, Then
<1>2. Went(q, v, u) /\ u \in Good(q) /\ u.fs = v.fs
  BY ValidateKeeps
<1>3. u.res = "OK" => v.fp.open
  <2> DEFINE b2 == Res(v, "INVALID_OBJECT")
  <2>1. ~v.fp.open => u = b2
    BY Zenon DEF validate
  <2>2. b2.res = "INVALID_OBJECT"
    BY WentSelf, ResGoes, ResultsAre
  <2> HIDE DEF b2, u
  <2> QED
    BY <2>1, <2>2
<1> HIDE DEF u
<1>4. u.fp = v.fp /\ u.fp.err \in Results
  BY <1>2, FilIs DEF Went, SameFile
<1>5. Went(q, v, x) /\ x \in Good(q) /\ x.res = u.fp.err /\ x.fs = u.fs
  BY <1>2, <1>4, ResGoes
<1>6. Went(q, v, y) /\ y \in Good(q) /\ y.res = "DENIED" /\ y.fs = u.fs
  BY <1>2, ResGoes, ResultsAre
<1> HIDE DEF x, y, w
<1>7. /\ Went(q, v, w) /\ w \in Good(q) /\ w.fs = v.fs
      /\ w.res = "OK" => v.fp.open /\ v.fp.err = "OK" /\ b
  BY <1>1, <1>2, <1>3, <1>4, <1>5, <1>6
<1> QED
  BY <1>7 DEF w, Went, SameFile

(* F_read leaves the pointer within the size of the file and on a sector   *)
(* of the file's, and the FAT and the count alone.                         *)
THEOREM FReadKeeps ==
  ASSUME NEW q \in BOOLEAN, NEW v \in Fine(q), NEW len \in Nat
  PROVE  f_read(v, len) \in Fine(q)
<1> DEFINE s == <<>>
           y == WithBuf(v, s)
           z == [y EXCEPT !.cnt = 0]
           u == Usable(z, v.fp.r)
           m == Least(len, u.fp.size - u.fp.fptr)
           w == ReadLoop(u, m)
<1>1. f_read(v, len) = IF u.res = "OK" THEN w ELSE u
  BY Zenon DEF f_read, Then, WithBuf
<1>2. v \in Good(q) /\ FileOK(v.fp) /\ v.fp.r \in BOOLEAN
  <2>1. v \in Good(q) /\ FileOK(v.fp)
    BY DEF Fine
  <2> QED
    BY <2>1, FilIs DEF FilSet
<1>3. y \in Good(q) /\ y.fp = v.fp
  <2>1. s \in Seq(Words \union EntrySet)
    OBVIOUS
  <2> HIDE DEF s
  <2> QED
    BY <1>2, <2>1, BufIs
<1> HIDE DEF y
<1>4. z \in Good(q) /\ z.fp = y.fp /\ z.cnt = 0
  BY <1>3, CntGoes
<1> HIDE DEF z
<1>5. /\ Went(q, z, u) /\ u \in Good(q) /\ u.fp = v.fp
      /\ u.res = "OK" => v.fp.open /\ v.fp.err = "OK"
  BY <1>2, <1>3, <1>4, UsableKeeps
<1> HIDE DEF u
<1>6. u \in Fine(q)
  BY <1>2, <1>5 DEF Fine
<1>7. ASSUME u.res = "OK" PROVE w \in Fine(q)
  <2>1. /\ Held(u.fp) /\ u.fp.err = "OK" /\ AtData(u.fp) /\ u.fp.fptr <= u.fp.size
    BY <1>2, <1>5, <1>7 DEF FileOK, Held
  <2>2. u.fp.fptr \in Nat /\ u.fp.size \in Nat /\ u.cnt = 0
    BY <1>4, <1>5, FilIs DEF Went, SameFile
  <2>3. m \in Nat /\ u.fp.fptr + m <= u.fp.size
    BY <2>1, <2>2 DEF Least
  <2> HIDE DEF m
  <2>4. Reading(q, m, u)
    BY <1>5, <1>7, <2>1, <2>2, <2>3 DEF Reading
  <2>5. Reading(q, m, w)
    BY <2>1, <2>3, <2>4, ReadLoopKeeps
  <2> HIDE DEF w
  <2>6. w \in Good(q) /\ w.cnt \in Nat /\ w.fp.fptr \in Nat /\ w.fp.size \in Nat
    BY <2>5, FilIs DEF Reading
  <2>7. w.fp.err = "OK" => w.fp.fptr <= w.fp.size /\ AtData(w.fp)
    BY <2>3, <2>5, <2>6 DEF Reading
  <2> QED
    BY <2>5, <2>6, <2>7 DEF Fine, FileOK, Reading, Held
<1> QED
  BY <1>1, <1>6, <1>7

-----------------------------------------------------------------------------
(* f_write.                                                                *)

(* A file that no error stays with, after a step that went well. *)
AtRest(q, w) == /\ w \in Good(q) /\ w.res = "OK" /\ Held(w.fp) /\ w.fp.err = "OK"
                /\ w.fp.fptr <= w.fp.size /\ AtData(w.fp)

(* The window and the file go to the sector s with the contents it has. *)
LEMMA WindowAt ==
  ASSUME NEW q \in BOOLEAN, NEW v \in Good(q), ~v.fs.wflag, NEW s \in TableArea
  PROVE  LET w == Placed(v, s, v.fs.win)
         IN  Went(q, v, w) /\ w \in Good(q) /\ w.res = v.res
<1> DEFINE c == v.fs.win
           w == Placed(v, s, c)
<1>1. s \in WinSects /\ s \notin FatSects /\ v \in Steady(q) /\ c \in SectorSet
  <2>1. v \in Steady(q) /\ v.fs.win \in SectorSet
    BY GoodIs
  <2> QED
    BY <2>1, AreasApart
<1> HIDE DEF c
<1>2. Calm(q, v, w) /\ SameRest(v, w) /\ w.res = v.res
  BY <1>1, WindowPut
<1> HIDE DEF w
<1>3. SameFile(v, w)
  BY <1>2 DEF SameRest, SameWork, SameFile
<1>4. Went(q, v, w)
  BY <1>2, <1>3, CalmGoes
<1> QED
  BY <1>2, <1>4 DEF Went, w, c

(* F_write takes the sector at its pointer in, unless it is past the end   *)
(* of the file.                                                            *)
LEMMA GrowingEdgeKeeps ==
  ASSUME NEW q \in BOOLEAN, NEW v \in Good(q), Held(v.fp), v.fp.err = "OK", v.res = "OK",
         NEW s \in TableArea
  PROVE  LET w == GrowingEdge(v, s)
         IN  \/ Aborted(q, w)
             \/ /\ w \in Good(q) /\ w.res = "OK" /\ w.fp.sect = s /\ w.fp.open = v.fp.open
                /\ w.fp.dsect = v.fp.dsect /\ w.fp.err = v.fp.err
                /\ w.fp.fptr = v.fp.fptr /\ w.fp.size = v.fp.size
<1> DEFINE a == [v EXCEPT !.fp.sect = s]
           w == sync_window(v)
           b == Abort(w, "DISK_ERR")
           p == Placed(w, s, w.fs.win)
           z == [p EXCEPT !.fp.sect = s]
<1>1. w \in Good(q) /\ w.fp = v.fp /\ w.res \in {"OK", "DISK_ERR"}
      /\ (w.res = "OK" => ~w.fs.wflag)
  <2>0. v \in Steady(q) /\ v \in CallSet
    BY GoodIs
  <2>1. /\ SameRest(v, w) /\ w.res \in {"OK", "DISK_ERR"} /\ Calm(q, v, w)
        /\ w.res = "OK" => w.fs = [v.fs EXCEPT !.wflag = FALSE]
    BY <2>0, SyncWindowKeeps, SyncWindowCalm
  <2> HIDE DEF w
  <2>2. v.fs \in FsSet
    BY <2>0 DEF CallSet, Volumes
  <2>3. [v.fs EXCEPT !.wflag = FALSE].wflag = FALSE
    BY <2>2 DEF FsSet
  <2> QED
    BY <2>1, <2>3, CalmKeepsGood DEF SameRest, SameWork
<1>2. GrowingEdge(v, s) = IF v.fp.fptr < v.fp.size THEN a
                          ELSE IF w.res # "OK" THEN b
                          ELSE [w EXCEPT !.fs.winsect = s, !.fp.sect = s]
  BY Zenon DEF GrowingEdge, With
<1> HIDE DEF w
<1>3. Aborted(q, b)
  BY <1>1, AbortKeeps
<1> HIDE DEF b
<1>4. /\ a \in Good(q) /\ a.res = v.res /\ a.fp.sect = s /\ a.fp.open = v.fp.open
      /\ a.fp.dsect = v.fp.dsect /\ a.fp.err = v.fp.err
      /\ a.fp.fptr = v.fp.fptr /\ a.fp.size = v.fp.size
  BY SectGoes
<1> HIDE DEF a
<1>5. ASSUME w.res = "OK"
      PROVE  /\ [w EXCEPT !.fs.winsect = s, !.fp.sect = s] = z
             /\ z \in Good(q) /\ z.res = "OK" /\ z.fp.sect = s /\ z.fp.open = v.fp.open
             /\ z.fp.dsect = v.fp.dsect /\ z.fp.err = v.fp.err
             /\ z.fp.fptr = v.fp.fptr /\ z.fp.size = v.fp.size
  <2>1. w \in CallSet /\ w.fs \in FsSet
    BY <1>1, GoodIs DEF CallSet, Volumes
  <2>2. [w EXCEPT !.fs.winsect = s, !.fp.sect = s] = z
    <3>1. p = [w EXCEPT !.fs.winsect = s]
      BY <2>1 DEF Placed, CallSet, FsSet
    <3> HIDE DEF p
    <3> QED
      BY <2>1, <3>1
  <2>3. Went(q, w, p) /\ p \in Good(q) /\ p.res = w.res
    BY <1>1, <1>5, WindowAt
  <2> HIDE DEF p
  <2>4. /\ z \in Good(q) /\ z.res = p.res /\ z.fp.sect = s /\ z.fp.open = p.fp.open
        /\ z.fp.dsect = p.fp.dsect /\ z.fp.err = p.fp.err
        /\ z.fp.fptr = p.fp.fptr /\ z.fp.size = p.fp.size
    BY <2>3, SectGoes
  <2> HIDE DEF z
  <2> QED
    BY <1>1, <1>5, <2>2, <2>3, <2>4 DEF Went, SameFile
<1> HIDE DEF z
<1> QED
  BY <1>2, <1>3, <1>4, <1>5

(* A sector that bytes are put in is a sector of data. *)
LEMMA DataIs ==
  ASSUME NEW d \in [1 .. SectorBytes -> Words]
  PROVE  Data(d) \in TableSet
BY DEF Data, TableSet

(* Bytes put into a sector leave a sector of data. *)
LEMMA PatchedIs ==
  ASSUME NEW c \in SectorSet, NEW ofs \in Nat, NEW b \in Seq(Words)
  PROVE  Patched(c, ofs, b) \in TableSet
<1> DEFINE d == [i \in 1..SectorBytes |-> IF i > ofs /\ i <= ofs + Len(b) THEN b[i - ofs] ELSE BytesOf(c)[i]]
<1>1. BytesOf(c) \in [1 .. SectorBytes -> Words]
  BY BytesAre
<1>2. \A i \in 1 .. SectorBytes : i > ofs /\ i <= ofs + Len(b) => b[i - ofs] \in Words
  <2>1. ASSUME NEW i \in 1 .. SectorBytes, i > ofs, i <= ofs + Len(b) PROVE b[i - ofs] \in Words
    <3>1. i - ofs \in 1 .. Len(b)
      BY <2>1
    <3> DEFINE j == i - ofs
    <3> HIDE DEF j
    <3>2. b[j] \in Words
      BY <3>1 DEF j
    <3> QED
      BY <3>2 DEF j
  <2> QED
    BY <2>1
<1>3. d \in [1 .. SectorBytes -> Words]
  BY <1>1, <1>2
<1>4. Patched(c, ofs, b) = Data(d)
  BY Zenon DEF Patched
<1> HIDE DEF d
<1> QED
  BY <1>3, <1>4, DataIs

(* The size follows the pointer, *)
LEMMA GrowKeeps ==
  ASSUME NEW q \in BOOLEAN, NEW v \in Good(q), NEW k \in Nat, Held(v.fp), v.fp.err = "OK", v.res = "OK",
         (v.fp.fptr + k) % SectorBytes # 0 => v.fp.sect \in TableArea
  PROVE  AtRest(q, Grow(v, k))
<1> DEFINE w == Advance(v, k)
           s == IF w.fp.fptr > w.fp.size THEN w.fp.fptr ELSE w.fp.size
           x == [w.fp EXCEPT !.size = s]
           y == WithFp(w, x)
<1>1. w \in Good(q) /\ w.res = v.res /\ w.fp = [v.fp EXCEPT !.fptr = v.fp.fptr + k]
  BY AdvanceKeeps
<1>2. Grow(v, k) = [w EXCEPT !.fp.size = s]
  BY Zenon DEF Grow, With
<1> HIDE DEF w
<1>3. w \in CallSet /\ w.fp \in FilSet /\ w.fp.fptr \in Nat /\ w.fp.size \in Nat
  BY <1>1, FilIs
<1>4. Grow(v, k) = y
  <2> HIDE DEF s
  <2>1. [w EXCEPT !.fp.size = s] = y
    BY <1>3, FpChanges
  <2> HIDE DEF y
  <2> QED
    BY <1>2, <2>1
<1>5. v.fp \in FilSet /\ v.fp.fptr \in Nat
  BY FilIs
<1>6. /\ w.fp.fptr = v.fp.fptr + k /\ w.fp.err = "OK" /\ w.fp.open = v.fp.open
      /\ w.fp.dsect = v.fp.dsect /\ w.fp.sect = v.fp.sect
  BY <1>1, <1>5 DEF FilSet
<1>7. s \in Nat /\ w.fp.fptr <= s
  BY <1>3
<1> HIDE DEF s
<1>8. /\ x \in FilSet /\ x.size = s /\ x.fptr = w.fp.fptr /\ x.err = w.fp.err /\ x.open = w.fp.open
      /\ x.dsect = w.fp.dsect /\ x.sect = w.fp.sect
  BY <1>3, <1>7 DEF FilSet
<1> HIDE DEF x
<1>9. y \in Good(q) /\ y.fp = x /\ y.res = w.res
  BY <1>1, <1>8, FpGoes
<1> HIDE DEF y
<1>10. Held(y.fp) /\ AtData(y.fp)
  BY <1>6, <1>8, <1>9 DEF Held, AtData
<1> QED
  BY <1>1, <1>4, <1>6, <1>7, <1>8, <1>9, <1>10 DEF AtRest

(* After bytes were put into the window, *)
LEMMA WritePartKeeps ==
  ASSUME NEW q \in BOOLEAN, NEW v \in Good(q), Held(v.fp), v.fp.err = "OK", v.fp.sect \in TableArea,
         NEW b \in Seq(Words)
  PROVE  LET w == WritePart(v, b)
         IN  Aborted(q, w) \/ AtRest(q, w)
<1> DEFINE m == move_window(v, v.fp.sect)
           ofs == v.fp.fptr % SectorBytes
           c == Patched(m.fs.win, ofs, b)
           y == SetWin(m, c)
           n == Len(b)
           w == Grow(y, n)
           e == Abort(m, "DISK_ERR")
<1>1. WritePart(v, b) = IF m.res # "OK" THEN e ELSE w
  BY Zenon DEF WritePart, With
<1>2. v.fp.sect \in WinSects
  BY AreasApart
<1>3. Went(q, v, m) /\ m \in Good(q) /\ m.res \in {"OK", "DISK_ERR"} /\ (m.res = "OK" => m.fs.winsect = v.fp.sect)
  BY <1>2, MoveGoes
<1> HIDE DEF m
<1>4. m.fp = v.fp /\ Held(m.fp) /\ m.fs.win \in SectorSet
  BY <1>3, GoodIs DEF Went, SameFile
<1>5. Aborted(q, e)
  BY <1>3, <1>4, AbortKeeps
<1> HIDE DEF e
<1>6. ofs \in Nat /\ n \in Nat
  BY SpotIs
<1> HIDE DEF ofs, n
<1>7. c \in TableSet
  BY <1>4, <1>6, PatchedIs
<1> HIDE DEF c
<1>8. ASSUME m.res = "OK" PROVE AtRest(q, w)
  <2>1. Went(q, v, y) /\ y \in Good(q) /\ y.res = m.res
    BY <1>3, <1>7, <1>8, WinGoes
  <2> HIDE DEF y
  <2>2. y.fp = v.fp
    BY <2>1 DEF Went, SameFile
  <2> QED
    BY <1>6, <1>8, <2>1, <2>2, GrowKeeps
<1> HIDE DEF w
<1> QED
  BY <1>1, <1>5, <1>8

(* Which is on a cluster that f_write found or made, or there is none      *)
(* left.                                                                   *)
LEMMA WriteClusterKeeps ==
  ASSUME NEW q \in BOOLEAN, NEW v \in Good(q), Held(v.fp)
  PROVE  LET w == WriteCluster(v)
         IN  Aborted(q, w) \/ (Stays(q, v, w) /\ w.res \in {"OK", "FULL"})
<1> DEFINE g == create_chain(v, v.fp.clust)
           h == create_chain(v, 0)
           r == Ret(v, v.fp.sclust)
           c == IF v.fp.fptr # 0 THEN g ELSE IF v.fp.sclust = 0 THEN h ELSE r
           s == IF v.fp.sclust = 0 THEN c.ret ELSE v.fp.sclust
           x == [c.fp EXCEPT !.clust = c.ret]
           y == WithFp(c, x)
           x2 == [y.fp EXCEPT !.sclust = s]
           z == WithFp(y, x2)
           w == Res(z, "OK")
           o == Res(v, "OK")
           n == Res(c, "FULL")
           b == Abort(c, ClusterError(c.ret))
<1>1. WriteCluster(v) = IF ~AtSector(v) \/ SectInClust(v) # 0 THEN o
                        ELSE IF c.ret = 0 THEN n
                        ELSE IF c.ret \in {1, DISKERR} THEN b
                        ELSE Res([c EXCEPT !.fp.clust = c.ret, !.fp.sclust = s], "OK")
  BY Zenon DEF WriteCluster, With, OK
<1>2. v.fp.clust \in Nat /\ v.fp.sclust \in Nat /\ v.fp.sclust \in ClusterNos
  BY FilIs
<1>3. /\ Went(q, v, c) /\ c \in Good(q)
      /\ c.ret \in {0, 1, DISKERR} \union RealClusters \union ClusterNos
  <2>1. Went(q, v, g) /\ g \in Good(q) /\ g.ret \in {0, 1, DISKERR} \union RealClusters
    BY <1>2, CreateChainGoes
  <2>2. Went(q, v, h) /\ h \in Good(q) /\ h.ret \in {0, 1, DISKERR} \union RealClusters
    BY CreateChainGoes
  <2>3. Went(q, v, r) /\ r \in Good(q) /\ r.ret = v.fp.sclust
    BY <1>2, WentSelf, RetGoes
  <2> HIDE DEF g, h, r
  <2> QED
    BY <1>2, <2>1, <2>2, <2>3
<1> HIDE DEF c
<1>4. c.fp = v.fp /\ c.cnt = v.cnt
  BY <1>3 DEF Went, SameFile
<1>5. Aborted(q, b)
  BY <1>3, <1>4, ClusterErrorIs, AbortKeeps
<1> HIDE DEF b
<1>6. Stays(q, v, o) /\ o.res = "OK"
  <2>1. Went(q, v, o) /\ o \in Good(q) /\ o.res = "OK"
    BY WentSelf, ResGoes, ResultsAre
  <2> HIDE DEF o
  <2> QED
    BY <2>1 DEF Went, SameFile, Stays, SameSpot
<1> HIDE DEF o
<1>7. Stays(q, v, n) /\ n.res = "FULL"
  <2>1. Went(q, v, n) /\ n \in Good(q) /\ n.res = "FULL"
    BY <1>3, ResGoes, ResultsAre
  <2> HIDE DEF n
  <2> QED
    BY <2>1 DEF Went, SameFile, Stays, SameSpot
<1> HIDE DEF n
<1>8. CASE c.ret \in {0, 1, DISKERR}
  BY <1>1, <1>5, <1>6, <1>7, <1>8
<1>9. CASE c.ret \notin {0, 1, DISKERR}
  <2>1. c.ret \in FileClusters /\ c.ret \in ClusterNos
    <3>1. \A i \in ClusterNos : i # 0 /\ i # 1 => i \in RealClusters
      BY LayoutIs DEF ClusterNos, RealClusters
    <3>2. \A i \in RealClusters : i \in ClusterNos /\ i \in FatValues
      BY LayoutIs DEF ClusterNos, RealClusters, FatValues
    <3> QED
      BY <1>3, <1>9, <3>1, <3>2 DEF FileClusters
  <2>2. c \in CallSet /\ c.fp \in FilSet
    BY <1>3, FilIs
  <2>3. x \in FilSet /\ SameSpot(c.fp, x)
    BY <2>1, <2>2 DEF FilSet, SameSpot
  <2>4. [c EXCEPT !.fp.clust = c.ret] = y
    BY <2>2, FpChanges
  <2> HIDE DEF x
  <2>5. y \in Good(q) /\ y.fp = x /\ y.cnt = c.cnt
    BY <1>3, <2>3, FpGoes
  <2>6. s \in ClusterNos
    BY <1>2, <2>1
  <2> HIDE DEF s
  <2>7. [c EXCEPT !.fp.clust = c.ret, !.fp.sclust = s] = [y EXCEPT !.fp.sclust = s]
    BY <2>4
  <2> HIDE DEF y
  <2>8. y \in CallSet /\ y.fp \in FilSet
    BY <2>5, FilIs
  <2>9. [y EXCEPT !.fp.sclust = s] = z
    BY <2>8, FpChanges
  <2>10. x2 \in FilSet /\ SameSpot(y.fp, x2)
    BY <2>6, <2>8 DEF FilSet, SameSpot
  <2> HIDE DEF x2
  <2>11. z \in Good(q) /\ z.fp = x2 /\ z.cnt = y.cnt
    BY <2>5, <2>10, FpGoes
  <2> HIDE DEF z
  <2>12. Went(q, z, w) /\ w \in Good(q) /\ w.res = "OK"
    BY <2>11, WentSelf, ResGoes, ResultsAre
  <2>13. WriteCluster(v) = IF ~AtSector(v) \/ SectInClust(v) # 0 THEN o ELSE w
    BY <1>1, <1>9, <2>7, <2>9
  <2> HIDE DEF w
  <2>14. w.fp = x2 /\ w.cnt = v.cnt
    BY <1>4, <2>5, <2>11, <2>12 DEF Went, SameFile
  <2>15. SameSpot(v.fp, x2)
    BY <1>4, <2>3, <2>5, <2>10 DEF SameSpot
  <2>16. Stays(q, v, w)
    BY <2>12, <2>14, <2>15 DEF Stays
  <2> QED
    BY <1>6, <2>12, <2>13, <2>16
<1> QED
  BY <1>8, <1>9

(* A window that a direct write passes by is brought up to date. *)
LEMMA RefreshKeeps ==
  ASSUME NEW q \in BOOLEAN, NEW v \in Good(q), NEW s \in Int, NEW m \in Nat,
         \A i \in 1..m : s + i - 1 \in TableArea
  PROVE  LET w == RefreshWin(v, s, m)
         IN  Went(q, v, w) /\ w \in Good(q) /\ w.res = v.res
<1> DEFINE t == v.fs.winsect
           c == v.disk[t]
           f == v.fs
           h == [f EXCEPT !.wflag = FALSE]
           g == [h EXCEPT !.win = c]
           w == [v EXCEPT !.fs = g]
<1>1. v \in CallSet /\ v \in Steady(q) /\ f \in FsSet /\ v.disk \in Cards
  BY GoodIs DEF CallSet, Volumes
<1>2. CASE ~(s <= t /\ t < s + m)
  BY <1>2, WentSelf, Zenon DEF RefreshWin
<1>3. CASE s <= t /\ t < s + m
  <2>1. RefreshWin(v, s, m) = w
    <3>1. RefreshWin(v, s, m) = [v EXCEPT !.fs.win = c, !.fs.wflag = FALSE]
      BY <1>3, Zenon DEF RefreshWin
    <3>2. [v EXCEPT !.fs.win = c, !.fs.wflag = FALSE] = w
      BY <1>1 DEF CallSet, FsSet
    <3> QED
      BY <3>1, <3>2
  <2>2. t \in TableArea
    <3>1. t \in Int
      <4>1. t \in WinSects \union {NOSECT}
        BY <1>1 DEF FsSet
      <4> QED
        BY <4>1, AreasApart DEF WinSects, Sectors, NOSECT
    <3> DEFINE i == t - s + 1
    <3>2. i \in 1 .. m /\ s + i - 1 = t
      BY <1>3, <3>1
    <3> HIDE DEF i, t
    <3> QED
      BY <3>2
  <2>3. t \in WinSects /\ t \notin FatSects /\ t \in Sectors
    BY <2>2, AreasApart, TableHolds
  <2>4. c \in SectorSet
    BY <1>1, <2>3 DEF Cards
  <2>5. h \in FsSet /\ SameFs(f, h) /\ h.wflag = FALSE /\ h.winsect = t
    BY <1>1 DEF FsSet, SameFs
  <2> HIDE DEF c, h
  <2>6. g \in FsSet /\ SameFs(f, g) /\ g.wflag = FALSE /\ g.winsect = t
    BY <2>4, <2>5 DEF FsSet, SameFs
  <2> HIDE DEF g
  <2>7. g \in Volumes
    BY <2>2, <2>6 DEF Volumes, WindowHolds
  <2>8. /\ w \in CallSet /\ w.fs = g /\ w.disk = v.disk /\ w.res = v.res
        /\ w.to = v.to /\ w.from = v.from /\ SameRest(v, w)
    BY <1>1, <2>7, SetFs
  <2> HIDE DEF w
  <2>9. SameFat(v, w)
    BY <1>1, <2>3, <2>6, <2>8, WindowElsewhere
  <2>10. w \in Steady(q)
    BY <1>1, <2>3, <2>6, <2>8 DEF Steady, Healthy, Coherent, SameFs
  <2>11. Calm(q, v, w) /\ SameFile(v, w)
    BY <2>6, <2>8, <2>9, <2>10 DEF Calm, SameRest, SameWork, SameFile
  <2>12. Went(q, v, w)
    BY <2>11, CalmGoes
  <2> QED
    BY <2>1, <2>8, <2>12 DEF Went
<1> QED
  BY <1>2, <1>3

(* The sectors of a direct write are data. *)
LEMMA SectorsOfIs ==
  ASSUME NEW b \in Seq(Words), NEW m \in Nat, m * SectorBytes <= Len(b)
  PROVE  \A i \in 1..m : SectorsOf(b, m)[i] \in TableSet
<1>1. SUFFICES ASSUME NEW i \in 1..m PROVE SectorsOf(b, m)[i] \in TableSet
  OBVIOUS
<1> DEFINE B == SectorBytes
           x == (i - 1) * B + 1
           y == i * B
           d == SubSeq(b, x, y)
<1>2. B \in Nat \ {0} /\ i \in Nat \ {0} /\ m \in Nat
  BY GeometryAssumption
<1>3. y = (i - 1) * B + B /\ (i - 1) * B \in Nat /\ y \in Nat
  BY <1>2
<1>4. y <= m * B
  <2>1. \A j, k, n \in Nat : j <= k => j * n <= k * n
    OBVIOUS
  <2> QED
    BY <1>2, <2>1
<1>5. x \in 1 .. y /\ y - x + 1 = B /\ y <= Len(b)
  <2> DEFINE z == (i - 1) * B
  <2> HIDE DEF z, y
  <2> QED
    BY <1>2, <1>3, <1>4 DEF z
<1>6. SectorsOf(b, m)[i] = Data(d)
  BY DEF SectorsOf
<1> HIDE DEF x, y, B
<1>7. d \in Seq(Words) /\ Len(d) = B
  <2>1. x \in Nat /\ y \in Nat /\ Len(b) \in Nat /\ 1 <= x /\ x <= y
    BY <1>3, <1>5
  <2>2. \A j \in x .. y : j \in 1 .. Len(b)
    BY <1>5, <2>1
  <2>3. d \in Seq(Words)
    BY <2>1, <2>2
  <2>4. Len(d) = y - x + 1
    BY <2>1
  <2> QED
    BY <1>5, <2>3, <2>4
<1> HIDE DEF d
<1>8. d \in [1 .. B -> Words]
  BY <1>7
<1> QED
  BY <1>6, <1>8, DataIs DEF B

(* A direct write leaves the pointer at the end of a sector. *)
LEMMA WriteWholeKeeps ==
  ASSUME NEW q \in BOOLEAN, NEW v \in Good(q), Held(v.fp), v.fp.err = "OK", AtSector(v),
         NEW s \in Int, NEW b \in Seq(Words), NEW m \in Nat, m * SectorBytes <= Len(b),
         m * SectorBytes \in Nat, \A i \in 1..m : s + i - 1 \in TableArea
  PROVE  LET w == WriteWhole(v, s, b, m)
         IN  Aborted(q, w) \/ AtRest(q, w)
<1> DEFINE c == SectorsOf(b, m)
           d == WriteSectors(v, s, c, m)
           r == RefreshWin(d, s, m)
           n == m * SectorBytes
           w == Grow(r, n)
           e == Abort(d, "DISK_ERR")
<1>1. WriteWhole(v, s, b, m) = IF d.res # "OK" THEN e ELSE w
  BY Zenon DEF WriteWhole, With
<1>2. \A i \in 1..m : s + i - 1 \in TableArea /\ c[i] \in TableSet
  BY SectorsOfIs
<1> HIDE DEF c
<1>3. v \in Steady(q)
  BY GoodIs
<1>4. Calm(q, v, d) /\ SameRest(v, d)
  BY <1>2, <1>3, WriteSectorsKeeps
<1> HIDE DEF d
<1>5. d \in Good(q) /\ d.fp = v.fp
  BY <1>4, CalmKeepsGood DEF SameRest, SameWork
<1>6. Aborted(q, e)
  BY <1>5, AbortKeeps
<1> HIDE DEF e
<1>7. Went(q, d, r) /\ r \in Good(q) /\ r.res = d.res
  BY <1>5, RefreshKeeps
<1> HIDE DEF r
<1>8. r.fp = v.fp
  BY <1>5, <1>7 DEF Went, SameFile
<1>9. (v.fp.fptr + n) % SectorBytes = 0
  <2>1. v.fp.fptr % SectorBytes = 0 /\ v.fp.fptr \in Nat /\ SectorBytes \in Nat \ {0}
    BY FilIs, GeometryAssumption DEF AtSector
  <2>2. (v.fp.fptr + m * SectorBytes) % SectorBytes = v.fp.fptr % SectorBytes
    BY <2>1, ModWhole
  <2> QED
    BY <2>1, <2>2
<1>10. n \in Nat
  OBVIOUS
<1> HIDE DEF n
<1>11. d.res = "OK" => AtRest(q, w)
  BY <1>7, <1>8, <1>9, <1>10, GrowKeeps
<1> HIDE DEF w
<1> QED
  BY <1>1, <1>6, <1>11

(* A step of f_write ends at rest or aborts. *)
LEMMA WriteStepKeeps ==
  ASSUME NEW q \in BOOLEAN, NEW v, AtRest(q, v), NEW b \in Seq(Words)
  PROVE  LET w == WriteStep(v, b)
         IN  Aborted(q, w) \/ AtRest(q, w)
<1> DEFINE cl == v.fp.clust
           i == SectInClust(v)
           top == clst2sect(cl)
           sect == top + i
           m == WholeSectors(v, Len(b))
           part == SubSeq(b, 1, PartBytes(v, Len(b)))
           y == sync_window(v)
           u == IF v.fs.winsect = v.fp.sect THEN y ELSE v
           p == WritePart(v, part)
           b1 == Abort(u, "DISK_ERR")
           b2 == Abort(u, "INT_ERR")
           g == GrowingEdge(u, sect)
           gp == WritePart(g, part)
           h == WriteWhole(u, sect, b, m)
<1>1. WriteStep(v, b) = IF ~AtSector(v) THEN p
                        ELSE IF u.res # "OK" THEN b1
                        ELSE IF top = 0 THEN b2
                        ELSE IF m = 0 THEN IF g.res = "OK" THEN gp ELSE g
                        ELSE h
  BY Zenon DEF WriteStep, With, Then
<1>2. /\ v \in Good(q) /\ v.res = "OK" /\ Held(v.fp) /\ v.fp.err = "OK" /\ AtData(v.fp)
      /\ v.fp.fptr <= v.fp.size
  BY DEF AtRest
<1>3. cl \in FileClusters /\ i \in 0 .. ClusterSectors - 1 /\ Len(b) \in Nat
  BY <1>2, FilIs, SpotIs
<1>4. /\ m \in Nat /\ m * SectorBytes \in Nat /\ m * SectorBytes <= Len(b) /\ m + i <= ClusterSectors
  BY <1>2, <1>3, WholeIs
<1>5. part \in Seq(Words)
  <2> DEFINE k == PartBytes(v, Len(b))
  <2>1. k \in Nat /\ k <= Len(b)
    BY <1>2, <1>3, SpotIs
  <2> HIDE DEF k
  <2>2. \A j \in 1 .. k : j \in 1 .. Len(b)
    BY <1>3, <2>1
  <2>3. SubSeq(b, 1, k) \in Seq(Words)
    BY <2>1, <2>2
  <2> QED
    BY <2>3 DEF k
<1> HIDE DEF cl, i, m, part
<1>6. top # 0 => top \in Nat /\ \A j \in 0 .. ClusterSectors - 1 : top + j \in TableArea
  BY <1>3, InCluster
<1> HIDE DEF top
<1>7. u \in Good(q) /\ u.fp = v.fp
  <2>1. v \in Steady(q)
    BY <1>2, GoodIs
  <2>2. Calm(q, v, y) /\ SameRest(v, y)
    BY <2>1, SyncWindowKeeps, SyncWindowCalm
  <2> HIDE DEF y
  <2>3. y \in Good(q) /\ y.fp = v.fp
    BY <1>2, <2>2, CalmKeepsGood DEF SameRest, SameWork
  <2> QED
    BY <1>2, <2>3
<1> HIDE DEF u
<1>8. CASE ~AtSector(v)
  <2>1. v.fp.sect \in TableArea
    BY <1>2, <1>8 DEF AtSector, AtData
  <2>2. Aborted(q, p) \/ AtRest(q, p)
    BY <1>2, <1>5, <2>1, WritePartKeeps
  <2> QED
    BY <1>1, <1>8, <2>2
<1>9. Aborted(q, b1) /\ Aborted(q, b2)
  BY <1>2, <1>7, AbortKeeps
<1> HIDE DEF b1, b2
<1>10. CASE AtSector(v) /\ u.res = "OK" /\ top # 0
  <2>1. sect \in TableArea /\ sect \in Int
    BY <1>3, <1>6, <1>10
  <2>2. \A j \in 1 .. m : sect + j - 1 \in TableArea
    <3>1. ASSUME NEW j \in 1 .. m PROVE sect + j - 1 \in TableArea
      <4> DEFINE a == i + j - 1
      <4>1. a \in 0 .. ClusterSectors - 1 /\ sect + j - 1 = top + a
        BY <1>3, <1>4, <1>6, <1>10, GeometryAssumption
      <4> HIDE DEF a, sect
      <4> QED
        BY <1>6, <1>10, <4>1
    <3> QED
      BY <3>1
  <2> HIDE DEF sect
  <2>3. \/ Aborted(q, g)
        \/ /\ g \in Good(q) /\ g.res = "OK" /\ g.fp.sect = sect /\ g.fp.open = u.fp.open
           /\ g.fp.dsect = u.fp.dsect /\ g.fp.err = u.fp.err
    BY <1>2, <1>7, <1>10, <2>1, GrowingEdgeKeeps
  <2> HIDE DEF g
  <2>4. g.res = "OK" => Aborted(q, gp) \/ AtRest(q, gp)
    <3>1. ASSUME g.res = "OK" PROVE g \in Good(q) /\ g.fp.sect \in TableArea /\ Held(g.fp) /\ g.fp.err = "OK"
      BY <1>2, <1>7, <2>1, <2>3, <3>1 DEF Aborted, Held
    <3> QED
      BY <1>5, <3>1, WritePartKeeps
  <2> HIDE DEF gp
  <2>5. Aborted(q, h) \/ AtRest(q, h)
    <3>1. AtSector(u)
      BY <1>7, <1>10 DEF AtSector
    <3> QED
      BY <1>2, <1>4, <1>7, <2>1, <2>2, <3>1, WriteWholeKeeps
  <2> HIDE DEF h
  <2> QED
    BY <1>1, <1>10, <2>3, <2>4, <2>5 DEF Aborted
<1> HIDE DEF p, g, gp, h
<1> QED
  BY <1>1, <1>8, <1>9, <1>10

(* The loop of f_write. *)
Writing(q, u) ==
    /\ u \in Good(q) /\ Held(u.fp)
    /\ u.res = GO => u.fp.err = "OK"
    /\ u.fp.err = "OK" => u.fp.fptr <= u.fp.size /\ AtData(u.fp)

(* The loop's invariant does not depend on the result. *)
LEMMA WritingAs ==
  ASSUME NEW q \in BOOLEAN, NEW u, Writing(q, u), u.fp.err = "OK", NEW r \in Results
  PROVE  LET w == Res(u, r) IN Writing(q, w) /\ w.res = r
<1> DEFINE w == Res(u, r)
<1>1. u \in Good(q)
  BY DEF Writing
<1>2. Went(q, u, w) /\ w.res = r
  BY <1>1, WentSelf, ResGoes
<1> HIDE DEF w
<1> QED
  BY <1>2 DEF Went, SameFile, Writing, w

(* A round keeps the pointer within the size, *)
LEMMA WriteRoundKeeps ==
  ASSUME NEW q \in BOOLEAN, NEW b \in Seq(Words), NEW v, Writing(q, v), v.res = GO
  PROVE  Writing(q, WriteRound(v, b))
<1> DEFINE o == Res(v, "OK")
           c == WriteCluster(v)
           t == SubSeq(b, c.cnt + 1, Len(b))
           d == WriteStep(c, t)
           a == Res(d, GO)
<1>1. WriteRound(v, b) = IF v.cnt = Len(b) THEN o
                         ELSE IF c.res # "OK" THEN c
                         ELSE IF d.res # "OK" THEN d ELSE a
  BY Zenon DEF WriteRound, Then, Again, OK
<1>2. /\ v \in Good(q) /\ Held(v.fp) /\ v.fp.err = "OK" /\ AtData(v.fp) /\ v.fp.fptr <= v.fp.size
  BY DEF Writing
<1>3. Writing(q, o)
  BY <1>2, WritingAs, ResultsAre
<1> HIDE DEF o
<1>4. Aborted(q, c) \/ (Stays(q, v, c) /\ c.res \in {"OK", "FULL"})
  BY <1>2, WriteClusterKeeps
<1> HIDE DEF c
<1>5. \A u : Aborted(q, u) => Writing(q, u) /\ u.res # "OK"
  BY DEF Aborted, Writing
<1>6. Stays(q, v, c) => Held(c.fp) /\ c.fp.err = "OK" /\ AtData(c.fp) /\ c.fp.fptr <= c.fp.size /\ c \in Good(q)
  BY <1>2 DEF Stays, SameSpot, Held, AtData
<1>7. Writing(q, c)
  BY <1>4, <1>5, <1>6 DEF Writing
<1>8. CASE c.res = "OK"
  <2>1. AtRest(q, c)
    BY <1>4, <1>5, <1>6, <1>8 DEF AtRest
  <2>2. t \in Seq(Words)
    <3>1. c.cnt \in Nat /\ Len(b) \in Nat
      BY <2>1, FilIs DEF AtRest
    <3> DEFINE j == c.cnt + 1
               n == Len(b)
    <3>2. j \in Nat /\ n \in Nat /\ \A k \in j .. n : k \in 1 .. Len(b)
      BY <3>1
    <3> HIDE DEF j, n
    <3>3. SubSeq(b, j, n) \in Seq(Words)
      BY <3>2
    <3> QED
      BY <3>3 DEF j, n
  <2> HIDE DEF t
  <2>3. Aborted(q, d) \/ AtRest(q, d)
    BY <2>1, <2>2, WriteStepKeeps
  <2> HIDE DEF d
  <2>4. AtRest(q, d) => Writing(q, d) /\ d.fp.err = "OK"
    BY DEF AtRest, Writing, GO
  <2>5. AtRest(q, d) => Writing(q, a)
    BY <2>4, WritingAs, ResultsAre
  <2>6. AtRest(q, d) => d.res = "OK"
    BY DEF AtRest
  <2> HIDE DEF a
  <2> QED
    BY <1>1, <1>3, <1>5, <1>8, <2>3, <2>5, <2>6
<1> HIDE DEF d, a
<1> QED
  BY <1>1, <1>3, <1>7, <1>8

(* And so does f_write's loop, for every number of bytes. *)
LEMMA WriteLoopKeeps ==
  ASSUME NEW q \in BOOLEAN, NEW b \in Seq(Words), NEW v, Writing(q, v), v.fp.err = "OK"
  PROVE  Writing(q, WriteLoop(v, b))
<1> DEFINE n == Len(b) + 1
           a == Again(v)
           V == {u \in Good(q) : Writing(q, u)}
           B(u, k) == IF u.res = GO THEN WriteRound(u, b) ELSE u
           F(h) == [k \in 0..n |-> IF k = 0 THEN a ELSE B(h[k - 1], k)]
           at == CHOOSE h : h = F(h)
           G == [p \in V \X (1..n) |-> B(p[1], p[2])]
<1>1. n \in Nat /\ a \in V
  <2>1. Writing(q, a)
    BY WritingAs, ResultsAre DEF Again
  <2> HIDE DEF a
  <2> QED
    BY <2>1 DEF Writing
<1>2. \A u \in V, k \in 1..n : B(u, k) \in V
  <2>1. ASSUME NEW u \in V, NEW k \in 1..n PROVE B(u, k) \in V
    <3> DEFINE w == WriteRound(u, b)
    <3>1. u.res = GO => Writing(q, w)
      BY WriteRoundKeeps
    <3> HIDE DEF w
    <3>2. u.res = GO => w \in V
      BY <3>1 DEF Writing
    <3> HIDE DEF V
    <3> QED
      BY <3>2 DEF w
  <2> HIDE DEF V
  <2> QED
    BY <2>1
<1>3. WriteLoop(v, b) = IF at[n].res = GO THEN Res(at[n], "ENDLESS") ELSE at[n]
  BY Zenon DEF WriteLoop, Rounds, With
<1> HIDE DEF a, V, B, n
<1>4. G \in [V \X (1..n) -> V] /\ \A u \in V, k \in 1..n : G[<<u, k>>] = B(u, k)
  BY <1>2
<1> HIDE DEF G
<1>5. PICK g \in [0..n -> V] : Runs(g, V, a, G, n)
  BY <1>1, <1>4, LoopRuns, Zenon
<1>6. g = F(g)
  <2>1. \A k \in 1..n : g[k] = B(g[k - 1], k)
    BY <1>4, <1>5, Zenon DEF Runs
  <2>2. \A k \in 0..n : g[k] = IF k = 0 THEN a ELSE B(g[k - 1], k)
    BY <1>5, <2>1 DEF Runs
  <2> QED
    BY <2>2
<1>7. at = F(at)
  BY <1>6
<1> HIDE DEF at
<1>8. at[0] = a /\ \A k \in 1..n : at[k] = B(at[k - 1], k)
  BY <1>1, <1>7
<1>9. at[n] \in V
  <2>1. \A k \in 1..n : at[k - 1] \in V => at[k] \in V
    BY <1>2, <1>8, Zenon
  <2> QED
    BY <1>1, <1>8, <2>1, LoopStays, Zenon
<1> DEFINE e == at[n]
<1>10. e \in V /\ WriteLoop(v, b) = IF e.res = GO THEN Res(e, "ENDLESS") ELSE e
  BY <1>3, <1>9
<1> HIDE DEF e
<1> DEFINE z == Res(e, "ENDLESS")
<1>11. Writing(q, e)
  BY <1>10 DEF V
<1>12. e.res = GO => Writing(q, z)
  BY <1>11, WritingAs, ResultsAre DEF Writing
<1>13. WriteLoop(v, b) = IF e.res = GO THEN z ELSE e
  BY <1>10
<1> HIDE DEF z
<1> QED
  BY <1>11, <1>12, <1>13

(* The file object is marked as modified or not. *)
LEMMA ModGoes ==
  ASSUME NEW q \in BOOLEAN, NEW v \in Good(q), NEW m \in BOOLEAN
  PROVE  LET w == [v EXCEPT !.fp.mod = m]
         IN  /\ w \in Good(q) /\ w.res = v.res /\ w.ret = v.ret /\ w.cnt = v.cnt /\ w.fs = v.fs
             /\ SameSpot(v.fp, w.fp)
<1> DEFINE x == [v.fp EXCEPT !.mod = m]
           y == WithFp(v, x)
           w == [v EXCEPT !.fp.mod = m]
<1>1. v \in CallSet /\ v.fp \in FilSet
  BY FilIs
<1>2. w = y
  BY <1>1, FpChanges
<1> HIDE DEF w
<1>3. x \in FilSet /\ SameSpot(v.fp, x)
  BY <1>1 DEF FilSet, SameSpot
<1> HIDE DEF x
<1>4. y \in Good(q) /\ y.fp = x /\ y.res = v.res /\ y.ret = v.ret /\ y.cnt = v.cnt /\ y.fs = v.fs
  BY <1>3, FpGoes
<1> HIDE DEF y
<1> QED
  BY <1>2, <1>3, <1>4 DEF w

(* What is known of an open file depends on its place only. *)
LEMMA FineAs ==
  ASSUME NEW q \in BOOLEAN, NEW u \in Fine(q), NEW w \in Good(q), SameSpot(u.fp, w.fp)
  PROVE  w \in Fine(q)
BY DEF Fine, FileOK, SameSpot, AtData

(* The bytes that keep the offset from wrapping are a sequence of bytes.   *)
LEMMA UnwrappedIs ==
  ASSUME NEW v, v.fp.fptr \in Nat, NEW b \in Seq(Words)
  PROVE  Unwrapped(v, b) \in Seq(Words)
<1> DEFINE k == MaxFileSize - v.fp.fptr
<1>1. k \in Int /\ Len(b) \in Nat
  BY GeometryAssumption
<1>2. Unwrapped(v, b) = IF v.fp.fptr + Len(b) > MaxFileSize THEN SubSeq(b, 1, k) ELSE b
  BY DEF Unwrapped
<1>3. ASSUME v.fp.fptr + Len(b) > MaxFileSize
      PROVE  SubSeq(b, 1, k) \in Seq(Words)
  <2>1. k < Len(b)
    BY <1>1, <1>3, GeometryAssumption
  <2> HIDE DEF k
  <2>2. CASE k \in Nat
    BY <1>1, <2>1, <2>2
  <2>3. CASE k \notin Nat
    BY <1>1, <2>3
  <2> QED
    BY <2>2, <2>3
<1> QED
  BY <1>2, <1>3

(* F_write of any number of bytes leaves the pointer within the size of    *)
(* the file and on a sector of the file's, keeps the count of free         *)
(* clusters right and the copies of the FAT the same, on a full card too.  *)
THEOREM FWriteKeeps ==
  ASSUME NEW q \in BOOLEAN, NEW v \in Fine(q), NEW b \in Seq(Words)
  PROVE  f_write(v, b) \in Fine(q)
<1> DEFINE z == [v EXCEPT !.cnt = 0]
           u == Usable(z, v.fp.w)
           e == Unwrapped(u, b)
           w == WriteLoop(u, e)
           m == [w EXCEPT !.fp.mod = TRUE]
           o == Res(m, "OK")
<1>1. f_write(v, b) = IF u.res = "OK" THEN IF w.res \in {"OK", "FULL"} THEN o ELSE w ELSE u
  BY Zenon DEF f_write, Then, With, OK
<1>2. v \in Good(q) /\ FileOK(v.fp) /\ v.fp.w \in BOOLEAN
  <2>1. v \in Good(q) /\ FileOK(v.fp)
    BY DEF Fine
  <2> QED
    BY <2>1, FilIs DEF FilSet
<1>3. z \in Good(q) /\ z.fp = v.fp
  <2>1. v \in Good(q) /\ 0 \in Nat
    BY <1>2
  <2> QED
    BY <2>1, CntGoes, Zenon
<1> HIDE DEF z
<1>4. /\ u \in Good(q) /\ u.fp = v.fp
      /\ u.res = "OK" => v.fp.open /\ v.fp.err = "OK"
  BY <1>2, <1>3, UsableKeeps
<1> HIDE DEF u
<1>5. u \in Fine(q)
  BY <1>2, <1>4 DEF Fine
<1>7. e \in Seq(Words)
  <2>1. u.fp.fptr \in Nat
    BY <1>4, FilIs
  <2> QED
    BY <2>1, UnwrappedIs
<1> HIDE DEF e
<1>6. ASSUME u.res = "OK" PROVE w \in Fine(q) /\ o \in Fine(q)
  <2>1. Writing(q, u) /\ u.fp.err = "OK"
    BY <1>2, <1>4, <1>6 DEF FileOK, Held, Writing
  <2>2. Writing(q, w)
    BY <1>7, <2>1, WriteLoopKeeps
  <2> HIDE DEF w
  <2>3. w \in Fine(q) /\ w \in Good(q)
    BY <2>2 DEF Writing, Fine, FileOK, Held
  <2>4. m \in Good(q) /\ SameSpot(w.fp, m.fp)
    BY <2>3, ModGoes
  <2> HIDE DEF m
  <2>5. Went(q, m, o) /\ o \in Good(q)
    BY <2>4, WentSelf, ResGoes, ResultsAre
  <2> HIDE DEF o
  <2>6. SameSpot(w.fp, o.fp)
    BY <2>4, <2>5 DEF Went, SameFile
  <2> QED
    BY <2>3, <2>5, <2>6, FineAs
<1> HIDE DEF w, o
<1> QED
  BY <1>1, <1>5, <1>6

-----------------------------------------------------------------------------
(* f_sync and f_close.                                                     *)
LEMMA UpdateEntryKeeps ==
  ASSUME NEW q \in BOOLEAN, NEW v \in Good(q), v.fs.winsect \in TableArea
  PROVE  LET w == UpdateEntry(v)
         IN  Went(q, v, w) /\ w \in Good(q)
<1> DEFINE es == EntriesOf(v.fs.win)
           i == v.fp.dptr
           e1 == [es[i] EXCEPT !.cl = v.fp.sclust]
           e2 == [e1 EXCEPT !.sz = v.fp.size]
           x == [es EXCEPT ![i] = e2]
           t == DirSector(x)
           w == SetWin(v, t)
<1>1. UpdateEntry(v) = w
  <2>1. UpdateEntry(v) = SetWin(v, DirSector([es EXCEPT ![i] = [@ EXCEPT !.cl = v.fp.sclust,
                                                                       !.sz = v.fp.size]]))
    BY Zenon DEF UpdateEntry
  <2> HIDE DEF es
  <2> QED
    BY <2>1
<1>2. /\ i \in 0 .. DirEntriesPerSector - 1 /\ v.fp.sclust \in ClusterNos /\ v.fp.size \in Nat
  BY FilIs DEF FilSet
<1>3. es \in [0 .. DirEntriesPerSector - 1 -> EntrySet]
  BY GoodIs, EntriesAre
<1> HIDE DEF es, i
<1>4. e1 \in EntrySet
  BY <1>2, <1>3 DEF EntrySet
<1> HIDE DEF e1
<1>5. e2 \in EntrySet
  BY <1>2, <1>4 DEF EntrySet
<1> HIDE DEF e2
<1>6. x \in [0 .. DirEntriesPerSector - 1 -> EntrySet]
  BY <1>2, <1>3, <1>5
<1> HIDE DEF x
<1>7. t \in TableSet
  BY <1>6 DEF DirSector, TableSet
<1> HIDE DEF t
<1>8. Went(q, v, w) /\ w \in Good(q)
  BY <1>7, WentSelf, WinGoes
<1> QED
  BY <1>1, <1>8

(* Validate passes only an open file. *)
LEMMA ValidFile ==
  ASSUME NEW q \in BOOLEAN, NEW v \in Good(q)
  PROVE  LET w == validate(v, v.fp)
         IN  /\ Went(q, v, w) /\ w \in Good(q) /\ w.fp = v.fp
             /\ w.res = "OK" => v.fp.open
<1> DEFINE u == validate(v, v.fp)
           b == Res(v, "INVALID_OBJECT")
<1>1. Went(q, v, u) /\ u \in Good(q)
  BY ValidateKeeps
<1>2. ~v.fp.open => u = b
  BY Zenon DEF validate
<1>3. b.res = "INVALID_OBJECT"
  BY WentSelf, ResGoes, ResultsAre
<1> HIDE DEF b, u
<1> QED
  BY <1>1, <1>2, <1>3 DEF Went, SameFile, u

(* F_sync writes the entry into the table it is in, and keeps all of this. *)
THEOREM FSyncKeeps ==
  ASSUME NEW q \in BOOLEAN, NEW v \in Fine(q)
  PROVE  f_sync(v) \in Fine(q)
<1> DEFINE u == validate(v, v.fp)
           m == move_window(u, u.fp.dsect)
           e == UpdateEntry(m)
           s == sync_fs(e)
           w == [s EXCEPT !.fp.mod = FALSE]
<1>1. f_sync(v) = IF u.res = "OK" THEN IF ~u.fp.mod THEN u ELSE IF m.res = "OK" THEN w ELSE m ELSE u
  BY Zenon DEF f_sync, Then
<1>2. v \in Good(q) /\ FileOK(v.fp)
  BY DEF Fine
<1>3. /\ Went(q, v, u) /\ u \in Good(q) /\ u.fp = v.fp
      /\ u.res = "OK" => v.fp.open
  BY <1>2, ValidFile
<1> HIDE DEF u
<1>4. u \in Fine(q)
  BY <1>2, <1>3 DEF Fine
<1>5. ASSUME u.res = "OK" PROVE m \in Fine(q) /\ (m.res = "OK" => w \in Fine(q))
  <2>1. u.fp.dsect \in TableArea
    BY <1>2, <1>3, <1>5 DEF FileOK
  <2>2. u.fp.dsect \in WinSects
    BY <2>1, AreasApart
  <2>3. Went(q, u, m) /\ m \in Good(q) /\ (m.res = "OK" => m.fs.winsect = u.fp.dsect)
    BY <1>3, <2>2, MoveGoes
  <2> HIDE DEF m
  <2>4. m \in Fine(q)
    BY <1>2, <1>3, <2>3 DEF Fine, Went, SameFile
  <2>5. ASSUME m.res = "OK" PROVE w \in Fine(q)
    <3>1. Went(q, m, e) /\ e \in Good(q)
      BY <2>1, <2>3, <2>5, UpdateEntryKeeps
    <3> HIDE DEF e
    <3>2. Went(q, m, s) /\ s \in Good(q)
      BY <3>1, SyncGoes
    <3> HIDE DEF s
    <3>3. s \in Fine(q)
      BY <2>4, <3>2 DEF Fine, Went, SameFile
    <3>4. w \in Good(q) /\ SameSpot(s.fp, w.fp)
      BY <3>2, ModGoes
    <3> HIDE DEF w
    <3> QED
      BY <3>3, <3>4, FineAs
  <2> QED
    BY <2>4, <2>5
<1> HIDE DEF m, w
<1> QED
  BY <1>1, <1>4, <1>5

(* F_close does too. *)
THEOREM FCloseKeeps ==
  ASSUME NEW q \in BOOLEAN, NEW v \in Fine(q)
  PROVE  f_close(v) \in Fine(q)
<1> DEFINE s == f_sync(v)
           u == validate(s, s.fp)
           x == [u.fp EXCEPT !.open = FALSE]
           w == WithFp(u, x)
<1>1. f_close(v) = IF s.res = "OK" THEN IF u.res = "OK" THEN [u EXCEPT !.fp.open = FALSE] ELSE u ELSE s
  BY Zenon DEF f_close, Then
<1>2. s \in Fine(q)
  BY FSyncKeeps
<1> HIDE DEF s
<1>3. s \in Good(q) /\ FileOK(s.fp)
  BY <1>2 DEF Fine
<1>4. u \in Good(q) /\ u.fp = s.fp
  BY <1>3, ValidFile
<1> HIDE DEF u
<1>5. u \in Fine(q) /\ u \in CallSet /\ u.fp \in FilSet
  BY <1>3, <1>4, FilIs DEF Fine
<1>6. [u EXCEPT !.fp.open = FALSE] = w
  <2>1. \A a : [u EXCEPT !.fp.open = a] = WithFp(u, [u.fp EXCEPT !.open = a])
    BY <1>5, FpChanges
  <2> QED
    BY <2>1, Zenon
<1>7. x \in FilSet /\ ~x.open
  BY <1>5 DEF FilSet
<1> HIDE DEF x
<1>8. w \in Good(q) /\ w.fp = x
  BY <1>4, <1>7, FpGoes
<1> HIDE DEF w
<1>9. w \in Fine(q)
  BY <1>7, <1>8 DEF Fine, FileOK
<1> QED
  BY <1>1, <1>2, <1>5, <1>6, <1>9

-----------------------------------------------------------------------------
(* f_truncate.                                                             *)
LEMMA GoodRemoves ==
  ASSUME NEW q \in BOOLEAN, NEW v \in Good(q), NEW c \in Nat, NEW p \in Nat,
         q /\ p \in RealClusters /\ c \in RealClusters => Fat(v.disk, v.fs)[p] # 0
  PROVE  LET w == remove_chain(v, c, p)
         IN  Went(q, v, w) /\ w \in Good(q)
<1> DEFINE w == remove_chain(v, c, p)
<1>1. w \in Good(q) /\ SameWork(v, w)
  BY RemoveChainKeeps
<1> HIDE DEF w
<1> QED
  BY <1>1 DEF Went, SameWork, SameFile, w

(* The first cluster is not what an open file is placed by. *)
LEMMA SclustGoes ==
  ASSUME NEW q \in BOOLEAN, NEW v \in Good(q), NEW c \in ClusterNos
  PROVE  LET w == [v EXCEPT !.fp.sclust = c]
         IN  /\ w \in Good(q) /\ w.res = v.res /\ w.ret = v.ret /\ w.cnt = v.cnt /\ w.fs = v.fs
             /\ SameSpot(v.fp, w.fp)
<1> DEFINE x == [v.fp EXCEPT !.sclust = c]
           y == WithFp(v, x)
           w == [v EXCEPT !.fp.sclust = c]
<1>1. v \in CallSet /\ v.fp \in FilSet
  BY FilIs
<1>2. w = y
  BY <1>1, FpChanges
<1> HIDE DEF w
<1>3. x \in FilSet /\ SameSpot(v.fp, x)
  BY <1>1 DEF FilSet, SameSpot
<1> HIDE DEF x
<1>4. y \in Good(q) /\ y.fp = x /\ y.res = v.res /\ y.ret = v.ret /\ y.cnt = v.cnt /\ y.fs = v.fs
  BY <1>3, FpGoes
<1> HIDE DEF y
<1> QED
  BY <1>2, <1>3, <1>4 DEF w

(* F_truncate frees what follows the pointer's cluster, which it marks as  *)
(* the last first.                                                         *)
LEMMA CutChainKeeps ==
  ASSUME NEW q \in BOOLEAN, NEW v \in Good(q)
  PROVE  LET w == CutChain(v)
         IN  w \in Good(q) /\ SameSpot(v.fp, w.fp)
<1> DEFINE r == remove_chain(v, v.fp.sclust, 0)
           z == 0
           a == [r EXCEPT !.fp.sclust = z]
           g == get_fat(v, v.fp.clust)
           e == Res(g, ClusterError(g.ret))
           b == remove_chain(g, g.ret, v.fp.clust)
<1>1. CutChain(v) = IF v.fp.fptr = 0 THEN a
                    ELSE IF g.ret \in {1, DISKERR} THEN e
                    ELSE IF g.ret < NFatEnt THEN b ELSE g
  BY Zenon DEF CutChain, With
<1>2. /\ v.fp.clust \in FileClusters /\ v.fp.clust \in Nat /\ v.fp.sclust \in Nat
      /\ v \in Steady(q) /\ v.fp \in FilSet
  BY FilIs, GoodIs
<1>3. a \in Good(q) /\ SameSpot(v.fp, a.fp)
  <2>1. 0 \in Nat /\ 0 \notin RealClusters
    BY NumbersApart
  <2>2. Went(q, v, r) /\ r \in Good(q)
    BY <1>2, <2>1, GoodRemoves
  <2> HIDE DEF r
  <2>3. z \in ClusterNos
    BY LayoutIs DEF ClusterNos
  <2> HIDE DEF z
  <2>4. a \in Good(q) /\ SameSpot(r.fp, a.fp)
    BY <2>2, <2>3, SclustGoes
  <2> HIDE DEF a
  <2> QED
    BY <2>2, <2>4 DEF Went, SameFile
<1> HIDE DEF a
<1>4. Went(q, v, g) /\ g \in Good(q) /\ g.ret \in FatValues \union {1, DISKERR}
  <2>1. v.fp.clust \in Int
    BY <1>2
  <2> QED
    BY <2>1, GetFatGoes
<1>5. SameFat(v, g) /\ (q /\ v.fp.clust \in RealClusters => g.ret = Fat(v.disk, v.fs)[v.fp.clust])
  <2>1. /\ Calm(q, v, g)
        /\ q /\ v.fp.clust \in RealClusters => g.ret = Fat(v.disk, v.fs)[v.fp.clust]
    BY <1>2, GetFatKeeps
  <2> HIDE DEF g
  <2> QED
    BY <2>1 DEF Calm
<1> HIDE DEF g
<1>6. e \in Good(q) /\ Went(q, v, e)
  BY <1>4, ClusterErrorIs, ResGoes
<1> HIDE DEF e
<1>7. ASSUME g.ret \notin {1, DISKERR} PROVE b \in Good(q) /\ Went(q, v, b)
  <2>1. g.ret \in Nat
    BY <1>4, <1>7, NumbersApart
  <2>2. q /\ v.fp.clust \in RealClusters /\ g.ret \in RealClusters => Fat(g.disk, g.fs)[v.fp.clust] # 0
    BY <1>5, NumbersApart DEF SameFat
  <2>3. Went(q, g, b) /\ b \in Good(q)
    BY <1>2, <1>4, <2>1, <2>2, GoodRemoves
  <2> HIDE DEF b
  <2> QED
    BY <1>4, <2>3, WentOn
<1> HIDE DEF b
<1> DEFINE w == CutChain(v)
<1>8. w = a \/ (w \in Good(q) /\ Went(q, v, w))
  BY <1>1, <1>4, <1>6, <1>7
<1> HIDE DEF w
<1> QED
  BY <1>3, <1>8 DEF Went, SameFile, SameSpot, w

(* An error that ends a call but for which nothing more is known. *)
LEMMA AbortFine ==
  ASSUME NEW q \in BOOLEAN, NEW u \in Good(q), u.fp.open => u.fp.dsect \in TableArea,
         NEW e \in Results, e # "OK"
  PROVE  Abort(u, e) \in Fine(q)
<1> DEFINE x == [u.fp EXCEPT !.err = e]
           y == WithFp(u, x)
           w == Res(y, e)
<1>1. u \in CallSet /\ u.fp \in FilSet
  BY FilIs
<1>2. Abort(u, e) = w
  <2>1. Abort(u, e) = [[u EXCEPT !.fp.err = e] EXCEPT !.res = e]
    BY Zenon DEF Abort
  <2>2. [u EXCEPT !.fp.err = e] = y
    BY <1>1, FpChanges
  <2> HIDE DEF y
  <2> QED
    BY <2>1, <2>2 DEF Res
<1>3. x \in FilSet /\ FileOK(x)
  BY <1>1 DEF FilSet, FileOK
<1> HIDE DEF x
<1>4. y \in Good(q) /\ y.fp = x
  BY <1>3, FpGoes
<1> HIDE DEF y
<1>5. w \in Good(q) /\ Went(q, y, w)
  BY <1>4, WentSelf, ResGoes
<1> HIDE DEF w
<1> QED
  BY <1>2, <1>3, <1>4, <1>5 DEF Fine, Went, SameFile

(* The size of the file object, which is then to be saved. *)
Sized(v, s, m) == [v EXCEPT !.fp.size = s, !.fp.mod = m]

(* A new size leaves the rest. *)
LEMMA SizeGoes ==
  ASSUME NEW q \in BOOLEAN, NEW v \in Good(q), NEW s \in Nat, NEW m \in BOOLEAN
  PROVE  LET w == Sized(v, s, m)
         IN  /\ w \in Good(q) /\ w.res = v.res /\ w.ret = v.ret /\ w.cnt = v.cnt
             /\ w.fp.size = s /\ w.fp.open = v.fp.open /\ w.fp.dsect = v.fp.dsect
             /\ w.fp.err = v.fp.err /\ w.fp.fptr = v.fp.fptr /\ w.fp.sect = v.fp.sect
<1> DEFINE x == [v.fp EXCEPT !.size = s]
           y == WithFp(v, x)
           a == [v EXCEPT !.fp.size = s]
           b == [a EXCEPT !.fp.mod = m]
           w == Sized(v, s, m)
<1>1. v \in CallSet /\ v.fp \in FilSet
  BY FilIs
<1>2. w = b
  BY DEF Sized
<1> HIDE DEF w
<1>3. a = y
  BY <1>1, FpChanges
<1> HIDE DEF a
<1>4. /\ x \in FilSet /\ x.size = s /\ x.open = v.fp.open /\ x.dsect = v.fp.dsect
      /\ x.err = v.fp.err /\ x.fptr = v.fp.fptr /\ x.sect = v.fp.sect
  BY <1>1 DEF FilSet
<1> HIDE DEF x
<1>5. y \in Good(q) /\ y.fp = x /\ y.res = v.res /\ y.ret = v.ret /\ y.cnt = v.cnt
  BY <1>4, FpGoes
<1> HIDE DEF y
<1>6. /\ b \in Good(q) /\ b.res = a.res /\ b.ret = a.ret /\ b.cnt = a.cnt /\ SameSpot(a.fp, b.fp)
  BY <1>3, <1>5, ModGoes
<1> HIDE DEF b
<1> QED
  BY <1>2, <1>3, <1>4, <1>5, <1>6 DEF SameSpot, w

(* F_truncate makes the pointer the size, keeps the count right and the    *)
(* copies of the FAT the same.                                             *)
THEOREM FTruncateKeeps ==
  ASSUME NEW q \in BOOLEAN, NEW v \in Fine(q)
  PROVE  f_truncate(v) \in Fine(q)
<1> DEFINE u == Usable(v, v.fp.w)
           c == CutChain(u)
           s == u.fp.fptr
           m == TRUE
           w == Sized(c, s, m)
           a == Abort(w, w.res)
<1>1. f_truncate(v) = IF u.res = "OK" THEN IF u.fp.fptr >= u.fp.size THEN u
                                           ELSE IF w.res # "OK" THEN a ELSE w
                      ELSE u
  BY Zenon DEF f_truncate, Then, With, Sized
<1>2. v \in Good(q) /\ FileOK(v.fp) /\ v.fp.w \in BOOLEAN
  <2>1. v \in Good(q) /\ FileOK(v.fp)
    BY DEF Fine
  <2> QED
    BY <2>1, FilIs DEF FilSet
<1>3. /\ u \in Good(q) /\ u.fp = v.fp
      /\ u.res = "OK" => v.fp.open /\ v.fp.err = "OK"
  BY <1>2, UsableKeeps
<1> HIDE DEF u
<1>4. u \in Fine(q) /\ s \in Nat
  BY <1>2, <1>3, FilIs DEF Fine
<1>5. c \in Good(q) /\ SameSpot(u.fp, c.fp)
  BY <1>3, CutChainKeeps
<1> HIDE DEF c, s
<1>6. m \in BOOLEAN
  OBVIOUS
<1> HIDE DEF m
<1>7. /\ w \in Good(q) /\ w.res = c.res
      /\ w.fp.size = s /\ w.fp.open = c.fp.open /\ w.fp.dsect = c.fp.dsect
      /\ w.fp.err = c.fp.err /\ w.fp.fptr = c.fp.fptr /\ w.fp.sect = c.fp.sect
  BY <1>4, <1>5, <1>6, SizeGoes
<1> HIDE DEF w
<1>8. ASSUME u.res = "OK" PROVE w \in Fine(q) /\ (w.res # "OK" => a \in Fine(q))
  <2>1. /\ w.fp.open /\ w.fp.dsect \in TableArea /\ AtData(w.fp) /\ w.fp.fptr = s /\ w.fp.size = s
    BY <1>2, <1>3, <1>5, <1>7, <1>8 DEF FileOK, SameSpot, AtData, s
  <2>2. w \in Fine(q)
    BY <1>4, <1>7, <2>1 DEF Fine, FileOK
  <2>3. w.res \in Results
    BY <1>7, GoodIs DEF CallSet
  <2> QED
    BY <1>7, <2>1, <2>2, <2>3, AbortFine
<1> HIDE DEF a
<1> QED
  BY <1>1, <1>4, <1>8

-----------------------------------------------------------------------------
(* f_lseek.                                                                *)

(* A cluster begins at a sector, and so does what follows whole sectors. *)
LEMMA ClusterBegins ==
  ASSUME NEW a \in Nat, a % ClusterBytes = 0
  PROVE  /\ a % SectorBytes = 0
         /\ (a + ClusterBytes) % ClusterBytes = 0
         /\ \A o \in Nat : o % SectorBytes = 0 => (a + o) % SectorBytes = 0
<1>1. SectorBytes \in Nat \ {0} /\ ClusterSectors \in Nat \ {0} /\ ClusterBytes \in Nat \ {0}
  BY GeometryAssumption, LayoutIs
<1> DEFINE S == SectorBytes
           C == ClusterSectors
           B == ClusterBytes
           d == a \div B
<1>2. d \in Nat /\ a = B * d
  <2>1. a = B * d + (a % B) /\ d \in Nat
    BY <1>1
  <2>2. a % B = 0
    OBVIOUS
  <2> HIDE DEF d, B
  <2>3. B * d \in Nat
    BY <1>1, <2>1 DEF B
  <2> QED
    BY <2>1, <2>2, <2>3
<1>3. 0 % S = 0
  BY <1>1
<1>4. a % S = 0
  <2> DEFINE k == C * d
  <2>1. k \in Nat
    BY <1>1, <1>2
  <2>2. a = k * S
    <3>1. \A i, j, n \in Nat : (i * j) * n = (j * n) * i
      OBVIOUS
    <3>2. B = S * C
      BY DEF ClusterBytes
    <3> HIDE DEF B, S, C, d
    <3> QED
      BY <1>1, <1>2, <3>1, <3>2 DEF S, C
  <2> HIDE DEF k
  <2>3. (0 + k * S) % S = 0 % S
    BY <1>1, <2>1, ModWhole
  <2>4. 0 + k * S = a
    BY <1>2, <2>2
  <2> QED
    BY <1>3, <2>3, <2>4
<1>5. (a + ClusterBytes) % ClusterBytes = 0
  <2>1. 1 \in Nat
    OBVIOUS
  <2>2. (a + 1 * ClusterBytes) % ClusterBytes = a % ClusterBytes
    BY <1>1, <2>1, ModWhole
  <2>3. 1 * ClusterBytes = ClusterBytes
    BY <1>1
  <2> QED
    BY <2>2, <2>3
<1>6. ASSUME NEW o \in Nat, o % S = 0 PROVE (a + o) % S = 0
  <2> DEFINE k == o \div S
  <2>1. k \in Nat /\ o = S * k
    <3>1. o = S * k + (o % S) /\ k \in Nat
      BY <1>1
    <3> HIDE DEF k
    <3>2. S * k \in Nat
      BY <1>1, <3>1
    <3> QED
      BY <1>6, <3>1, <3>2
  <2> HIDE DEF k
  <2>2. o = k * S
    BY <1>1, <2>1
  <2>3. (a + k * S) % S = a % S
    BY <1>1, <2>1, ModWhole
  <2> QED
    BY <1>4, <2>2, <2>3
<1> QED
  BY <1>4, <1>5, <1>6

Hopped(q, z, u) == /\ u \in Good(q) /\ Held(u.fp) /\ u.fp.err = "OK" /\ u.fp.size = z
                   /\ u.fp.fptr % ClusterBytes = 0
Sought(q, z, u) == /\ u \in Good(q) /\ Held(u.fp) /\ u.fp.err = "OK" /\ u.fp.size = z
                   /\ u.res = "OK"
                   /\ ~AtSector(u) => u.ret \in TableArea

(* A new pointer leaves the rest. *)
LEMMA PtrGoes ==
  ASSUME NEW q \in BOOLEAN, NEW v \in Good(q), NEW a \in Nat
  PROVE  LET w == [v EXCEPT !.fp.fptr = a]
         IN  /\ w \in Good(q) /\ w.res = v.res /\ w.ret = v.ret /\ w.fp.fptr = a
             /\ w.fp.size = v.fp.size /\ w.fp.open = v.fp.open /\ w.fp.dsect = v.fp.dsect
             /\ w.fp.err = v.fp.err /\ w.fp.sect = v.fp.sect /\ w.fp.clust = v.fp.clust
             /\ w.fp.sclust = v.fp.sclust
<1> DEFINE x == [v.fp EXCEPT !.fptr = a]
           y == WithFp(v, x)
           w == [v EXCEPT !.fp.fptr = a]
<1>1. v \in CallSet /\ v.fp \in FilSet
  BY FilIs
<1>2. w = y
  BY <1>1, FpChanges
<1> HIDE DEF w
<1>3. /\ x \in FilSet /\ x.fptr = a /\ x.size = v.fp.size /\ x.open = v.fp.open
      /\ x.dsect = v.fp.dsect /\ x.err = v.fp.err /\ x.sect = v.fp.sect /\ x.clust = v.fp.clust
      /\ x.sclust = v.fp.sclust
  BY <1>1 DEF FilSet
<1> HIDE DEF x
<1>4. y \in Good(q) /\ y.fp = x /\ y.res = v.res /\ y.ret = v.ret
  BY <1>3, FpGoes
<1> HIDE DEF y
<1> QED
  BY <1>2, <1>3, <1>4 DEF w

(* So does a new cluster. *)
LEMMA ClustGoes ==
  ASSUME NEW q \in BOOLEAN, NEW v \in Good(q), NEW c \in FileClusters
  PROVE  LET w == [v EXCEPT !.fp.clust = c]
         IN  /\ w \in Good(q) /\ w.res = v.res /\ w.ret = v.ret /\ SameSpot(v.fp, w.fp)
<1> DEFINE x == [v.fp EXCEPT !.clust = c]
           y == WithFp(v, x)
           w == [v EXCEPT !.fp.clust = c]
<1>1. v \in CallSet /\ v.fp \in FilSet
  BY FilIs
<1>2. w = y
  BY <1>1, FpChanges
<1> HIDE DEF w
<1>3. x \in FilSet /\ SameSpot(v.fp, x)
  BY <1>1 DEF FilSet, SameSpot
<1> HIDE DEF x
<1>4. y \in Good(q) /\ y.fp = x /\ y.res = v.res /\ y.ret = v.ret
  BY <1>3, FpGoes
<1> HIDE DEF y
<1> QED
  BY <1>2, <1>3, <1>4 DEF w

(* A hop of f_lseek along the chain, which it stretches when the file is   *)
(* written, ends on a cluster, with a full card, or aborts,                *)
LEMMA SeekHopKeeps ==
  ASSUME NEW q \in BOOLEAN, NEW z, NEW v, Hopped(q, z, v)
  PROVE  LET w == SeekHop(v)
         IN  Aborted(q, w) \/ (Hopped(q, z, w) /\ w.res \in {GO, "FULL"})
<1> DEFINE p == v.fp.fptr + ClusterBytes
           u == [v EXCEPT !.fp.fptr = p]
           c1 == create_chain(u, v.fp.clust)
           c2 == get_fat(u, v.fp.clust)
           c == IF v.fp.w THEN c1 ELSE c2
           n == Res(c, "FULL")
           b == Abort(c, ClusterError(c.ret))
           k == [c EXCEPT !.fp.clust = c.ret]
           a == Res(k, GO)
<1>1. v \in Good(q) /\ v \in CallSet /\ v.fp \in FilSet /\ v.fp.fptr \in Nat /\ v.fp.clust \in Nat /\ v.fp.clust \in Int
  BY FilIs DEF Hopped
<1>2. SeekHop(v) = IF c.ret = 0 /\ v.fp.w THEN n
                   ELSE IF c.ret \in {0, 1} \/ c.ret >= NFatEnt THEN b ELSE a
  <2> DEFINE u0 == [v EXCEPT !.fp.fptr = @ + ClusterBytes]
             c0 == IF v.fp.w THEN create_chain(u0, v.fp.clust) ELSE get_fat(u0, v.fp.clust)
  <2>1. SeekHop(v) = IF c0.ret = 0 /\ v.fp.w THEN Res(c0, "FULL")
                     ELSE IF c0.ret \in {0, 1} \/ c0.ret >= NFatEnt THEN Abort(c0, ClusterError(c0.ret))
                     ELSE Res([c0 EXCEPT !.fp.clust = c0.ret], GO)
    BY Zenon DEF SeekHop, With, Again
  <2>2. u0 = u
    BY <1>1 DEF CallSet
  <2> HIDE DEF u0, u
  <2>3. c0 = c
    BY <2>2
  <2> HIDE DEF c0, c
  <2> QED
    BY <2>1, <2>3
<1>3. p \in Nat /\ p % ClusterBytes = 0
  <2>1. ClusterBytes \in Nat /\ v.fp.fptr % ClusterBytes = 0
    BY LayoutIs DEF Hopped
  <2> DEFINE f == v.fp.fptr
  <2>2. f \in Nat /\ f % ClusterBytes = 0
    BY <1>1, <2>1
  <2> HIDE DEF f
  <2>3. (f + ClusterBytes) % ClusterBytes = 0 /\ f + ClusterBytes \in Nat
    BY <2>1, <2>2, ClusterBegins
  <2> QED
    BY <2>3 DEF f
<1> HIDE DEF p
<1>4. /\ u \in Good(q) /\ u.fp.fptr = p /\ u.fp.size = v.fp.size /\ u.fp.open = v.fp.open
      /\ u.fp.dsect = v.fp.dsect /\ u.fp.err = v.fp.err
  BY <1>1, <1>3, PtrGoes
<1> HIDE DEF u
<1>5. Went(q, u, c) /\ c \in Good(q) /\ c.ret \in {0, 1, DISKERR} \union RealClusters \union FatValues
  <2>1. Went(q, u, c1) /\ c1 \in Good(q) /\ c1.ret \in {0, 1, DISKERR} \union RealClusters
    BY <1>1, <1>4, CreateChainGoes
  <2>2. Went(q, u, c2) /\ c2 \in Good(q) /\ c2.ret \in FatValues \union {1, DISKERR}
    BY <1>1, <1>4, GetFatGoes
  <2> HIDE DEF c1, c2
  <2> QED
    BY <2>1, <2>2
<1> HIDE DEF c
<1>6. c.fp = u.fp /\ Held(c.fp) /\ Hopped(q, z, c)
  BY <1>3, <1>4, <1>5 DEF Went, SameFile, Hopped, Held
<1>7. Aborted(q, b)
  BY <1>5, <1>6, ClusterErrorIs, AbortKeeps
<1> HIDE DEF b
<1>8. \A x, y : Hopped(q, z, x) /\ y \in Good(q) /\ SameSpot(x.fp, y.fp) => Hopped(q, z, y)
  BY DEF Hopped, SameSpot, Held
<1>9. Hopped(q, z, n) /\ n.res = "FULL"
  <2>1. Went(q, c, n) /\ n \in Good(q) /\ n.res = "FULL"
    BY <1>5, WentSelf, ResGoes, ResultsAre
  <2> HIDE DEF n
  <2> QED
    BY <1>6, <1>8, <2>1 DEF Went, SameFile, SameSpot
<1> HIDE DEF n
<1>10. ASSUME c.ret \notin {0, 1}, ~(c.ret >= NFatEnt) PROVE Hopped(q, z, a) /\ a.res = GO
  <2>1. c.ret \in FileClusters
    <3>1. DISKERR >= NFatEnt
      BY LayoutIs DEF DISKERR
    <3> QED
      BY <1>5, <1>10, <3>1, NumbersApart DEF FileClusters
  <2>2. k \in Good(q) /\ SameSpot(c.fp, k.fp)
    BY <1>5, <2>1, ClustGoes
  <2> HIDE DEF k
  <2>3. Went(q, k, a) /\ a \in Good(q) /\ a.res = GO
    BY <2>2, WentSelf, ResGoes, ResultsAre
  <2> HIDE DEF a
  <2>4. SameSpot(c.fp, a.fp)
    BY <2>2, <2>3 DEF Went, SameFile
  <2> QED
    BY <1>6, <1>8, <2>3, <2>4
<1> HIDE DEF a
<1> QED
  BY <1>2, <1>7, <1>9, <1>10

(* The hops of SeekOn. *)
Hops(v, n) == Rounds(v, LAMBDA u, k : SeekHop(u), n, "OK")

(* And so do all the hops. *)
LEMMA HopsKeep ==
  ASSUME NEW q \in BOOLEAN, NEW z, NEW v, Hopped(q, z, v), NEW hops \in Nat
  PROVE  LET w == Hops(v, hops)
         IN  Aborted(q, w) \/ (Hopped(q, z, w) /\ w.res \in {"OK", "FULL"})
<1> DEFINE n == hops
           a == Again(v)
           V == {u \in Good(q) : Aborted(q, u) \/ (Hopped(q, z, u) /\ u.res \in {GO, "FULL"})}
           B(u, k) == IF u.res = GO THEN SeekHop(u) ELSE u
           F(h) == [k \in 0..n |-> IF k = 0 THEN a ELSE B(h[k - 1], k)]
           at == CHOOSE h : h = F(h)
           G == [p \in V \X (1..n) |-> B(p[1], p[2])]
<1>0. \A x, y : Hopped(q, z, x) /\ Went(q, x, y) => Hopped(q, z, y)
  BY DEF Hopped, Went, SameFile
<1>1. n \in Nat /\ a \in V
  <2>1. v \in Good(q)
    BY DEF Hopped
  <2>2. Went(q, v, a) /\ a \in Good(q) /\ a.res = GO
    BY <2>1, AgainGoes
  <2> HIDE DEF a
  <2> QED
    BY <1>0, <2>2
<1>2. \A u \in V, k \in 1..n : B(u, k) \in V
  <2>1. ASSUME NEW u \in V, NEW k \in 1..n PROVE B(u, k) \in V
    <3> DEFINE w == SeekHop(u)
    <3>1. u.res = GO => Hopped(q, z, u)
      BY DEF Aborted
    <3>2. u.res = GO => Aborted(q, w) \/ (Hopped(q, z, w) /\ w.res \in {GO, "FULL"})
      BY <3>1, SeekHopKeeps
    <3> HIDE DEF w
    <3>3. u.res = GO => w \in V
      BY <3>2 DEF Aborted, Hopped
    <3> HIDE DEF V
    <3> QED
      BY <3>3 DEF w
  <2> HIDE DEF V
  <2> QED
    BY <2>1
<1>3. Hops(v, hops) = IF at[n].res = GO THEN Res(at[n], "OK") ELSE at[n]
  BY Zenon DEF Hops, Rounds, With
<1> HIDE DEF a, V, B, n
<1>4. G \in [V \X (1..n) -> V] /\ \A u \in V, k \in 1..n : G[<<u, k>>] = B(u, k)
  BY <1>2
<1> HIDE DEF G
<1>5. PICK g \in [0..n -> V] : Runs(g, V, a, G, n)
  BY <1>1, <1>4, LoopRuns, Zenon
<1>6. g = F(g)
  <2>1. \A k \in 1..n : g[k] = B(g[k - 1], k)
    BY <1>4, <1>5, Zenon DEF Runs
  <2>2. \A k \in 0..n : g[k] = IF k = 0 THEN a ELSE B(g[k - 1], k)
    BY <1>5, <2>1 DEF Runs
  <2> QED
    BY <2>2
<1>7. at = F(at)
  BY <1>6
<1> HIDE DEF at
<1>8. at[0] = a /\ \A k \in 1..n : at[k] = B(at[k - 1], k)
  BY <1>1, <1>7
<1>9. at[n] \in V
  <2>1. \A k \in 1..n : at[k - 1] \in V => at[k] \in V
    BY <1>2, <1>8, Zenon
  <2> QED
    BY <1>1, <1>8, <2>1, LoopStays, Zenon
<1> DEFINE e == at[n]
<1>10. e \in V /\ Hops(v, hops) = IF e.res = GO THEN Res(e, "OK") ELSE e
  BY <1>3, <1>9
<1> HIDE DEF e
<1> DEFINE y == Res(e, "OK")
<1>11. e \in Good(q) /\ (Aborted(q, e) \/ (Hopped(q, z, e) /\ e.res \in {GO, "FULL"}))
  BY <1>10 DEF V
<1>12. Went(q, e, y) /\ y.res = "OK"
  BY <1>11, WentSelf, ResGoes, ResultsAre
<1>13. Hops(v, hops) = IF e.res = GO THEN y ELSE e
  BY <1>10
<1> HIDE DEF y
<1>14. e.res = GO => Hopped(q, z, y)
  BY <1>0, <1>11, <1>12 DEF Aborted
<1> DEFINE w == Hops(v, hops)
<1>15. w = IF e.res = GO THEN y ELSE e
  BY <1>13
<1> HIDE DEF w
<1>16. Aborted(q, w) \/ (Hopped(q, z, w) /\ w.res \in {"OK", "FULL"})
  BY <1>11, <1>12, <1>14, <1>15
<1> QED
  BY <1>16 DEF w

(* Inside the last cluster the sector of the byte is known. *)
LEMMA SeekInKeeps ==
  ASSUME NEW q \in BOOLEAN, NEW z, NEW v, Hopped(q, z, v), NEW ofs \in 1 .. ClusterBytes
  PROVE  LET w == SeekIn(v, ofs)
         IN  Aborted(q, w) \/ Sought(q, z, w)
<1> DEFINE top == clst2sect(v.fp.clust)
           p == v.fp.fptr + ofs
           u == [v EXCEPT !.fp.fptr = p]
           i == ofs \div SectorBytes
           s == top + i
           zero == 0
           a == Ret(u, zero)
           b == Abort(u, "INT_ERR")
           c == Ret(u, s)
<1>1. /\ v \in Good(q) /\ v \in CallSet /\ v.fp \in FilSet /\ v.fp.fptr \in Nat /\ v.fp.clust \in FileClusters
  BY FilIs DEF Hopped
<1>2. SeekIn(v, ofs) = IF ofs % SectorBytes = 0 THEN a ELSE IF top = 0 THEN b ELSE c
  <2> DEFINE u0 == [v EXCEPT !.fp.fptr = @ + ofs]
  <2>1. SeekIn(v, ofs) = IF ofs % SectorBytes = 0 THEN Ret(u0, 0) ELSE IF top = 0 THEN Abort(u0, "INT_ERR")
                         ELSE Ret(u0, top + ofs \div SectorBytes)
    BY Zenon DEF SeekIn
  <2>2. u0 = u
    BY <1>1 DEF CallSet
  <2> HIDE DEF u0, u
  <2> QED
    BY <2>1, <2>2
<1>3. ofs \in Nat /\ ClusterBytes \in Nat /\ p \in Nat
  BY <1>1, LayoutIs
<1>4. ofs % SectorBytes = 0 => p % SectorBytes = 0
  <2> DEFINE f == v.fp.fptr
  <2>1. f \in Nat /\ f % ClusterBytes = 0
    BY <1>1 DEF Hopped
  <2> HIDE DEF f
  <2>2. ofs % SectorBytes = 0 => (f + ofs) % SectorBytes = 0
    BY <1>3, <2>1, ClusterBegins
  <2> QED
    BY <2>2 DEF f
<1>5. i \in Nat /\ (ofs % SectorBytes # 0 => i \in 0 .. ClusterSectors - 1)
  <2> DEFINE S == SectorBytes
             C == ClusterSectors
             r == ofs % S
  <2>1. S \in Nat \ {0} /\ C \in Nat \ {0} /\ ClusterBytes = S * C
    BY GeometryAssumption DEF ClusterBytes
  <2>2. ofs = S * i + r /\ i \in Nat /\ r \in 0 .. S - 1
    BY <1>3, <2>1
  <2>3. ofs <= S * C
    BY <2>1
  <2> HIDE DEF i, r, S, C
  <2>4. r # 0 => i < C
    <3>1. SUFFICES ASSUME r # 0, C <= i PROVE FALSE
      BY <2>1, <2>2
    <3>2. \A x, y, n \in Nat : x <= y => n * x <= n * y
      OBVIOUS
    <3>3. S * C <= S * i /\ S * C \in Nat /\ S * i \in Nat
      BY <2>1, <2>2, <3>1, <3>2
    <3> QED
      BY <2>2, <2>3, <3>1, <3>3
  <2> QED
    BY <2>1, <2>2, <2>4 DEF r, S, C
<1> HIDE DEF p, i
<1>6. top # 0 => top \in Nat /\ \A j \in 0 .. ClusterSectors - 1 : top + j \in TableArea
  BY <1>1, InCluster
<1> HIDE DEF top
<1>7. /\ u \in Good(q) /\ u.fp.fptr = p /\ u.fp.size = v.fp.size /\ u.fp.open = v.fp.open
      /\ u.fp.dsect = v.fp.dsect /\ u.fp.err = v.fp.err
  BY <1>1, <1>3, PtrGoes
<1> HIDE DEF u
<1>8. Held(u.fp) /\ u.fp.err = "OK" /\ u.fp.size = z
  BY <1>7 DEF Hopped, Held
<1>9. Aborted(q, b)
  BY <1>7, <1>8, AbortKeeps
<1> HIDE DEF b
<1>10. ASSUME ofs % SectorBytes = 0 PROVE Sought(q, z, a)
  <2>1. zero \in Nat
    OBVIOUS
  <2> HIDE DEF zero
  <2>2. Went(q, u, a) /\ a \in Good(q) /\ a.res = "OK"
    BY <1>7, <2>1, WentSelf, RetGoes
  <2> HIDE DEF a
  <2>3. a.fp = u.fp /\ AtSector(a)
    BY <1>4, <1>7, <1>10, <2>2 DEF Went, SameFile, AtSector
  <2> QED
    BY <1>8, <2>2, <2>3 DEF Sought
<1>11. ASSUME ofs % SectorBytes # 0, top # 0 PROVE Sought(q, z, c)
  <2>1. s \in TableArea /\ s \in Nat
    BY <1>5, <1>6, <1>11
  <2> HIDE DEF s
  <2>2. Went(q, u, c) /\ c \in Good(q) /\ c.res = "OK" /\ c.ret = s
    BY <1>7, <2>1, WentSelf, RetGoes
  <2> HIDE DEF c
  <2> QED
    BY <1>8, <2>1, <2>2 DEF Sought, Went, SameFile
<1> HIDE DEF a, c
<1> QED
  BY <1>2, <1>9, <1>10, <1>11

(* From any pointer at the start of a cluster f_lseek gets there, *)
LEMMA SeekOnKeeps ==
  ASSUME NEW q \in BOOLEAN, NEW z, NEW v, Hopped(q, z, v), NEW ofs \in Nat \ {0}
  PROVE  LET w == SeekOn(v, ofs)
         IN  Aborted(q, w) \/ Sought(q, z, w)
<1> DEFINE hops == (ofs - 1) \div ClusterBytes
           h == Hops(v, hops)
           zero == 0
           f == Ret(h, zero)
           o == ofs - hops * ClusterBytes
           i == SeekIn(h, o)
<1>1. SeekOn(v, ofs) = IF h.res = "FULL" THEN f ELSE IF h.res = "OK" THEN i ELSE h
  BY Zenon DEF SeekOn, Hops, With, Then
<1>2. hops \in Nat /\ o \in 1 .. ClusterBytes
  <2> DEFINE B == ClusterBytes
             k == ofs - 1
             r == k % B
  <2>1. B \in Nat \ {0} /\ k \in Nat
    BY LayoutIs
  <2>2. hops \in Nat /\ r \in 0 .. B - 1 /\ k = B * hops + r
    <3> HIDE DEF k, B
    <3> QED
      BY <2>1 DEF k, B
  <2>3. B * hops = hops * B /\ hops * B \in Nat
    BY <2>1, <2>2
  <2>4. o = ofs - hops * B
    OBVIOUS
  <2> DEFINE n == hops * B
  <2>5. n \in Nat /\ k = n + r /\ o = ofs - n
    BY <2>2, <2>3, <2>4
  <2> HIDE DEF n, o, r, B, hops
  <2>6. o = r + 1 /\ o \in 1 .. B
    BY <2>1, <2>2, <2>5
  <2> QED
    BY <2>2, <2>6 DEF B
<1> HIDE DEF hops, o
<1>3. Aborted(q, h) \/ (Hopped(q, z, h) /\ h.res \in {"OK", "FULL"})
  BY <1>2, HopsKeep
<1> HIDE DEF h
<1>4. ASSUME h.res = "FULL" PROVE Sought(q, z, f)
  <2>1. zero \in Nat
    OBVIOUS
  <2> HIDE DEF zero
  <2>2. Hopped(q, z, h) /\ h \in Good(q) /\ h.fp.fptr \in Nat
    BY <1>3, <1>4, FilIs DEF Aborted, Hopped
  <2>3. Went(q, h, f) /\ f \in Good(q) /\ f.res = "OK"
    BY <2>1, <2>2, WentSelf, RetGoes
  <2> HIDE DEF f
  <2>4. AtSector(f)
    <3>1. h.fp.fptr % SectorBytes = 0
      BY <2>2, ClusterBegins DEF Hopped
    <3> QED
      BY <2>3, <3>1 DEF Went, SameFile, AtSector
  <2> QED
    BY <2>2, <2>3, <2>4 DEF Sought, Hopped, Went, SameFile
<1> HIDE DEF f
<1>5. ASSUME h.res = "OK" PROVE Aborted(q, i) \/ Sought(q, z, i)
  <2>1. Hopped(q, z, h)
    BY <1>3, <1>5 DEF Aborted
  <2> QED
    BY <1>2, <2>1, SeekInKeeps
<1> HIDE DEF i
<1> QED
  BY <1>1, <1>3, <1>4, <1>5

(* From the start of the file too, *)
LEMMA SeekFromTopKeeps ==
  ASSUME NEW q \in BOOLEAN, NEW z, NEW v, Hopped(q, z, v), v.fp.fptr = 0, NEW ofs \in Nat \ {0}
  PROVE  LET w == SeekFromTop(v, ofs)
         IN  Aborted(q, w) \/ Sought(q, z, w)
<1> DEFINE h == create_chain(v, 0)
           r == Ret(v, v.fp.sclust)
           c == IF v.fp.sclust = 0 THEN h ELSE r
           b == Abort(c, ClusterError(c.ret))
           y == [c EXCEPT !.fp.sclust = c.ret]
           new == [y EXCEPT !.fp.clust = c.ret]
           s == SeekOn(new, ofs)
<1>1. v \in Good(q) /\ v.fp.sclust \in Nat /\ v.fp.sclust \in ClusterNos /\ v.fp.fptr % SectorBytes = 0
  <2>1. v \in Good(q)
    BY DEF Hopped
  <2>2. v.fp.fptr % ClusterBytes = 0 /\ v.fp.fptr \in Nat
    BY DEF Hopped
  <2> QED
    BY <2>1, <2>2, FilIs, ClusterBegins
<1>2. SeekFromTop(v, ofs) = IF c.ret \in {1, DISKERR} THEN b ELSE IF c.ret = 0 THEN new ELSE s
  <2> DEFINE n0 == [c EXCEPT !.fp.sclust = c.ret, !.fp.clust = c.ret]
  <2>1. SeekFromTop(v, ofs) = IF c.ret \in {1, DISKERR} THEN b
                              ELSE IF c.ret = 0 THEN n0 ELSE SeekOn(n0, ofs)
    BY Zenon DEF SeekFromTop, With
  <2>2. n0 = new
    OBVIOUS
  <2> HIDE DEF new, n0, c, b
  <2> QED
    BY <2>1, <2>2
<1>3. /\ Went(q, v, c) /\ c \in Good(q) /\ c.res = "OK"
      /\ c.ret \in {0, 1, DISKERR} \union RealClusters \union ClusterNos
  <2>1. Went(q, v, h) /\ h \in Good(q) /\ h.res = "OK" /\ h.ret \in {0, 1, DISKERR} \union RealClusters
    BY <1>1, CreateChainGoes
  <2>2. Went(q, v, r) /\ r \in Good(q) /\ r.ret = v.fp.sclust /\ r.res = "OK"
    BY <1>1, WentSelf, RetGoes
  <2> HIDE DEF h, r
  <2> QED
    BY <1>1, <2>1, <2>2
<1> HIDE DEF c
<1>4. c.fp = v.fp /\ Hopped(q, z, c) /\ Held(c.fp)
  BY <1>3 DEF Went, SameFile, Hopped
<1>5. Aborted(q, b)
  BY <1>3, <1>4, ClusterErrorIs, AbortKeeps
<1> HIDE DEF b
<1>6. ASSUME c.ret \notin {1, DISKERR}
      PROVE  Hopped(q, z, new) /\ new.res = "OK" /\ new.fp.fptr = 0
  <2>1. c.ret \in FileClusters /\ c.ret \in ClusterNos
    <3>1. \A i \in ClusterNos : i = 0 \/ i = 1 \/ i \in RealClusters
      BY LayoutIs DEF ClusterNos, RealClusters
    <3>2. \A i \in RealClusters : i \in ClusterNos /\ i \in FatValues
      BY NumbersApart
    <3>3. 0 \in FatValues /\ 0 \in ClusterNos
      BY NumbersApart, LayoutIs DEF ClusterNos
    <3> QED
      BY <1>3, <1>6, <3>1, <3>2, <3>3 DEF FileClusters
  <2>2. y \in Good(q) /\ y.res = c.res /\ SameSpot(c.fp, y.fp)
    BY <1>3, <2>1, SclustGoes
  <2> HIDE DEF y
  <2>3. new \in Good(q) /\ new.res = y.res /\ SameSpot(y.fp, new.fp)
    BY <2>1, <2>2, ClustGoes
  <2> HIDE DEF new
  <2> QED
    BY <1>3, <1>4, <2>2, <2>3 DEF Hopped, SameSpot, Held
<1> HIDE DEF new
<1>7. ASSUME c.ret \notin {1, DISKERR} PROVE Aborted(q, s) \/ Sought(q, z, s)
  BY <1>6, <1>7, SeekOnKeeps
<1> HIDE DEF s
<1>8. ASSUME c.ret \notin {1, DISKERR} PROVE Sought(q, z, new)
  <2>1. AtSector(new)
    BY <1>1, <1>6, <1>8 DEF AtSector
  <2> QED
    BY <1>6, <1>8, <2>1 DEF Sought, Hopped
<1> QED
  BY <1>2, <1>5, <1>7, <1>8

(* And from where it is. *)
LEMMA SeekToKeeps ==
  ASSUME NEW q \in BOOLEAN, NEW v \in Good(q), Held(v.fp), v.fp.err = "OK", NEW ofs \in Nat
  PROVE  LET w == SeekTo(v, ofs)
         IN  Aborted(q, w) \/ Sought(q, v.fp.size, w)
<1> DEFINE z == v.fp.size
           last == v.fp.fptr - 1
           here == last - (last % ClusterBytes)
           zero == 0
           t == [v EXCEPT !.fp.fptr = zero]
           x == [v EXCEPT !.fp.fptr = here]
           o == ofs - here
           a == Ret(t, zero)
           s == SeekOn(x, o)
           r == SeekFromTop(t, ofs)
<1>1. SeekTo(v, ofs) = IF ofs = 0 THEN a
                       ELSE IF last >= 0 /\ (ofs - 1) \div ClusterBytes >= last \div ClusterBytes THEN s ELSE r
  BY Zenon DEF SeekTo
<1>2. v.fp.fptr \in Nat /\ ClusterBytes \in Nat \ {0} /\ SectorBytes \in Nat \ {0}
  BY FilIs, LayoutIs, GeometryAssumption
<1>3. zero \in Nat /\ zero = 0 /\ zero % SectorBytes = 0 /\ zero % ClusterBytes = 0
  BY <1>2
<1> HIDE DEF zero
<1>4. /\ t \in Good(q) /\ t.fp.fptr = zero /\ t.fp.size = v.fp.size /\ t.fp.open = v.fp.open
      /\ t.fp.dsect = v.fp.dsect /\ t.fp.err = v.fp.err
  BY <1>3, PtrGoes
<1> HIDE DEF t
<1>5. Hopped(q, z, t)
  BY <1>3, <1>4 DEF Hopped, Held
<1>6. Sought(q, z, a)
  <2>1. Went(q, t, a) /\ a \in Good(q) /\ a.res = "OK"
    BY <1>3, <1>4, WentSelf, RetGoes
  <2> HIDE DEF a
  <2>2. AtSector(a)
    BY <1>3, <1>4, <2>1 DEF Went, SameFile, AtSector
  <2> QED
    BY <1>5, <2>1, <2>2 DEF Sought, Hopped, Went, SameFile
<1> HIDE DEF a
<1>7. ofs # 0 => Aborted(q, r) \/ Sought(q, z, r)
  BY <1>3, <1>4, <1>5, SeekFromTopKeeps
<1> HIDE DEF r
<1>8. ASSUME ofs # 0, last >= 0, (ofs - 1) \div ClusterBytes >= last \div ClusterBytes
      PROVE  Aborted(q, s) \/ Sought(q, z, s)
  <2> DEFINE B == ClusterBytes
             k == last \div B
             m == last % B
             i == (ofs - 1) \div B
             n == (ofs - 1) % B
  <2>1. B \in Nat \ {0} /\ last \in Nat /\ ofs - 1 \in Nat
    BY <1>2, <1>8
  <2>2. k \in Nat /\ m \in 0 .. B - 1 /\ last = B * k + m /\ B * k \in Nat
    <3> HIDE DEF last, B
    <3>1. k \in Nat /\ m \in 0 .. B - 1 /\ last = B * k + m
      BY <2>1
    <3> HIDE DEF k
    <3> QED
      BY <2>1, <3>1
  <2>3. i \in Nat /\ n \in 0 .. B - 1 /\ ofs - 1 = B * i + n /\ B * i \in Nat
    <3> DEFINE j == ofs - 1
    <3> HIDE DEF j, B
    <3>1. j \div B \in Nat /\ j % B \in 0 .. B - 1 /\ j = B * (j \div B) + (j % B)
      BY <2>1 DEF j
    <3>2. B * (j \div B) \in Nat
      BY <2>1, <3>1
    <3> QED
      BY <3>1, <3>2 DEF j
  <2>4. k <= i
    BY <1>8, <2>2, <2>3
  <2>5. here = last - m
    OBVIOUS
  <2> HIDE DEF here, last, k, m, i, n, B
  <2>6. here = B * k /\ here \in Nat
    BY <2>1, <2>2, <2>5
  <2>7. here % B = 0
    <3>1. (0 + k * B) % B = 0 % B
      BY <2>1, <2>2, ModWhole
    <3>2. 0 + k * B = B * k /\ 0 % B = 0
      BY <2>1, <2>2
    <3> QED
      BY <2>6, <3>1, <3>2
  <2>8. here <= ofs - 1
    <3>1. \A x1, y1, w1 \in Nat : x1 <= y1 => w1 * x1 <= w1 * y1
      OBVIOUS
    <3>2. B * k <= B * i
      BY <2>1, <2>2, <2>3, <2>4, <3>1
    <3> QED
      BY <2>2, <2>3, <2>6, <3>2
  <2>9. o \in Nat \ {0}
    BY <2>1, <2>6, <2>8
  <2> HIDE DEF o
  <2>10. /\ x \in Good(q) /\ x.fp.fptr = here /\ x.fp.size = v.fp.size /\ x.fp.open = v.fp.open
         /\ x.fp.dsect = v.fp.dsect /\ x.fp.err = v.fp.err
    BY <2>6, PtrGoes
  <2> HIDE DEF x
  <2>11. Hopped(q, z, x)
    BY <2>7, <2>10 DEF Hopped, Held, B
  <2> QED
    BY <2>9, <2>11, SeekOnKeeps
<1> HIDE DEF s, last
<1> QED
  BY <1>1, <1>6, <1>7, <1>8

(* F_lseek to any offset leaves the pointer within the size, and on a      *)
(* sector of the file's, keeps the count right and the copies of the FAT   *)
(* the same, on a full card too.                                           *)
THEOREM FLseekKeeps ==
  ASSUME NEW q \in BOOLEAN, NEW v \in Fine(q), NEW ofs \in Nat
  PROVE  f_lseek(v, ofs) \in Fine(q)
<1> DEFINE size == v.fp.size
           u == Usable(v, TRUE)
           o == IF ofs > size /\ ~v.fp.w THEN size ELSE ofs
           s == SeekTo(u, o)
           m == TRUE
           p == s.fp.fptr
           g == Sized(s, p, m)
           w == IF p > size THEN g ELSE s
           x == [w EXCEPT !.fp.sect = s.ret]
<1>1. f_lseek(v, ofs) = IF u.res = "OK" THEN IF s.res = "OK" THEN IF AtSector(s) THEN w ELSE x ELSE s ELSE u
  BY Zenon DEF f_lseek, Then, With, Sized
<1>2. v \in Good(q) /\ FileOK(v.fp) /\ size \in Nat
  <2>1. v \in Good(q) /\ FileOK(v.fp)
    BY DEF Fine
  <2> QED
    BY <2>1, FilIs
<1>3. /\ u \in Good(q) /\ u.fp = v.fp
      /\ u.res = "OK" => v.fp.open /\ v.fp.err = "OK"
  BY <1>2, UsableKeeps
<1> HIDE DEF u
<1>4. u \in Fine(q) /\ o \in Nat
  BY <1>2, <1>3 DEF Fine
<1> HIDE DEF o
<1>5. m \in BOOLEAN
  OBVIOUS
<1> HIDE DEF m
<1>6. ASSUME u.res = "OK"
      PROVE  /\ s.res # "OK" => s \in Fine(q)
             /\ s.res = "OK" => (AtSector(s) => w \in Fine(q)) /\ (~AtSector(s) => x \in Fine(q))
  <2>1. Held(u.fp) /\ u.fp.err = "OK"
    BY <1>2, <1>3, <1>6 DEF FileOK, Held
  <2>2. Aborted(q, s) \/ Sought(q, size, s)
    BY <1>3, <1>4, <2>1, SeekToKeeps
  <2> HIDE DEF s
  <2>3. Aborted(q, s) => s \in Fine(q) /\ s.res # "OK"
    BY DEF Aborted, Fine, FileOK, Held
  <2>4. ASSUME Sought(q, size, s)
        PROVE  s.res = "OK" /\ (AtSector(s) => w \in Fine(q)) /\ (~AtSector(s) => x \in Fine(q))
    <3>1. s \in Good(q) /\ p \in Nat /\ s.fp.size = size
      BY <2>4, FilIs DEF Sought
    <3> HIDE DEF p
    <3>2. /\ g \in Good(q)
          /\ g.fp.size = p /\ g.fp.open = s.fp.open /\ g.fp.dsect = s.fp.dsect
          /\ g.fp.err = s.fp.err /\ g.fp.fptr = s.fp.fptr /\ g.fp.sect = s.fp.sect
      BY <1>5, <3>1, SizeGoes
    <3> HIDE DEF g
    <3>3. /\ w \in Good(q) /\ w.fp.fptr = s.fp.fptr /\ w.fp.fptr <= w.fp.size
          /\ w.fp.open /\ w.fp.dsect \in TableArea /\ w.fp.err = "OK"
      <4>1. s.fp.open /\ s.fp.dsect \in TableArea /\ s.fp.err = "OK" /\ s.fp.fptr = p
        BY <2>4 DEF Sought, Held, p
      <4> HIDE DEF size
      <4>2. size \in Nat
        BY <1>2
      <4>3. CASE p > size
        <5>1. w = g
          BY <4>3
        <5> HIDE DEF w
        <5>2. /\ w \in Good(q) /\ w.fp.fptr = s.fp.fptr /\ w.fp.fptr = p /\ w.fp.size = p
              /\ w.fp.open /\ w.fp.dsect \in TableArea /\ w.fp.err = "OK"
          BY <3>2, <4>1, <5>1
        <5>3. p <= p
          BY <3>1
        <5> QED
          BY <5>2, <5>3
      <4>4. CASE ~(p > size)
        <5>1. w = s
          BY <4>4
        <5> HIDE DEF w
        <5> QED
          BY <3>1, <4>1, <4>2, <4>4, <5>1
      <4> QED
        BY <4>3, <4>4
    <3> HIDE DEF w
    <3>4. AtSector(s) => w \in Fine(q)
      BY <3>3 DEF AtSector, Fine, FileOK, AtData
    <3>5. ASSUME ~AtSector(s) PROVE x \in Fine(q)
      <4> DEFINE t == s.ret
      <4>1. t \in TableArea
        BY <2>4, <3>5 DEF Sought
      <4> HIDE DEF t
      <4> DEFINE y == [w EXCEPT !.fp.sect = t]
      <4>2. /\ y \in Good(q) /\ y.fp.sect = t /\ y.fp.open = w.fp.open /\ y.fp.dsect = w.fp.dsect
            /\ y.fp.err = w.fp.err /\ y.fp.fptr = w.fp.fptr /\ y.fp.size = w.fp.size
        <5>1. w \in Good(q)
          BY <3>3
        <5> QED
          BY <4>1, <5>1, SectGoes
      <4>3. x = y
        BY DEF t
      <4> HIDE DEF x, y
      <4> QED
        BY <3>3, <4>1, <4>2, <4>3 DEF Fine, FileOK, AtData
    <3> HIDE DEF x
    <3>6. s.res = "OK"
      BY <2>4 DEF Sought
    <3> QED
      BY <3>4, <3>5, <3>6
  <2> HIDE DEF w, x
  <2> QED
    BY <2>2, <2>3, <2>4
<1> HIDE DEF s, w, x
<1> QED
  BY <1>1, <1>4, <1>6

-----------------------------------------------------------------------------
(* f_open.  A call whose window is at a sector of the tables.              *)
FoundEntry(q, w) == /\ w \in Good(q) /\ w.fp.open = FALSE
                    /\ w.res = "OK" => w.fs.winsect \in TableArea

(* The hint for the next search may be set. *)
LEMMA LastGoes ==
  ASSUME NEW q \in BOOLEAN, NEW u \in Good(q), NEW c \in Nat
  PROVE  LET w == [u EXCEPT !.fs.last = c]
         IN  w \in Good(q) /\ w.res = u.res /\ w.fs.winsect = u.fs.winsect /\ w.fp = u.fp
<1> DEFINE f == u.fs
           g == [f EXCEPT !.last = c]
           w == [u EXCEPT !.fs = g]
<1>1. u \in Steady(q) /\ f \in Volumes /\ u \in CallSet
  BY GoodIs
<1>2. /\ g \in Volumes /\ g.free = f.free
      /\ g.reg = f.reg /\ g.type = f.type /\ g.win = f.win
      /\ g.winsect = f.winsect /\ g.wflag = f.wflag
  BY <1>1, SetNumber
<1>3. [u EXCEPT !.fs.last = c] = w
  BY Zenon
<1> HIDE DEF g
<1>4. w \in Steady(q) /\ w.fs = g /\ w.res = u.res /\ SameRest(u, w) /\ SameFat(u, w)
  BY <1>1, <1>2, NumbersChanged
<1> HIDE DEF w
<1>5. w \in Good(q)
  BY <1>1, <1>2, <1>4, SameCount
<1> QED
  BY <1>2, <1>3, <1>4, <1>5 DEF SameRest, SameWork

(* F_open of a file that is to be emptied resets the entry first and frees *)
(* the chain then.                                                         *)
LEMMA ResetEntryKeeps ==
  ASSUME NEW q \in BOOLEAN, NEW v \in Good(q), v.fs.winsect \in TableArea, v.fp.open = FALSE
  PROVE  FoundEntry(q, ResetEntry(v))
<1> DEFINE cl == dir(v).cl
           n == Entry(dir(v).nm, FALSE, FALSE, 0, 0)
           s == SetDir(v, n)
           e == [s EXCEPT !.fp.mod = TRUE]
           r == remove_chain(e, cl, 0)
           m == move_window(r, e.fs.winsect)
           l == [m EXCEPT !.fs.last = cl - 1]
<1>1. ResetEntry(v) = IF cl = 0 THEN e ELSE IF r.res = "OK" THEN l ELSE r
  BY Zenon DEF ResetEntry, With, Then
<1>2. dir(v) \in EntrySet /\ cl \in ClusterNos /\ dir(v).nm \in Words
  BY DirIs DEF EntrySet
<1>3. n \in EntrySet
  <2>1. 0 \in ClusterNos
    BY LayoutIs DEF ClusterNos
  <2> QED
    BY <1>2, <2>1, EntryIs
<1> HIDE DEF n
<1>4. s \in Good(q) /\ s.fs.winsect = v.fs.winsect /\ s.fp.open = FALSE
  <2>1. s \in Good(q) /\ s.fs.winsect = v.fs.winsect /\ Went(q, v, s)
    BY <1>3, SetDirKeeps
  <2> HIDE DEF s
  <2> QED
    BY <2>1 DEF Went, SameFile
<1> HIDE DEF s
<1>5. e \in Good(q) /\ e.fs = s.fs /\ e.fp.open = FALSE
  <2>1. e \in Good(q) /\ e.fs = s.fs /\ SameSpot(s.fp, e.fp)
    BY <1>4, ModGoes
  <2> HIDE DEF e
  <2> QED
    BY <1>4, <2>1 DEF SameSpot
<1> HIDE DEF e
<1>6. e.fs.winsect \in TableArea /\ e.fs.winsect \in WinSects
  BY <1>4, <1>5, AreasApart
<1>7. r \in Good(q) /\ r.fp.open = FALSE
  <2>1. cl \in Nat
    BY <1>2, LayoutIs DEF ClusterNos
  <2> HIDE DEF cl
  <2>2. Went(q, e, e)
    BY <1>5, WentSelf
  <2>3. Went(q, e, r) /\ r \in Good(q)
    BY <2>1, <2>2, RemoveChainGoes
  <2> HIDE DEF r
  <2> QED
    BY <1>5, <2>3 DEF Went, SameFile
<1> HIDE DEF r
<1>8. m \in Good(q) /\ (m.res = "OK" => m.fs.winsect = e.fs.winsect) /\ m.fp.open = FALSE
  <2>1. Went(q, r, m) /\ m \in Good(q) /\ (m.res = "OK" => m.fs.winsect = e.fs.winsect)
    BY <1>6, <1>7, MoveGoes
  <2> HIDE DEF m
  <2> QED
    BY <1>7, <2>1 DEF Went, SameFile
<1> HIDE DEF m
<1>9. cl # 0 => l \in Good(q) /\ l.res = m.res /\ l.fs.winsect = m.fs.winsect /\ l.fp = m.fp
  <2>1. SUFFICES ASSUME cl # 0
                 PROVE  l \in Good(q) /\ l.res = m.res /\ l.fs.winsect = m.fs.winsect /\ l.fp = m.fp
    OBVIOUS
  <2> DEFINE c == cl - 1
  <2>2. c \in Nat
    BY <1>2, <2>1, LayoutIs DEF ClusterNos
  <2> HIDE DEF c
  <2>3. LET w == [m EXCEPT !.fs.last = c]
        IN  w \in Good(q) /\ w.res = m.res /\ w.fs.winsect = m.fs.winsect /\ w.fp = m.fp
    BY <1>8, <2>2, LastGoes
  <2> QED
    BY <2>3 DEF c
<1> HIDE DEF l, cl
<1> QED
  BY <1>1, <1>5, <1>6, <1>7, <1>8, <1>9 DEF FoundEntry

(* An error ends the search for the entry. *)
LEMMA EnteredRes ==
  ASSUME NEW q \in BOOLEAN, NEW u \in Good(q), u.fp.open = FALSE, NEW r \in Results \ {"OK"}
  PROVE  FoundEntry(q, Res(u, r))
<1> DEFINE z == Res(u, r)
<1>1. Went(q, u, z) /\ z \in Good(q) /\ z.res = r
  BY WentSelf, ResGoes
<1> HIDE DEF z
<1> QED
  BY <1>1 DEF FoundEntry, Went, SameFile, z

(* An entry's sector is a table's. *)
LEMMA OnEntryIs ==
  ASSUME NEW q \in BOOLEAN, NEW u \in Good(q), OnEntry(u)
  PROVE  u.fs.winsect \in TableArea
<1>1. u.dp \in DirSet
  BY GoodIs
<1>2. InTable(u.dp) /\ u.fs.winsect = u.dp.sect
  BY DEF OnEntry
<1> DEFINE x == u.dp
<1>3. x \in DirSet /\ InTable(x)
  BY <1>1, <1>2
<1> HIDE DEF x
<1>4. x.sect \in TableArea
  BY <1>3, InTableIs
<1> QED
  BY <1>2, <1>4 DEF x

(* What follow_path reached is an entry in the window. *)
LEMMA ReachedEntered ==
  ASSUME NEW q \in BOOLEAN, NEW v, v.fp.open = FALSE, NEW f,
         f.res # "OK" \/ ~f.dp.origin, Reached(q, v, f)
  PROVE  FoundEntry(q, f)
<1>1. f \in Good(q) /\ (f.res = "OK" => OnEntry(f) /\ InTable(f.dp))
  BY ReachedIs
<1>2. f.res = "OK" => f.fs.winsect \in TableArea
  BY <1>1, OnEntryIs
<1>3. f.fp.open = FALSE
  BY DEF Reached, Went, SameFile
<1> QED
  BY <1>1, <1>2, <1>3 DEF FoundEntry

(* F_open finds or makes the entry it opens, and it is in the window. *)
LEMMA EntryToOpenKeeps ==
  ASSUME NEW q \in BOOLEAN, NEW v \in Good(q), v.fp.open = FALSE, NEW path \in PathSet, NEW mode
  PROVE  FoundEntry(q, EntryToOpen(v, path, mode))
<1> DEFINE f == Lookup(v, path)
           d == dir_register(f)
           t == ResetEntry(d)
           s == ResetEntry(f)
<1>1. Reached(q, v, f)
  BY LookupKeeps
<1> DEFINE e == EntryToOpen(v, path, mode)
<1>2. \/ /\ e = f /\ (f.res = "OK" => ~f.dp.origin)
      \/ \E r \in {"INVALID_NAME", "DENIED", "EXIST", "NO_FILE"} : e = Res(f, r)
      \/ e = IF d.res = "OK" THEN t ELSE d
      \/ f.res = "OK" /\ ~f.dp.origin /\ e = s
  BY Zenon DEF EntryToOpen, With, Then, Lookup
<1> HIDE DEF e
<1>3. f \in Good(q) /\ f.fp.open = FALSE
  <2> HIDE DEF f
  <2>1. f \in Good(q)
    BY <1>1, ReachedIs
  <2> QED
    BY <1>1, <2>1 DEF Reached, Went, SameFile
<1>4. f.res # "OK" \/ ~f.dp.origin => FoundEntry(q, f)
  BY <1>1, ReachedEntered
<1> HIDE DEF f
<1>5. \A r \in {"INVALID_NAME", "DENIED", "EXIST", "NO_FILE"} : FoundEntry(q, Res(f, r))
  BY <1>3, EnteredRes, ResultsAre
<1>6. Walked(q, f, d)
  BY <1>3, DirRegisterKeeps
<1> HIDE DEF d
<1>7. d \in Good(q) /\ (d.res = "OK" => d.fs.winsect \in TableArea) /\ d.fp.open = FALSE
  <2>1. d \in Good(q) /\ (d.res = "OK" => OnEntry(d)) /\ d.fp.open = FALSE
    BY <1>3, <1>6 DEF Walked, Went, SameFile
  <2> QED
    BY <2>1, OnEntryIs
<1>8. d.res = "OK" => FoundEntry(q, t)
  BY <1>7, ResetEntryKeeps
<1>9. d.res # "OK" => FoundEntry(q, d)
  BY <1>7 DEF FoundEntry
<1>10. f.res = "OK" /\ ~f.dp.origin => FoundEntry(q, s)
  BY <1>3, <1>4, ResetEntryKeeps DEF FoundEntry
<1> HIDE DEF t, s
<1>11. CASE \E r \in {"INVALID_NAME", "DENIED", "EXIST", "NO_FILE"} : e = Res(f, r)
  BY <1>5, <1>11, Zenon DEF e
<1>12. CASE e = f /\ (f.res = "OK" => ~f.dp.origin)
  BY <1>4, <1>12 DEF e
<1>13. CASE e = IF d.res = "OK" THEN t ELSE d
  BY <1>8, <1>9, <1>13 DEF e
<1>14. CASE f.res = "OK" /\ ~f.dp.origin /\ e = s
  BY <1>10, <1>14 DEF e
<1> QED
  BY <1>2, <1>11, <1>12, <1>13, <1>14

(* What the fields of a file object that f_open sets leave as they are. *)
OpenAs(x, y) == y.open = x.open /\ y.err = x.err /\ y.fptr = x.fptr
KeptAs(x, y) == OpenAs(x, y) /\ y.dsect = x.dsect
LastAs(x, y) == y.err = x.err /\ y.fptr = x.fptr

(* The fields of the file object that f_open sets, one at a time. *)
LEMMA NewFile ==
  ASSUME NEW x \in FilSet
  PROVE  /\ \A a \in BOOLEAN : [x EXCEPT !.open = a] \in FilSet /\ LastAs(x, [x EXCEPT !.open = a])
         /\ \A a \in Nat : [x EXCEPT !.id = a] \in FilSet /\ KeptAs(x, [x EXCEPT !.id = a])
         /\ \A a \in BOOLEAN : [x EXCEPT !.mod = a] \in FilSet /\ KeptAs(x, [x EXCEPT !.mod = a])
         /\ \A a \in BOOLEAN : [x EXCEPT !.r = a] \in FilSet /\ KeptAs(x, [x EXCEPT !.r = a])
         /\ \A a \in BOOLEAN : [x EXCEPT !.w = a] \in FilSet /\ KeptAs(x, [x EXCEPT !.w = a])
         /\ \A a \in TableArea : [x EXCEPT !.dsect = a] \in FilSet /\ OpenAs(x, [x EXCEPT !.dsect = a])
         /\ \A a \in 0 .. DirEntriesPerSector - 1 : [x EXCEPT !.dptr = a] \in FilSet /\ KeptAs(x, [x EXCEPT !.dptr = a])
         /\ \A a \in ClusterNos : [x EXCEPT !.sclust = a] \in FilSet /\ KeptAs(x, [x EXCEPT !.sclust = a])
         /\ \A a \in Nat : [x EXCEPT !.size = a] \in FilSet /\ KeptAs(x, [x EXCEPT !.size = a])
<1>1. \A a \in BOOLEAN : [x EXCEPT !.open = a] \in FilSet /\ LastAs(x, [x EXCEPT !.open = a])
  BY DEF FilSet, KeptAs, OpenAs, LastAs
<1>2. \A a \in Nat : [x EXCEPT !.id = a] \in FilSet /\ KeptAs(x, [x EXCEPT !.id = a])
  BY DEF FilSet, KeptAs, OpenAs, LastAs
<1>3. \A a \in BOOLEAN : [x EXCEPT !.mod = a] \in FilSet /\ KeptAs(x, [x EXCEPT !.mod = a])
  BY DEF FilSet, KeptAs, OpenAs, LastAs
<1>4. \A a \in BOOLEAN : [x EXCEPT !.r = a] \in FilSet /\ KeptAs(x, [x EXCEPT !.r = a])
  BY DEF FilSet, KeptAs, OpenAs, LastAs
<1>5. \A a \in BOOLEAN : [x EXCEPT !.w = a] \in FilSet /\ KeptAs(x, [x EXCEPT !.w = a])
  BY DEF FilSet, KeptAs, OpenAs, LastAs
<1>6. \A a \in TableArea : [x EXCEPT !.dsect = a] \in FilSet /\ OpenAs(x, [x EXCEPT !.dsect = a])
  BY DEF FilSet, KeptAs, OpenAs, LastAs
<1>7. \A a \in 0 .. DirEntriesPerSector - 1 : [x EXCEPT !.dptr = a] \in FilSet /\ KeptAs(x, [x EXCEPT !.dptr = a])
  BY DEF FilSet, KeptAs, OpenAs, LastAs
<1>8. \A a \in ClusterNos : [x EXCEPT !.sclust = a] \in FilSet /\ KeptAs(x, [x EXCEPT !.sclust = a])
  BY DEF FilSet, KeptAs, OpenAs, LastAs
<1>9. \A a \in Nat : [x EXCEPT !.size = a] \in FilSet /\ KeptAs(x, [x EXCEPT !.size = a])
  BY DEF FilSet, KeptAs, OpenAs, LastAs
<1> QED
  BY <1>1, <1>2, <1>3, <1>4, <1>5, <1>6, <1>7, <1>8, <1>9

(* An empty file object is one. *)
LEMMA NoFilIs ==
  NoFil \in FilSet
<1>1. 0 \in FileClusters /\ 0 \in ClusterNos /\ "OK" \in Results /\ 0 \in 0 .. DirEntriesPerSector - 1
  BY NumbersApart, ResultsAre, LayoutIs, GeometryAssumption DEF FileClusters, ClusterNos
<1> QED
  BY <1>1 DEF NoFil, FilSet

(* F_open fills the file object from that entry. *)
LEMMA FileForKeeps ==
  ASSUME NEW q \in BOOLEAN, NEW v \in Good(q), v.fs.winsect \in TableArea, NEW mode
  PROVE  LET w == FileFor(v, mode)
         IN  /\ w \in Good(q) /\ Held(w.fp) /\ w.fp.err = "OK" /\ w.fp.fptr = 0 /\ w.res = v.res
<1> DEFINE x == [NoFil EXCEPT
                   !.open = TRUE, !.id = v.fs.id, !.mod = v.fp.mod,
                   !.r = "R" \in mode, !.w = "W" \in mode,
                   !.dsect = v.fs.winsect, !.dptr = Slot(v),
                   !.sclust = dir(v).cl, !.size = dir(v).sz]
           w == FileFor(v, mode)
<1>1. w = WithFp(v, x)
  BY Zenon DEF FileFor, WithFp
<1> HIDE DEF w
<1>2. /\ v.fs.id \in Nat /\ dir(v).cl \in ClusterNos /\ dir(v).sz \in Nat
      /\ v.fp.mod \in BOOLEAN /\ Slot(v) \in 0 .. DirEntriesPerSector - 1
  <2>1. dir(v) \in EntrySet /\ Slot(v) \in 0 .. DirEntriesPerSector - 1
    BY DirIs
  <2>2. dir(v).cl \in ClusterNos /\ dir(v).sz \in Nat
    BY <2>1 DEF EntrySet
  <2> QED
    BY <2>1, <2>2, FilIs, GoodIs
<1>3. ("R" \in mode) \in BOOLEAN /\ ("W" \in mode) \in BOOLEAN
  OBVIOUS
<1>4. x \in FilSet /\ Held(x) /\ x.err = "OK" /\ x.fptr = 0
  <2> DEFINE i == v.fs.id
             m == v.fp.mod
             r == "R" \in mode
             wr == "W" \in mode
             o == v.fs.winsect
             p == Slot(v)
             c == dir(v).cl
             z == dir(v).sz
  <2>1. /\ i \in Nat /\ m \in BOOLEAN /\ r \in BOOLEAN /\ wr \in BOOLEAN /\ o \in TableArea
        /\ p \in 0 .. DirEntriesPerSector - 1 /\ c \in ClusterNos /\ z \in Nat
    BY <1>2, <1>3
  <2> DEFINE t == TRUE
             x1 == [NoFil EXCEPT !.open = t]
             x2 == [x1 EXCEPT !.id = i]
             x3 == [x2 EXCEPT !.mod = m]
             x4 == [x3 EXCEPT !.r = r]
             x5 == [x4 EXCEPT !.w = wr]
             x6 == [x5 EXCEPT !.dsect = o]
             x7 == [x6 EXCEPT !.dptr = p]
             x8 == [x7 EXCEPT !.sclust = c]
             x9 == [x8 EXCEPT !.size = z]
  <2>0. t \in BOOLEAN /\ NoFil \in FilSet /\ t = TRUE
    BY NoFilIs
  <2>10. x9 = x
    OBVIOUS
  <2> HIDE DEF x, i, m, r, wr, o, p, c, z
  <2> HIDE DEF x9
  <2>3. x1.open = TRUE /\ x1.err = "OK" /\ x1.fptr = 0
    BY <2>0 DEF NoFil
  <2>11. x9 \in FilSet /\ OpenAs(x1, x9) /\ x9.dsect = o
    <3> HIDE DEF t
    <3>1. x1 \in FilSet
      BY <2>0, NewFile
    <3> HIDE DEF x1
    <3>2. x2 \in FilSet /\ OpenAs(x1, x2)
      <4>1. x2 \in FilSet /\ KeptAs(x1, x2)
        BY <2>1, <3>1, NewFile
      <4> HIDE DEF x2
      <4> QED
        BY <3>1, <4>1 DEF OpenAs, KeptAs
    <3> HIDE DEF x2
    <3>3. x3 \in FilSet /\ OpenAs(x1, x3)
      <4>1. x3 \in FilSet /\ KeptAs(x2, x3)
        BY <2>1, <3>2, NewFile
      <4> HIDE DEF x3
      <4> QED
        BY <3>2, <4>1 DEF OpenAs, KeptAs
    <3> HIDE DEF x3
    <3>4. x4 \in FilSet /\ OpenAs(x1, x4)
      <4>1. x4 \in FilSet /\ KeptAs(x3, x4)
        BY <2>1, <3>3, NewFile
      <4> HIDE DEF x4
      <4> QED
        BY <3>3, <4>1 DEF OpenAs, KeptAs
    <3> HIDE DEF x4
    <3>5. x5 \in FilSet /\ OpenAs(x1, x5)
      <4>1. x5 \in FilSet /\ KeptAs(x4, x5)
        BY <2>1, <3>4, NewFile
      <4> HIDE DEF x5
      <4> QED
        BY <3>4, <4>1 DEF OpenAs, KeptAs
    <3> HIDE DEF x5
    <3>6. x6 \in FilSet /\ OpenAs(x1, x6) /\ x6.dsect = o
      <4>1. x6 \in FilSet /\ OpenAs(x5, x6)
        BY <2>1, <3>5, NewFile
      <4>2. x6.dsect = o
        BY <3>5 DEF FilSet
      <4> HIDE DEF x6
      <4> QED
        BY <3>5, <4>1, <4>2 DEF OpenAs, KeptAs
    <3> HIDE DEF x6
    <3>7. x7 \in FilSet /\ OpenAs(x1, x7) /\ x7.dsect = o
      <4>1. x7 \in FilSet /\ KeptAs(x6, x7)
        BY <2>1, <3>6, NewFile
      <4> HIDE DEF x7
      <4> QED
        BY <3>6, <4>1 DEF OpenAs, KeptAs
    <3> HIDE DEF x7
    <3>8. x8 \in FilSet /\ OpenAs(x1, x8) /\ x8.dsect = o
      <4>1. x8 \in FilSet /\ KeptAs(x7, x8)
        BY <2>1, <3>7, NewFile
      <4> HIDE DEF x8
      <4> QED
        BY <3>7, <4>1 DEF OpenAs, KeptAs
    <3> HIDE DEF x8
    <3>9. x9 \in FilSet /\ OpenAs(x1, x9) /\ x9.dsect = o
      <4>1. x9 \in FilSet /\ KeptAs(x8, x9)
        BY <2>1, <3>8, NewFile DEF x9
      <4> HIDE DEF x9
      <4> QED
        BY <3>8, <4>1 DEF OpenAs, KeptAs
    <3> QED
      BY <3>9
  <2>12. Held(x9) /\ x9.err = "OK" /\ x9.fptr = 0
    BY <2>1, <2>3, <2>11 DEF Held, OpenAs
  <2> QED
    BY <2>10, <2>11, <2>12
<1> HIDE DEF x
<1>5. WithFp(v, x) \in Good(q) /\ WithFp(v, x).fp = x /\ WithFp(v, x).res = v.res
  BY <1>4, FpGoes
<1> QED
  BY <1>1, <1>4, <1>5 DEF w

(* A file whose pointer is set to its end. *)
AtEnding(q, z, u) == /\ u \in Good(q) /\ Held(u.fp) /\ u.fp.err = "OK"
                     /\ u.fp.size = z /\ u.fp.fptr = z

(* What is known of a file opened for appending depends on its place only. *)
LEMMA AtEndingAs ==
  ASSUME NEW q \in BOOLEAN, NEW z, NEW v, AtEnding(q, z, v), NEW u \in Good(q), SameSpot(v.fp, u.fp)
  PROVE  AtEnding(q, z, u)
BY DEF AtEnding, SameSpot, Held

(* A step that leaves the file object alone keeps it. *)
LEMMA AtEndingGoes ==
  ASSUME NEW q \in BOOLEAN, NEW z, NEW v, AtEnding(q, z, v), NEW u, Went(q, v, u)
  PROVE  AtEnding(q, z, u)
BY DEF AtEnding, Went, SameFile

(* A hop along its chain, *)
LEMMA FileHopKeeps ==
  ASSUME NEW q \in BOOLEAN, NEW z, NEW v, AtEnding(q, z, v), v.ret \in FileClusters
  PROVE  LET w == FileHop(v)
         IN  AtEnding(q, z, w) /\ (w.res \in {GO, "OK"} => w.ret \in FileClusters)
<1> DEFINE g == get_fat(v, v.ret)
           e == Res(g, ClusterError(g.ret))
           a == Res(g, GO)
           w == FileHop(v)
<1>1. w = IF g.ret \in {0, 1, DISKERR} THEN e ELSE a
  BY Zenon DEF FileHop, With, Again
<1> HIDE DEF w
<1>2. v \in Good(q) /\ v.ret \in Int
  <2>1. v \in Good(q)
    BY DEF AtEnding
  <2>2. v.ret \in Nat
    BY <2>1, GoodIs
  <2> QED
    BY <2>1, <2>2
<1>3. Went(q, v, g) /\ g \in Good(q) /\ g.ret \in FatValues \union {1, DISKERR}
  BY <1>2, GetFatGoes
<1> HIDE DEF g
<1>4. Went(q, v, e) /\ e.res # GO /\ e.res # "OK"
  <2>1. ClusterError(g.ret) \in {"DISK_ERR", "INT_ERR"}
    BY DEF ClusterError
  <2>2. /\ ClusterError(g.ret) \in Results /\ ClusterError(g.ret) # GO
        /\ ClusterError(g.ret) # "OK"
    BY <2>1 DEF Results, GO
  <2> QED
    BY <1>3, <2>2, ResGoes
<1> HIDE DEF e
<1>5. Went(q, v, a) /\ a.ret = g.ret
  BY <1>3, ResGoes, ResultsAre
<1> HIDE DEF a
<1>6. AtEnding(q, z, e) /\ AtEnding(q, z, a)
  BY <1>4, <1>5, AtEndingGoes
<1>7. g.ret \notin {0, 1, DISKERR} => a.ret \in FileClusters
  BY <1>3, <1>5 DEF FileClusters
<1> QED
  BY <1>1, <1>4, <1>6, <1>7 DEF w

(* The clusters of the file up to the one of the byte before the end. *)
FileHops(v, c, n) == Rounds(Ret(v, c), LAMBDA u, k : FileHop(u), n, "OK")

(* And all of them, *)
LEMMA FileHopsKeep ==
  ASSUME NEW q \in BOOLEAN, NEW z, NEW v, AtEnding(q, z, v), NEW c \in ClusterNos, NEW hops \in Nat
  PROVE  LET w == FileHops(v, c, hops)
         IN  AtEnding(q, z, w) /\ (w.res = "OK" => w.ret \in FileClusters)
<1> DEFINE n == hops
           a == Again(Ret(v, c))
           V == {u \in Good(q) : AtEnding(q, z, u) /\ (u.res \in {GO, "OK"} => u.ret \in FileClusters)}
           B(u, k) == IF u.res = GO THEN FileHop(u) ELSE u
           F(h) == [k \in 0..n |-> IF k = 0 THEN a ELSE B(h[k - 1], k)]
           at == CHOOSE h : h = F(h)
           G == [p \in V \X (1..n) |-> B(p[1], p[2])]
<1>1. n \in Nat /\ a \in V
  <2> DEFINE r == Ret(v, c)
  <2>1. v \in Good(q) /\ c \in Nat /\ c \in FileClusters
    <3>1. \A i \in ClusterNos : i \in Nat /\ (i = 0 \/ i = 1 \/ i \in RealClusters)
      BY LayoutIs DEF ClusterNos, RealClusters
    <3>2. c = 0 \/ c = 1 \/ c \in RealClusters
      BY <3>1
    <3>3. RealClusters \subseteq FatValues /\ 0 \in FatValues
      BY NumbersApart
    <3>4. c \in FileClusters
      BY <3>2, <3>3 DEF FileClusters
    <3> QED
      BY <3>1, <3>4 DEF AtEnding
  <2>2. Went(q, v, r) /\ r \in Good(q) /\ r.ret = c
    BY <2>1, WentSelf, RetGoes
  <2> HIDE DEF r
  <2> DEFINE y == Res(r, GO)
  <2>3. Went(q, v, y) /\ y \in Good(q) /\ y.ret = r.ret
    <3>1. GO \in Results
      BY ResultsAre
    <3> QED
      BY <2>2, <3>1, ResGoes
  <2>4. a = y
    BY Zenon DEF Again, r
  <2> HIDE DEF a, y
  <2>5. AtEnding(q, z, y)
    BY <2>3, AtEndingGoes
  <2> QED
    BY <2>1, <2>2, <2>3, <2>4, <2>5
<1>2. \A u \in V, k \in 1..n : B(u, k) \in V
  <2>1. ASSUME NEW u \in V, NEW k \in 1..n PROVE B(u, k) \in V
    <3> DEFINE w == FileHop(u)
    <3>1. AtEnding(q, z, u) /\ (u.res = GO => u.ret \in FileClusters)
      OBVIOUS
    <3>2. u.res = GO => AtEnding(q, z, w) /\ (w.res \in {GO, "OK"} => w.ret \in FileClusters)
      BY <3>1, FileHopKeeps
    <3> HIDE DEF w
    <3>3. u.res = GO => w \in V
      BY <3>2 DEF AtEnding
    <3> HIDE DEF V
    <3> QED
      BY <3>3 DEF w
  <2> HIDE DEF V
  <2> QED
    BY <2>1
<1>3. FileHops(v, c, hops) = IF at[n].res = GO THEN Res(at[n], "OK") ELSE at[n]
  BY Zenon DEF FileHops, Rounds, With
<1> HIDE DEF a, V, B, n
<1>4. G \in [V \X (1..n) -> V] /\ \A u \in V, k \in 1..n : G[<<u, k>>] = B(u, k)
  BY <1>2
<1> HIDE DEF G
<1>5. PICK g \in [0..n -> V] : Runs(g, V, a, G, n)
  BY <1>1, <1>4, LoopRuns, Zenon
<1>6. g = F(g)
  <2>1. \A k \in 1..n : g[k] = B(g[k - 1], k)
    BY <1>4, <1>5, Zenon DEF Runs
  <2>2. \A k \in 0..n : g[k] = IF k = 0 THEN a ELSE B(g[k - 1], k)
    BY <1>5, <2>1 DEF Runs
  <2> QED
    BY <2>2
<1>7. at = F(at)
  BY <1>6
<1> HIDE DEF at
<1>8. at[0] = a /\ \A k \in 1..n : at[k] = B(at[k - 1], k)
  BY <1>1, <1>7
<1>9. at[n] \in V
  <2>1. \A k \in 1..n : at[k - 1] \in V => at[k] \in V
    BY <1>2, <1>8, Zenon
  <2> QED
    BY <1>1, <1>8, <2>1, LoopStays, Zenon
<1> DEFINE e == at[n]
<1>10. e \in V /\ FileHops(v, c, hops) = IF e.res = GO THEN Res(e, "OK") ELSE e
  BY <1>3, <1>9
<1> HIDE DEF e
<1> DEFINE y == Res(e, "OK")
<1>11. AtEnding(q, z, e) /\ (e.res \in {GO, "OK"} => e.ret \in FileClusters) /\ e \in Good(q)
  BY <1>10 DEF V
<1>12. Went(q, e, y) /\ y.ret = e.ret
  BY <1>11, WentSelf, ResGoes, ResultsAre
<1> HIDE DEF y
<1>13. AtEnding(q, z, y)
  BY <1>11, <1>12, AtEndingGoes
<1> DEFINE w == FileHops(v, c, hops)
<1>14. w = IF e.res = GO THEN y ELSE e
  BY <1>10 DEF y
<1> HIDE DEF w
<1> QED
  BY <1>11, <1>12, <1>13, <1>14 DEF w

(* To the cluster of the last byte. *)
LEMMA FollowFileKeeps ==
  ASSUME NEW q \in BOOLEAN, NEW z, NEW v, AtEnding(q, z, v), NEW c \in ClusterNos, NEW ofs \in Nat \ {0}
  PROVE  AtEnding(q, z, FollowFile(v, c, ofs))
<1> DEFINE n == (ofs - 1) \div ClusterBytes
           h == FileHops(v, c, n)
           k == [h EXCEPT !.fp.clust = h.ret]
           w == FollowFile(v, c, ofs)
<1>1. w = IF h.res = "OK" THEN k ELSE h
  BY Zenon DEF FollowFile, Then, FileHops
<1> HIDE DEF w
<1>2. n \in Nat
  <2>1. ofs - 1 \in Nat /\ ClusterBytes \in Nat \ {0}
    BY LayoutIs
  <2> QED
    BY <2>1
<1> HIDE DEF n
<1>3. AtEnding(q, z, h) /\ (h.res = "OK" => h.ret \in FileClusters)
  BY <1>2, FileHopsKeep
<1> HIDE DEF h
<1>4. h.res = "OK" => k \in Good(q) /\ SameSpot(h.fp, k.fp)
  <2>1. h \in Good(q)
    BY <1>3 DEF AtEnding
  <2> QED
    BY <1>3, <2>1, ClustGoes
<1> HIDE DEF k
<1>5. h.res = "OK" => AtEnding(q, z, k)
  BY <1>3, <1>4, AtEndingAs
<1> QED
  BY <1>1, <1>3, <1>5 DEF w

(* The bytes of the file's last cluster, and their last sector. *)
LEMMA LastCluster ==
  ASSUME NEW z \in Nat \ {0}
  PROVE  LET rest == z - ClusterBytes * ((z - 1) \div ClusterBytes)
         IN  /\ rest \in Nat /\ z % SectorBytes = rest % SectorBytes
             /\ rest % SectorBytes # 0 => rest \div SectorBytes \in 0 .. ClusterSectors - 1
<1> DEFINE B == ClusterBytes
           k == (z - 1) \div B
           m == (z - 1) % B
           rest == z - B * k
<1>1. B \in Nat \ {0} /\ z - 1 \in Nat /\ SectorBytes \in Nat \ {0} /\ ClusterSectors \in Nat \ {0}
  BY LayoutIs, GeometryAssumption
<1>2. B = SectorBytes * ClusterSectors
  BY DEF ClusterBytes
<1> HIDE DEF B
<1>3. k \in Nat /\ m \in 0 .. B - 1 /\ z - 1 = B * k + m
  BY <1>1
<1> HIDE DEF k, m
<1>4. B * k \in Nat
  BY <1>1, <1>3
<1>5. rest = m + 1 /\ rest \in 1 .. B /\ z = rest + B * k
  BY <1>1, <1>3, <1>4
<1> HIDE DEF rest
<1>6. z % SectorBytes = rest % SectorBytes
  <2> DEFINE j == ClusterSectors * k
  <2>1. j \in Nat
    BY <1>1, <1>3
  <2>2. B * k = j * SectorBytes
    BY <1>1, <1>2, <1>3
  <2> HIDE DEF j
  <2>3. (rest + j * SectorBytes) % SectorBytes = rest % SectorBytes
    <3>1. rest \in Nat
      BY <1>1, <1>5
    <3> QED
      BY <1>1, <2>1, <3>1, ModWhole
  <2> QED
    BY <1>5, <2>2, <2>3
<1>7. rest % SectorBytes # 0 => rest \div SectorBytes \in 0 .. ClusterSectors - 1
  <2> DEFINE S == SectorBytes
             C == ClusterSectors
             d == rest \div S
             r == rest % S
  <2>1. S \in Nat \ {0} /\ C \in Nat \ {0} /\ rest \in Nat
    BY <1>1, <1>5
  <2>2. B = S * C /\ rest <= B
    BY <1>1, <1>2, <1>5
  <2> HIDE DEF S, C
  <2>3. d \in Nat /\ r \in 0 .. S - 1 /\ rest = S * d + r
    BY <2>1
  <2> HIDE DEF d, r
  <2>4. ASSUME r # 0 PROVE d < C
    <3>1. SUFFICES ASSUME ~(d < C) PROVE FALSE
      OBVIOUS
    <3>2. \A i, j \in Nat : i <= j => S * i <= S * j
      BY <2>1
    <3>3. C <= d
      BY <2>1, <2>3, <3>1
    <3>4. S * C <= S * d
      BY <2>1, <2>3, <3>2, <3>3
    <3>5. S * C \in Nat /\ S * d \in Nat
      BY <2>1, <2>3
    <3> DEFINE x == S * C
               y == S * d
    <3>6. x \in Nat /\ y \in Nat /\ x <= y /\ rest <= x /\ rest = y + r
      BY <2>2, <2>3, <3>4, <3>5
    <3> HIDE DEF x, y
    <3> QED
      BY <2>1, <2>3, <2>4, <3>6
  <2>5. r # 0 => d \in 0 .. C - 1
    BY <2>1, <2>3, <2>4
  <2> QED
    BY <2>5 DEF d, r, S, C
<1>8. rest \in Nat
  BY <1>1, <1>5
<1> QED
  BY <1>6, <1>7, <1>8 DEF rest, k, B

(* A file that could not be opened is closed. *)
LEMMA OpenGoes ==
  ASSUME NEW q \in BOOLEAN, NEW v \in Good(q)
  PROVE  LET w == [v EXCEPT !.fp.open = FALSE]
         IN  w \in Good(q) /\ w.fp.open = FALSE
<1> DEFINE f == FALSE
           x == [v.fp EXCEPT !.open = f]
           y == WithFp(v, x)
           w == [v EXCEPT !.fp.open = f]
<1>1. v \in CallSet /\ v.fp \in FilSet /\ f \in BOOLEAN /\ f = FALSE
  BY FilIs
<1> HIDE DEF f
<1>2. w = y
  <2>1. \A a : [v EXCEPT !.fp.open = a] = WithFp(v, [v.fp EXCEPT !.open = a])
    BY <1>1, FpChanges
  <2> QED
    BY <2>1, Zenon
<1>3. x \in FilSet /\ x.open = f
  BY <1>1, FilField
<1> HIDE DEF x
<1>4. y \in Good(q) /\ y.fp = x
  BY <1>3, FpGoes
<1> HIDE DEF y, w
<1> QED
  BY <1>1, <1>2, <1>3, <1>4 DEF w, f

(* F_open for appending leaves the pointer at the size, with its sector,   *)
(* or fails.                                                               *)
LEMMA SeekEndKeeps ==
  ASSUME NEW q \in BOOLEAN, NEW v \in Good(q), Held(v.fp), v.fp.err = "OK", v.fp.size # 0
  PROVE  LET w == SeekEnd(v)
         IN  w \in Good(q) /\ (w.res = "OK" => w \in Fine(q))
<1> DEFINE z == v.fp.size
           c == v.fp.sclust
           rest == z - ClusterBytes * ((z - 1) \div ClusterBytes)
           u == [v EXCEPT !.fp.fptr = z]
           f == FollowFile(u, c, z)
           top == clst2sect(f.fp.clust)
           i == rest \div SectorBytes
           e == Res(f, "INT_ERR")
           s == [f EXCEPT !.fp.sect = top + i]
           w == SeekEnd(v)
<1>1. w = IF f.res # "OK" \/ rest % SectorBytes = 0 THEN f ELSE IF top = 0 THEN e ELSE s
  BY Zenon DEF SeekEnd, With
<1> HIDE DEF w
<1>2. z \in Nat \ {0} /\ c \in ClusterNos
  BY FilIs
<1>3. /\ rest \in Nat /\ z % SectorBytes = rest % SectorBytes
      /\ rest % SectorBytes # 0 => i \in 0 .. ClusterSectors - 1
  BY <1>2, LastCluster
<1> HIDE DEF rest, i
<1>4. AtEnding(q, z, u)
  <2> HIDE DEF z
  <2>1. u \in Good(q) /\ u.fp.fptr = z /\ u.fp.size = v.fp.size /\ u.fp.open = v.fp.open
        /\ u.fp.dsect = v.fp.dsect /\ u.fp.err = v.fp.err
    BY <1>2, PtrGoes
  <2> HIDE DEF u
  <2> QED
    BY <2>1 DEF AtEnding, Held, z
<1> HIDE DEF u
<1>5. AtEnding(q, z, f)
  BY <1>2, <1>4, FollowFileKeeps
<1> HIDE DEF f, c
<1>6. f \in Good(q) /\ (rest % SectorBytes = 0 => f \in Fine(q))
  BY <1>2, <1>3, <1>5 DEF AtEnding, Fine, FileOK, AtData, Held
<1>7. e \in Good(q) /\ e.res # "OK"
  <2>1. Went(q, f, f) /\ "INT_ERR" \in Results
    BY <1>6, WentSelf, ResultsAre
  <2>2. e \in Good(q) /\ e.res = "INT_ERR"
    BY <2>1, ResGoes
  <2> QED
    BY <2>2
<1> HIDE DEF e
<1>8. ASSUME top # 0, rest % SectorBytes # 0 PROVE s \in Fine(q)
  <2> DEFINE x == top + i
             y == [f EXCEPT !.fp.sect = x]
  <2>1. x \in TableArea
    <3>1. f.fp.clust \in FileClusters
      BY <1>6, FilIs
    <3> QED
      BY <1>3, <1>8, <3>1, InCluster
  <2> HIDE DEF x
  <2>2. /\ y \in Good(q) /\ y.fp.sect = x /\ y.fp.open = f.fp.open /\ y.fp.dsect = f.fp.dsect
        /\ y.fp.err = f.fp.err /\ y.fp.fptr = f.fp.fptr /\ y.fp.size = f.fp.size
    BY <1>6, <2>1, SectGoes
  <2> HIDE DEF y
  <2>3. y \in Fine(q)
    BY <1>2, <1>5, <2>1, <2>2 DEF AtEnding, Fine, FileOK, AtData, Held
  <2> QED
    BY <2>3 DEF x, y
<1> HIDE DEF s
<1>9. ASSUME top # 0, rest % SectorBytes # 0 PROVE s \in Good(q)
  BY <1>8, <1>9 DEF Fine
<1> QED
  BY <1>1, <1>6, <1>7, <1>8, <1>9 DEF w

(* f_open leaves a file object that is not open, or one within its size. *)
THEOREM FOpenKeeps ==
  ASSUME NEW q \in BOOLEAN, NEW v \in Good(q), NEW path \in PathSet, NEW mode
  PROVE  f_open(v, path, mode) \in Fine(q)
<1> DEFINE b == WithFp(v, NoFil)
           e == EntryToOpen(b, path, mode)
           o == FileFor(e, mode)
           s == SeekEnd(o)
           t == [s EXCEPT !.fp.open = FALSE]
           w == f_open(v, path, mode)
<1>1. w = IF e.res # "OK" THEN e
          ELSE IF "END" \notin mode \/ o.fp.size = 0 THEN o
          ELSE IF s.res # "OK" THEN t ELSE s
  BY Zenon DEF f_open, With, Then, WithFp
<1> HIDE DEF w
<1>2. b \in Good(q) /\ b.fp.open = FALSE
  <2>1. b \in Good(q) /\ b.fp = NoFil
    BY NoFilIs, FpGoes
  <2> QED
    BY <2>1 DEF NoFil
<1> HIDE DEF b
<1>3. FoundEntry(q, e)
  BY <1>2, EntryToOpenKeeps
<1> HIDE DEF e
<1>4. e.res # "OK" => e \in Fine(q)
  BY <1>3 DEF FoundEntry, Fine, FileOK
<1>5. ASSUME e.res = "OK"
      PROVE  o \in Good(q) /\ Held(o.fp) /\ o.fp.err = "OK" /\ o.fp.fptr = 0
  BY <1>3, <1>5, FileForKeeps DEF FoundEntry
<1> HIDE DEF o
<1>6. e.res = "OK" => o \in Fine(q)
  <2>1. SUFFICES ASSUME e.res = "OK" PROVE o \in Fine(q)
    OBVIOUS
  <2>2. o.fp.size \in Nat
    BY <1>5, <2>1, FilIs
  <2>3. SectorBytes \in Nat \ {0}
    BY GeometryAssumption
  <2> QED
    BY <1>5, <2>1, <2>2, <2>3 DEF Fine, FileOK, AtData, Held
<1>7. e.res = "OK" /\ o.fp.size # 0 => s \in Good(q) /\ (s.res = "OK" => s \in Fine(q))
  BY <1>5, SeekEndKeeps
<1> HIDE DEF s
<1>8. s \in Good(q) => t \in Fine(q)
  <2>1. s \in Good(q) => t \in Good(q) /\ t.fp.open = FALSE
    BY OpenGoes
  <2> HIDE DEF t
  <2> QED
    BY <2>1 DEF Fine, FileOK
<1> HIDE DEF t
<1> QED
  BY <1>1, <1>4, <1>6, <1>7, <1>8 DEF w

-----------------------------------------------------------------------------
(* The volume as a formatter leaves it. *)
LEMMA FreshFatIs ==
  ASSUME NEW c \in ClusterNos
  PROVE  /\ FatEntry(FreshVolume, c) = IF c < 2 \/ (FatType = 3 /\ c = RootClust) THEN EOC ELSE 0
<1> DEFINE E == FatEntriesPerSector
           i == c \div E
           j == c % E
           s == FatBase + i
<1>1. i \in 0 .. FatSize - 1 /\ j \in 0 .. E - 1 /\ s \in FatSects
  BY FatHasRoom
<1>2. c \in Nat /\ E \in Nat \ {0}
  BY LayoutIs, GeometryAssumption DEF ClusterNos
<1>3. s \in Sectors /\ s # 0 /\ ~(s < FatBase) /\ s < RootSect /\ s - FatBase = i
  BY <1>1, LayoutIs, AreasApart DEF FatSects
<1>4. i % FatSize = i
  BY <1>1, LayoutIs
<1>5. FreshVolume[s] = FatSector([x \in 0..E-1 |-> FreshFat[i * E + x]])
  BY <1>3, <1>4 DEF FreshVolume
<1>6. FatEntry(FreshVolume, c) = FreshFat[i * E + j]
  BY <1>1, <1>5 DEF FatEntry, FatSector
<1>7. i * E + j = c
  BY <1>2
<1>8. c \in 0 .. FatSize * E - 1
  <2> HIDE DEF E, i, j
  <2>1. \A a \in 0 .. FatSize - 1 : a * E + E <= FatSize * E /\ a * E \in Nat /\ FatSize * E \in Nat
    <3>1. ASSUME NEW a \in 0 .. FatSize - 1 PROVE a * E + E <= FatSize * E /\ a * E \in Nat
      <4>1. FatSize \in Nat /\ E \in Nat /\ a \in Nat /\ a + 1 <= FatSize
        BY <1>2, LayoutIs
      <4>2. \A x, y \in Nat : x <= y => x * E <= y * E
        BY <4>1
      <4>3. (a + 1) * E <= FatSize * E
        BY <4>1, <4>2
      <4>4. (a + 1) * E = a * E + E
        BY <4>1
      <4> QED
        BY <4>1, <4>3, <4>4
    <3>2. FatSize * E \in Nat
      BY <1>2, LayoutIs
    <3> QED
      BY <3>1, <3>2
  <2>2. i * E + E <= FatSize * E /\ i * E \in Nat /\ FatSize * E \in Nat
    BY <1>1, <2>1
  <2> DEFINE x == i * E
             y == FatSize * E
  <2>3. x + E <= y /\ x \in Nat /\ y \in Nat /\ x + j = c
    BY <1>7, <2>2
  <2> HIDE DEF x, y
  <2>4. c < y
    BY <1>1, <1>2, <2>3
  <2> QED
    BY <1>2, <2>3, <2>4 DEF y
<1> QED
  BY <1>6, <1>7, <1>8 DEF FreshFat

(* Every entry of a new volume's FAT is free or an end mark. *)
LEMMA FreshEntryIn ==
  ASSUME NEW i \in 0 .. FatSize - 1, NEW j \in 0 .. FatEntriesPerSector - 1
  PROVE  FreshFat[i * FatEntriesPerSector + j] \in FatValues
<1> DEFINE E == FatEntriesPerSector
           a == i * E
<1>1. E \in Nat \ {0} /\ FatSize \in Nat /\ i \in Nat /\ i + 1 <= FatSize
  BY LayoutIs, GeometryAssumption
<1> HIDE DEF E
<1>2. \A x, y \in Nat : x <= y => x * E <= y * E
  BY <1>1
<1>3. (i + 1) * E <= FatSize * E
  BY <1>1, <1>2
<1>4. (i + 1) * E = i * E + E
  BY <1>1
<1> DEFINE b == FatSize * E
<1>5. a \in Nat /\ b \in Nat /\ a + E <= b
  BY <1>1, <1>3, <1>4
<1> HIDE DEF a, b
<1>6. a + j \in 0 .. b - 1
  BY <1>1, <1>5 DEF E
<1>7. EOC \in FatValues /\ 0 \in FatValues
  BY NumbersApart
<1> QED
  BY <1>6, <1>7 DEF FreshFat, a, b, E

(* A new volume is a card whose copies of the FAT agree. *)
LEMMA FreshIsCard ==
  FreshVolume \in Cards /\ FatCopiesSame(FreshVolume)
<1> DEFINE P(i) == FatSector([j \in 0..FatEntriesPerSector-1 |->
                                FreshFat[i * FatEntriesPerSector + j]])
<1>1. \A i \in 0 .. FatSize - 1 : P(i) \in FatSet
  BY FreshEntryIn DEF FatSector, FatSet
<1>2. \A a \in Nat : a % FatSize \in 0 .. FatSize - 1
  BY LayoutIs
<1>3. Boot \in BootSet /\ FsInfo(Clusters - 1, RootClust) \in InfoSet
  BY GeometryAssumption DEF BootSet, FsInfo, InfoSet, RootClust
<1>4. ZeroSector \in TableSet /\ BlankData \in TableSet
  <2>1. FreeEntry \in EntrySet
    BY LayoutIs DEF FreeEntry, Entry, EntrySet, Words, ClusterNos
  <2>2. ZeroSector \in [k : {"dir"}, e : [0 .. DirEntriesPerSector - 1 -> EntrySet]]
    BY <2>1 DEF ZeroSector, DirSector
  <2>3. BlankData \in [k : {"data"}, d : [1 .. SectorBytes -> Words]]
    BY DEF BlankData, Data, Words
  <2> QED
    BY <2>2, <2>3 DEF TableSet
<1>5. \A s \in Sectors : FreshVolume[s] \in Holds(s)
  <2>1. ASSUME NEW s \in Sectors PROVE FreshVolume[s] \in Holds(s)
    <3>1. CASE s = 0
      BY <1>3, <3>1 DEF FreshVolume, Holds
    <3>2. CASE s # 0 /\ s < FatBase
      BY <1>3, <3>2 DEF FreshVolume, Holds
    <3>3. CASE s # 0 /\ ~(s < FatBase) /\ s < RootSect
      <4>1. s - FatBase \in Nat
        BY <3>3, LayoutIs, AreasApart
      <4>2. P((s - FatBase) % FatSize) \in FatSet
        BY <1>1, <1>2, <4>1
      <4>3. FreshVolume[s] = P((s - FatBase) % FatSize)
        BY <3>3 DEF FreshVolume
      <4> QED
        BY <3>3, <4>2, <4>3 DEF Holds
    <3>4. CASE s # 0 /\ ~(s < FatBase) /\ ~(s < RootSect)
      BY <1>4, <3>4 DEF FreshVolume, Holds
    <3> QED
      BY <3>1, <3>2, <3>3, <3>4
  <2> QED
    BY <2>1
<1>6. \A s \in Sectors : Holds(s) \subseteq SectorSet
  BY DEF Holds, SectorSet
<1>7. FreshVolume \in [Sectors -> SectorSet]
  <2>1. FreshVolume = [s \in Sectors |-> FreshVolume[s]]
    BY DEF FreshVolume
  <2> QED
    BY <1>5, <1>6, <2>1
<1>8. FreshVolume \in Cards
  BY <1>5, <1>7 DEF Cards
<1>9. ASSUME FatCopies = 2, NEW s \in FatBase .. FatBase + FatSize - 1
      PROVE  FreshVolume[s] = FreshVolume[s + FatSize]
  <2> DEFINE t == s + FatSize
  <2>1. /\ s \in Sectors /\ s # 0 /\ ~(s < FatBase) /\ s < RootSect /\ s - FatBase \in Nat
        /\ t \in Sectors /\ t # 0 /\ ~(t < FatBase) /\ t < RootSect /\ t - FatBase = (s - FatBase) + FatSize
    BY <1>9, LayoutIs, AreasApart DEF FatSects
  <2>2. (t - FatBase) % FatSize = (s - FatBase) % FatSize
    <3> DEFINE a == s - FatBase
    <3>1. a \in Nat /\ FatSize \in Nat \ {0} /\ 1 \in Nat /\ t - FatBase = a + 1 * FatSize
      BY <2>1, LayoutIs
    <3> HIDE DEF a
    <3> QED
      BY <3>1, ModWhole DEF a
  <2> HIDE DEF t
  <2>3. FreshVolume[s] = P((s - FatBase) % FatSize) /\ FreshVolume[t] = P((t - FatBase) % FatSize)
    BY <2>1 DEF FreshVolume
  <2> HIDE DEF P
  <2> QED
    BY <2>2, <2>3 DEF t
<1>10. FatCopiesSame(FreshVolume)
  BY <1>9 DEF FatCopiesSame
<1> QED
  BY <1>8, <1>10

(* Its free clusters: all of a FAT16 volume, all but the root's of FAT32. *)
LEMMA FreshCount ==
  ASSUME FatType = 3
  PROVE  FreeClusters(FreshVolume) = Clusters - 1
<1> DEFINE F == {c \in 2 .. NFatEnt - 1 : FatEntry(FreshVolume, c) = 0}
<1>1. F = 3 .. NFatEnt - 1
  <2>1. ASSUME NEW c \in 2 .. NFatEnt - 1
        PROVE  FatEntry(FreshVolume, c) = 0 <=> c # 2
    <3>1. c \in ClusterNos /\ ~(c < 2)
      BY LayoutIs DEF ClusterNos
    <3>2. FatEntry(FreshVolume, c) = IF c = RootClust THEN EOC ELSE 0
      BY <3>1, FreshFatIs
    <3>3. EOC # 0
      BY NumbersApart
    <3> QED
      BY <3>2, <3>3 DEF RootClust
  <2>2. F = {c \in 2 .. NFatEnt - 1 : c # 2}
    BY <2>1
  <2> QED
    BY <2>2, LayoutIs
<1>2. Cardinality(3 .. NFatEnt - 1) = Clusters - 1
  <2>1. 3 \in Int /\ NFatEnt - 1 \in Int /\ NFatEnt = Clusters + 2 /\ Clusters \in Nat \ {0}
    BY LayoutIs, GeometryAssumption
  <2>2. Cardinality(3 .. NFatEnt - 1) = IF 3 > NFatEnt - 1 THEN 0 ELSE (NFatEnt - 1) - 3 + 1
    BY <2>1, FS_Interval
  <2> QED
    BY <2>1, <2>2
<1> QED
  BY <1>1, <1>2 DEF FreeClusters

-----------------------------------------------------------------------------
(* Mounting.  While the window is not to be written, moving it takes the   *)
(* card's sector in.                                                       *)
Loaded(f, c, s) == [[f EXCEPT !.win = c] EXCEPT !.winsect = s]

(* A window that is not to be written may be given any sector. *)
LEMMA LoadedIs ==
  ASSUME NEW f \in Volumes, ~f.wflag, NEW s \in WinSects, NEW c \in SectorSet, c \in Holds(s)
  PROVE  LET g == Loaded(f, c, s)
         IN  /\ g \in Volumes /\ g.win = c /\ g.winsect = s /\ ~g.wflag
             /\ g.reg = f.reg /\ g.type = f.type /\ g.free = f.free
BY DEF Loaded, Volumes, FsSet, WindowHolds

Enabled(f)   == [f EXCEPT !.type = 0, !.reg = TRUE]
Unmounted(f) == [f EXCEPT !.type = 0]
Emptied(f)   == [f EXCEPT !.wflag = FALSE, !.winsect = NOSECT]

(* The changes that the mount makes before it reads. *)
LEMMA MountingFs ==
  ASSUME NEW f \in Volumes, ~f.wflag
  PROVE  /\ Enabled(f) \in Volumes /\ Enabled(f).reg /\ Enabled(f).type = 0 /\ ~Enabled(f).wflag
         /\ Unmounted(f) \in Volumes /\ Unmounted(f).type = 0 /\ Unmounted(f).reg = f.reg
         /\ ~Unmounted(f).wflag
         /\ Emptied(f) \in Volumes /\ Emptied(f).type = f.type /\ Emptied(f).reg = f.reg
         /\ ~Emptied(f).wflag /\ Emptied(f).winsect = NOSECT
         /\ Emptied(f).free = f.free
<1>1. /\ Enabled(f) \in Volumes /\ Enabled(f).reg /\ Enabled(f).type = 0 /\ ~Enabled(f).wflag
  BY DEF Enabled, Volumes, FsSet, WindowHolds
<1>2. /\ Unmounted(f) \in Volumes /\ Unmounted(f).type = 0 /\ Unmounted(f).reg = f.reg
      /\ ~Unmounted(f).wflag
  BY DEF Unmounted, Volumes, FsSet, WindowHolds
<1>3. /\ Emptied(f) \in Volumes /\ Emptied(f).type = f.type /\ Emptied(f).reg = f.reg
      /\ ~Emptied(f).wflag /\ Emptied(f).winsect = NOSECT
      /\ Emptied(f).free = f.free
  <2>1. NOSECT \notin WinSects
    BY AreasApart DEF NOSECT
  <2> QED
    BY <2>1 DEF Emptied, Volumes, FsSet, WindowHolds
<1> QED
  BY <1>1, <1>2, <1>3

(* Move_window then only reads. *)
LEMMA MoveClean ==
  ASSUME NEW v \in CallSet, ~v.fs.wflag, NEW s \in WinSects, s # v.fs.winsect
  PROVE  LET w == move_window(v, s)
         IN  /\ w \in CallSet /\ w.disk = v.disk /\ w.to = v.to /\ w.from = v.from
             /\ w.media = v.media /\ ~w.fs.wflag /\ w.fs.reg = v.fs.reg /\ w.fs.type = v.fs.type
             /\ w.fs.free = v.fs.free
             /\ w.res = "OK" => w.fs.winsect = s /\ w.fs.win = v.disk[s]
             /\ w.res # "OK" => w.res = "DISK_ERR" /\ w.fs.winsect = NOSECT
             /\ v.to = -1 => w.res = "OK"
<1> DEFINE o == OK(v)
           r == DiskRead(o, s)
           x == [r EXCEPT !.fs.win = r.disk[s], !.fs.winsect = s]
           l == [r EXCEPT !.fs.winsect = NOSECT]
           w == move_window(v, s)
<1>1. w = IF o.res = "OK" THEN IF r.res = "OK" THEN x ELSE l ELSE o
  BY Zenon DEF move_window, sync_window, Then, With
<1> HIDE DEF w
<1>2. o \in CallSet /\ o.res = "OK" /\ SameCard(v, o) /\ o.media = v.media
  <2>1. o.media = v.media
    BY DEF OK, Res, CallSet
  <2> QED
    BY <2>1, OKKeeps
<1>3. o.fs = v.fs /\ o.disk = v.disk /\ o.to = v.to /\ o.n \in Nat
  BY <1>2 DEF SameCard, CallSet
<1>4. v.to = -1 => ~Fails(o)
  BY <1>2, <1>3 DEF Fails
<1>5. /\ r \in CallSet /\ SameCard(o, r) /\ r.res \in {"OK", "DISK_ERR"}
      /\ r.media = v.media
      /\ v.to = -1 => r.res = "OK"
  <2>1. r.media = v.media
    BY <1>2 DEF DiskRead, CallSet
  <2> QED
    BY <1>2, <1>4, <2>1, DiskReadKeeps
<1> HIDE DEF r, o
<1>6. r.fs = v.fs /\ r.disk = v.disk /\ r.to = v.to /\ r.from = v.from
  BY <1>2, <1>3, <1>5 DEF SameCard
<1> DEFINE c == v.disk[s]
           f == r.fs
           g == Loaded(f, c, s)
           h == Emptied(f)
           y == [r EXCEPT !.fs = g]
           z == [r EXCEPT !.fs = h]
<1>7. x = y
  BY <1>6 DEF Loaded
<1>8. /\ f \in Volumes /\ ~f.wflag /\ c \in SectorSet /\ c \in Holds(s)
      /\ f = v.fs
  BY <1>5, <1>6, AreasApart DEF CallSet, Cards
<1>9. l = z
  <2>1. f = [f EXCEPT !.wflag = FALSE]
    BY <1>8 DEF Volumes, FsSet
  <2>2. h = [f EXCEPT !.winsect = NOSECT]
    BY <1>8, <2>1 DEF Emptied, Volumes, FsSet
  <2> QED
    BY <2>2
<1> HIDE DEF x, l, c, f
<1>10. /\ g \in Volumes /\ g.win = c /\ g.winsect = s /\ ~g.wflag
       /\ g.reg = f.reg /\ g.type = f.type /\ g.free = f.free
  BY <1>8, LoadedIs
<1>11. /\ h \in Volumes /\ h.type = f.type /\ h.reg = f.reg /\ ~h.wflag
       /\ h.winsect = NOSECT /\ h.free = f.free
  BY <1>8, MountingFs
<1> HIDE DEF g, h
<1>12. y \in CallSet /\ y.fs = g /\ y.disk = r.disk /\ y.res = r.res /\ y.to = r.to /\ y.from = r.from
       /\ y.media = r.media
  BY <1>5, <1>10, SetFs
<1>13. z \in CallSet /\ z.fs = h /\ z.disk = r.disk /\ z.res = r.res /\ z.to = r.to /\ z.from = r.from
       /\ z.media = r.media
  BY <1>5, <1>11, SetFs
<1> HIDE DEF y, z
<1>14. w = IF r.res = "OK" THEN y ELSE z
  BY <1>1, <1>2, <1>7, <1>9
<1> HIDE DEF c, f, w
<1>15. CASE r.res = "OK"
  <2>1. w = y
    BY <1>14, <1>15
  <2> QED
    BY <1>5, <1>6, <1>8, <1>10, <1>12, <1>15, <2>1 DEF c, w
<1>16. CASE r.res # "OK"
  <2>1. w = z
    BY <1>14, <1>16
  <2> QED
    BY <1>5, <1>6, <1>8, <1>11, <1>13, <1>16, <2>1 DEF w
<1> QED
  BY <1>15, <1>16

Numbered1(f, fr, la, fi) == [f EXCEPT !.last = la, !.free = fr, !.fsi = fi]
Numbered2(f, fr, la, fi) == [f EXCEPT !.fsi = fi, !.free = fr, !.last = la]
SameWindow(f, g) == /\ g.win = f.win /\ g.winsect = f.winsect /\ g.wflag = f.wflag
                    /\ g.reg = f.reg /\ g.type = f.type

(* The numbers of FSInfo that a mount sets, *)
LEMMA Numbered1Is ==
  ASSUME NEW f \in Volumes, NEW fr \in Int, NEW la \in Nat, NEW fi \in Nat
  PROVE  LET g == Numbered1(f, fr, la, fi)
         IN  g \in Volumes /\ SameWindow(f, g) /\ g.free = fr
BY DEF Numbered1, Volumes, FsSet, WindowHolds, SameWindow

(* In either order. *)
LEMMA Numbered2Is ==
  ASSUME NEW f \in Volumes, NEW fr \in Int, NEW la \in Nat, NEW fi \in Nat
  PROVE  LET g == Numbered2(f, fr, la, fi)
         IN  g \in Volumes /\ SameWindow(f, g) /\ g.free = fr
BY DEF Numbered2, Volumes, FsSet, WindowHolds, SameWindow

TypedFs(f) == [f EXCEPT !.type = FatType, !.id = @ + 1, !.cdir = 0]

(* A volume whose window holds what its sector holds may be made a mounted *)
(* one.                                                                    *)
LEMMA TypedFsIs ==
  ASSUME NEW f \in Volumes, ~f.wflag,
         f.winsect # NOSECT => f.winsect \in WinSects /\ f.win \in Holds(f.winsect)
  PROVE  LET g == TypedFs(f)
         IN  /\ g \in Volumes /\ g.win = f.win /\ g.winsect = f.winsect /\ ~g.wflag
             /\ g.reg = f.reg /\ g.type = FatType /\ g.free = f.free
<1>1. 0 \in ClusterNos /\ FatType \in {2, 3}
  BY LayoutIs, GeometryAssumption DEF ClusterNos
<1> DEFINE x == [[[f EXCEPT !.type = FatType] EXCEPT !.id = f.id + 1] EXCEPT !.cdir = 0]
           g == TypedFs(f)
<1>2. g = x
  BY DEF TypedFs
<1> HIDE DEF g
<1>3. f \in FsSet /\ f.id + 1 \in Nat /\ FatType # 0
  BY <1>1 DEF Volumes, FsSet
<1>4. x \in FsSet
  BY <1>1, <1>3 DEF FsSet
<1>5. /\ x.win = f.win /\ x.winsect = f.winsect /\ x.wflag = f.wflag
      /\ x.reg = f.reg /\ x.type = FatType /\ x.free = f.free
  BY <1>3 DEF FsSet
<1> HIDE DEF x
<1>6. WindowHolds(x)
  BY <1>5, AreasApart DEF WindowHolds, NOSECT
<1> QED
  BY <1>2, <1>4, <1>5, <1>6 DEF Volumes, g

(* The object that f_mount is given is one. *)
LEMMA NoFsIs ==
  NoFs \in Volumes
<1>1. 0 \in ClusterNos /\ 0 \in WinSects /\ ZeroSector \in SectorSet
  <2>1. 0 \in ClusterNos
    BY LayoutIs DEF ClusterNos
  <2>2. FreeEntry \in EntrySet
    BY <2>1 DEF FreeEntry, Entry, EntrySet, Words
  <2>3. ZeroSector \in SectorSet
    BY <2>2 DEF ZeroSector, DirSector, SectorSet, TableSet
  <2> QED
    BY <2>1, <2>3, AreasApart
<1>2. NoFs \in FsSet
  BY <1>1 DEF NoFs, FsSet
<1> QED
  BY <1>2 DEF Volumes, WindowHolds, NoFs

(* A call starts with empty objects. *)
LEMMA CallIs ==
  ASSUME NEW d \in Cards, NEW f \in Volumes, NEW a \in Int, NEW b \in Int
  PROVE  LET v == Call(d, f, a, b)
         IN  /\ v \in CallSet /\ v.disk = d /\ v.fs = f /\ v.to = b /\ v.from = a
             /\ v.fp = NoFil /\ v.dp = NoDir /\ v.res = "OK" /\ v.n = 0
<1>1. NoFil \in FilSet /\ NoDir \in DirSet /\ "OK" \in Results /\ <<>> \in Seq(Words \union EntrySet)
  BY NoFilIs, NoDirIs, ResultsAre
<1>2. {} \in SUBSET Cards
  OBVIOUS
<1> QED
  BY <1>1, <1>2 DEF Call, CallSet

(* What a mount makes of a card that has the form of a volume: it writes   *)
(* nothing; unless a transfer fails it succeeds, and the count of free     *)
(* clusters is that of FSInfo; if it fails there is no volume.             *)
THEOREM MountIs ==
  ASSUME NEW v \in CallSet, ~v.fs.wflag
  PROVE  LET w == f_mount(v)
         IN  /\ w \in CallSet /\ w.disk = v.disk /\ w.to = v.to /\ ~w.fs.wflag
             /\ w.media = v.media
             /\ w.res # "OK" => w.fs.type = 0
             /\ w.res = "OK" => /\ w.fs.reg /\ w.fs.type = FatType
                                /\ w.fs.winsect \notin FatSects \union TableArea
             /\ v.to = -1 =>
                  /\ w.res = "OK"
                  /\ w.fs.free = IF FatType = 3 THEN v.disk[FsInfoSect].free ELSE NOCOUNT
<1> DEFINE d == v.disk
           r == [v EXCEPT !.fs.type = 0, !.fs.reg = TRUE]
           i == [r EXCEPT !.fs.type = 0, !.n = @ + 1]
           z == [i EXCEPT !.fs.wflag = FALSE, !.fs.winsect = NOSECT]
           b == move_window(z, 0)
           l == LoadFsInfo(b)
           t == [l EXCEPT !.fs.type = FatType, !.fs.id = @ + 1, !.fs.cdir = 0]
           no == Res(i, "NOT_READY")
           w == f_mount(v)
<1>1. w = IF ~r.fs.reg THEN Res(r, "NOT_ENABLED") ELSE IF r.fs.type # 0 THEN OK(r)
          ELSE IF Fails(r) THEN no
          ELSE IF b.res # "OK" THEN b
          ELSE IF b.fs.win # Boot THEN Res(b, "NO_FILESYSTEM")
          ELSE OK(t)
  BY Zenon DEF f_mount, mount_volume, LoadVolume, With
<1> HIDE DEF w, no
(* The objects that are set before anything is read. *)
<1>2. /\ z \in CallSet /\ z.disk = d /\ z.to = v.to /\ ~z.fs.wflag /\ z.media = v.media
      /\ z.fs.winsect = NOSECT /\ z.fs.reg /\ z.fs.type = 0
      /\ r.fs.reg /\ r.fs.type = 0 /\ (v.to = -1 => ~Fails(r))
      /\ i \in CallSet /\ i.disk = d /\ i.to = v.to /\ ~i.fs.wflag /\ i.fs.type = 0
      /\ i.media = v.media
  <2> DEFINE g1 == Enabled(v.fs)
             r1 == [v EXCEPT !.fs = g1]
             g2 == Unmounted(r.fs)
             i1 == [r EXCEPT !.fs = g2]
             k == r.n + 1
             i2 == [i1 EXCEPT !.n = k]
             g3 == Emptied(i.fs)
             z1 == [i EXCEPT !.fs = g3]
  <2>1. v.fs \in Volumes /\ v.n \in Nat
    BY DEF CallSet
  <2>2. r = r1
    BY DEF Enabled
  <2>3. i = i2
    BY DEF Unmounted
  <2>4. z = z1
    BY DEF Emptied
  <2> HIDE DEF z, r, i, d
  <2>5. g1 \in Volumes /\ g1.reg /\ g1.type = 0 /\ ~g1.wflag
    BY <2>1, MountingFs
  <2> HIDE DEF g1
  <2>6. r1 \in CallSet /\ r1.fs = g1 /\ r1.disk = d /\ r1.to = v.to /\ r1.n = v.n
        /\ r1.media = v.media
    BY <2>5 DEF CallSet, d
  <2> HIDE DEF r1
  <2>7. g2 \in Volumes /\ g2.reg /\ g2.type = 0 /\ ~g2.wflag
    BY <2>2, <2>5, <2>6, MountingFs
  <2> HIDE DEF g2
  <2>8. i1 \in CallSet /\ i1.fs = g2 /\ i1.disk = d /\ i1.to = v.to
        /\ i1.media = v.media
    BY <2>2, <2>6, <2>7 DEF CallSet
  <2> HIDE DEF i1
  <2>13. k \in Nat
    BY <2>1, <2>2, <2>6
  <2> HIDE DEF k
  <2>9. i2 \in CallSet /\ i2.fs = g2 /\ i2.disk = d /\ i2.to = v.to
        /\ i2.media = v.media
    BY <2>8, <2>13 DEF CallSet
  <2> HIDE DEF i2
  <2>10. g3 \in Volumes /\ g3.reg /\ g3.type = 0 /\ ~g3.wflag /\ g3.winsect = NOSECT
    BY <2>3, <2>7, <2>9, MountingFs
  <2> HIDE DEF g3
  <2>11. z1 \in CallSet /\ z1.fs = g3 /\ z1.disk = d /\ z1.to = v.to
        /\ z1.media = v.media
    BY <2>3, <2>9, <2>10 DEF CallSet
  <2> HIDE DEF z1
  <2>12. v.to = -1 => ~Fails(r)
    BY <2>1, <2>2, <2>6 DEF Fails
  <2> QED
    BY <2>2, <2>3, <2>4, <2>5, <2>6, <2>7, <2>9, <2>10, <2>11, <2>12
<1>3. /\ no \in CallSet /\ no.disk = d /\ no.to = v.to /\ ~no.fs.wflag
      /\ no.fs.type = 0 /\ no.res = "NOT_READY" /\ no.media = v.media
  <2> HIDE DEF i, d
  <2>1. no \in CallSet /\ no.res = "NOT_READY" /\ SameCard(i, no)
    BY <1>2, SetRes, ResultsAre DEF no, Res
  <2>2. no.media = i.media
    BY <1>2 DEF no, Res, CallSet
  <2> QED
    BY <1>2, <2>1, <2>2 DEF SameCard
<1> HIDE DEF z, r, i, d
<1>4. /\ b \in CallSet /\ b.disk = d /\ b.to = v.to /\ b.media = v.media
      /\ ~b.fs.wflag /\ b.fs.reg /\ b.fs.type = 0
      /\ b.res = "OK" => b.fs.winsect = 0 /\ b.fs.win = d[0]
      /\ v.to = -1 => b.res = "OK"
  <2>1. 0 \in WinSects /\ 0 # NOSECT
    BY AreasApart DEF NOSECT
  <2> QED
    BY <1>2, <2>1, MoveClean
<1> HIDE DEF b
<1>5. d \in Cards /\ d[0] = Boot /\ d[0] \in Holds(0)
  BY AreasApart DEF Cards, Holds, BootSet, CallSet, d
<1>6. w = IF Fails(r) THEN no ELSE IF b.res # "OK" THEN b ELSE OK(t)
  BY <1>1, <1>2, <1>4, <1>5
(* What LoadFsInfo makes of the volume that was found. *)
<1>7. ASSUME b.res = "OK"
      PROVE  /\ l \in CallSet /\ l.disk = d /\ l.to = v.to /\ ~l.fs.wflag /\ l.fs.reg
             /\ l.media = v.media
             /\ \/ l.fs.winsect = NOSECT
                \/ l.fs.winsect = 0 /\ l.fs.win = d[0]
                \/ FatType = 3 /\ l.fs.winsect = FsInfoSect /\ l.fs.win = d[FsInfoSect]
             /\ v.to = -1 => l.fs.free = IF FatType = 3 THEN d[FsInfoSect].free ELSE NOCOUNT
  <2> DEFINE c0 == NOCOUNT
             g4 == Numbered1(b.fs, c0, c0, 128)
             u == [b EXCEPT !.fs = g4]
             m == move_window(u, FsInfoSect)
             n == [m EXCEPT !.fs = Numbered2(m.fs, m.fs.win.free, m.fs.win.last, 0)]
  <2>1. l = IF FatType # 3 THEN u
            ELSE IF m.res # "OK" THEN m
            ELSE IF m.fs.win.k # "fsinfo" THEN [m EXCEPT !.fs.fsi = 0] ELSE n
    <3> DEFINE u0 == [b EXCEPT !.fs.last = NOCOUNT, !.fs.free = NOCOUNT, !.fs.fsi = 128]
               m0 == move_window(u0, FsInfoSect)
               n0 == [m0 EXCEPT !.fs.fsi = 0, !.fs.free = m0.fs.win.free, !.fs.last = m0.fs.win.last]
    <3>1. l = IF FatType # 3 THEN u0
              ELSE IF m0.res # "OK" THEN m0
              ELSE IF m0.fs.win.k # "fsinfo" THEN [m0 EXCEPT !.fs.fsi = 0] ELSE n0
      BY Zenon DEF LoadFsInfo, With
    <3>2. u0 = u
      BY DEF Numbered1
    <3> HIDE DEF u0, u
    <3>3. m0 = m
      BY <3>2
    <3> HIDE DEF m0, m
    <3>4. n0 = [m0 EXCEPT !.fs = Numbered2(m0.fs, m0.fs.win.free, m0.fs.win.last, 0)]
      BY DEF Numbered2
    <3> HIDE DEF n0, l
    <3> QED
      BY <3>1, <3>2, <3>3, <3>4, Zenon
  <2> HIDE DEF l
  <2>2. NOCOUNT \in Nat /\ 128 \in Nat /\ 0 \in Nat
    BY LayoutIs DEF NOCOUNT
  <2>3. g4 \in Volumes /\ SameWindow(b.fs, g4) /\ g4.free = NOCOUNT
    <3> DEFINE f0 == b.fs
               k0 == 128
    <3>1. f0 \in Volumes /\ c0 \in Int /\ c0 \in Nat /\ k0 \in Nat
      BY <1>4, <2>2 DEF CallSet
    <3> HIDE DEF f0, c0, k0
    <3>2. LET h == Numbered1(f0, c0, c0, k0)
          IN  h \in Volumes /\ SameWindow(f0, h) /\ h.free = c0
      BY <3>1, Numbered1Is
    <3> QED
      BY <3>2 DEF f0, c0, k0
  <2> HIDE DEF g4
  <2>4. /\ u \in CallSet /\ u.fs = g4 /\ u.disk = d /\ u.to = v.to /\ u.media = v.media
    BY <1>4, <2>3 DEF CallSet
  <2> HIDE DEF u
  <2>5. /\ ~u.fs.wflag /\ u.fs.winsect = 0 /\ u.fs.win = d[0] /\ u.fs.reg
        /\ u.fs.free = NOCOUNT
    BY <1>4, <1>7, <2>3, <2>4 DEF SameWindow
  <2>6. CASE FatType # 3
    <3>1. l = u
      BY <2>1, <2>6, Zenon
    <3> QED
      BY <2>4, <2>5, <2>6, <3>1
  <2>7. CASE FatType = 3
    <3>1. /\ m \in CallSet /\ m.disk = d /\ m.to = v.to /\ ~m.fs.wflag /\ m.fs.reg
          /\ m.media = v.media
          /\ m.res = "OK" => m.fs.winsect = FsInfoSect /\ m.fs.win = d[FsInfoSect]
          /\ m.res # "OK" => m.fs.winsect = NOSECT
          /\ v.to = -1 => m.res = "OK"
      <4>1. FsInfoSect \in WinSects /\ FsInfoSect # 0
        BY <2>7, AreasApart
      <4> QED
        BY <2>4, <2>5, <4>1, MoveClean
    <3> HIDE DEF m
    <3>2. CASE m.res # "OK"
      <4>1. l = m
        BY <2>1, <2>7, <3>2, Zenon
      <4> QED
        BY <3>1, <3>2, <4>1
    <3>3. CASE m.res = "OK"
      <4> DEFINE f0 == m.fs
                 e0 == d[FsInfoSect].free
                 l0 == d[FsInfoSect].last
                 h0 == Numbered2(f0, e0, l0, 0)
                 x0 == [m EXCEPT !.fs = h0]
      <4>1. d[FsInfoSect] \in InfoSet
        BY <1>5, <2>7, AreasApart DEF Cards, Holds
      <4>2. f0 \in Volumes /\ e0 \in Int /\ l0 \in Nat /\ m.fs.win = d[FsInfoSect]
        BY <3>1, <3>3, <4>1 DEF CallSet, InfoSet
      <4>3. l = x0
        <5>1. n = x0
          BY <4>2
        <5>2. m.fs.win.k = "fsinfo"
          BY <4>1, <4>2 DEF InfoSet
        <5> HIDE DEF n, x0
        <5> QED
          BY <2>1, <2>7, <3>3, <5>1, <5>2
      <4> HIDE DEF f0, e0, l0
      <4>4. h0 \in Volumes /\ SameWindow(f0, h0) /\ h0.free = e0
        BY <4>2, Numbered2Is
      <4> HIDE DEF h0
      <4>5. x0 \in CallSet /\ x0.disk = m.disk /\ x0.fs = h0 /\ x0.to = m.to
            /\ x0.media = m.media
        BY <3>1, <4>4 DEF CallSet
      <4> HIDE DEF x0
      <4> QED
        BY <2>7, <3>1, <3>3, <4>2, <4>3, <4>4, <4>5 DEF f0, e0, SameWindow
    <3> QED
      BY <3>2, <3>3
  <2> QED
    BY <2>6, <2>7
<1> HIDE DEF l
(* And the type that makes it a mounted one. *)
<1>8. ASSUME b.res = "OK"
      PROVE  /\ t \in CallSet /\ t.disk = d /\ t.to = v.to /\ ~t.fs.wflag /\ t.fs.reg
             /\ t.fs.type = FatType /\ t.fs.winsect \notin FatSects \union TableArea
             /\ t.media = v.media
             /\ t.fs.free = l.fs.free
  <2>1. /\ l.fs.winsect # NOSECT => l.fs.winsect \in WinSects /\ l.fs.win \in Holds(l.fs.winsect)
        /\ l.fs.winsect \notin FatSects \union TableArea
    <3>1. 0 \in WinSects /\ 0 \notin FatSects /\ NOSECT \notin FatSects
      BY AreasApart, LayoutIs DEF FatSects, NOSECT
    <3>2. FatType = 3 => FsInfoSect \in WinSects /\ FsInfoSect \notin FatSects
      BY AreasApart, LayoutIs DEF FatSects
    <3>4. 0 \notin TableArea /\ NOSECT \notin TableArea
      BY AreasApart DEF NOSECT
    <3>5. FatType = 3 => FsInfoSect \notin TableArea
      <4> SUFFICES ASSUME FatType = 3, FsInfoSect \in TableArea PROVE FALSE
        OBVIOUS
      <4>1. FsInfoSect \in Nat /\ FsInfoSect < FatBase
        BY AreasApart
      <4>2. FsInfoSect >= RootSect
        BY AreasApart
      <4> QED
        BY <4>1, <4>2, LayoutIs
    <3>3. \A s \in WinSects : s \in Sectors /\ d[s] \in Holds(s)
      BY <1>5, AreasApart DEF Cards
    <3> QED
      BY <1>7, <1>8, <3>1, <3>2, <3>3, <3>4, <3>5
  <2> DEFINE g5 == TypedFs(l.fs)
             y5 == [l EXCEPT !.fs = g5]
  <2>2. t = y5
    BY DEF TypedFs
  <2> HIDE DEF t
  <2>3. /\ g5 \in Volumes /\ g5.winsect = l.fs.winsect /\ ~g5.wflag
        /\ g5.reg = l.fs.reg /\ g5.type = FatType /\ g5.free = l.fs.free
    <3>1. l.fs \in Volumes
      BY <1>7, <1>8 DEF CallSet
    <3> QED
      BY <1>7, <1>8, <2>1, <3>1, TypedFsIs
  <2> HIDE DEF g5
  <2>4. y5 \in CallSet /\ y5.fs = g5 /\ y5.disk = d /\ y5.to = v.to /\ y5.media = v.media
    BY <1>7, <1>8, <2>3 DEF CallSet
  <2> HIDE DEF y5
  <2> QED
    BY <1>7, <1>8, <2>1, <2>2, <2>3, <2>4
<1> HIDE DEF t
<1> DEFINE o == OK(t)
<1>9. b.res = "OK" => /\ o \in CallSet /\ o.res = "OK" /\ SameCard(t, o)
                     /\ o.media = v.media
  <2>1. b.res = "OK" => o.media = v.media
    BY <1>8 DEF OK, Res, CallSet
  <2> QED
    BY <1>8, <2>1, OKKeeps
<1> HIDE DEF o
<1>10. FatType # 0
  BY GeometryAssumption
<1>11. CASE Fails(r)
  BY <1>2, <1>3, <1>6, <1>11 DEF w, d
<1>12. CASE ~Fails(r) /\ b.res # "OK"
  BY <1>4, <1>6, <1>12 DEF w, d
<1>13. CASE ~Fails(r) /\ b.res = "OK"
  <2>1. w = o
    BY <1>6, <1>13 DEF o
  <2> QED
    BY <1>7, <1>8, <1>9, <1>10, <1>13, <2>1 DEF SameCard, w, d
<1> QED
  BY <1>11, <1>12, <1>13

(* A mounted card is ready for calls; with q, when the copies of its FAT   *)
(* agree and the count in FSInfo is right.                                 *)
LEMMA MountGood ==
  ASSUME NEW v \in CallSet, ~v.fs.wflag, NEW q \in BOOLEAN,
         q => /\ v.to = -1 /\ FatCopiesSame(v.disk)
              /\ FatType = 3 => v.disk[FsInfoSect].free = FreeClusters(v.disk)
  PROVE  LET w == f_mount(v)
         IN  /\ w \in CallSet /\ w.disk = v.disk
             /\ w.res = "OK" => w \in Good(q)
             /\ w.res # "OK" => ~q /\ w.fs.type = 0
<1> DEFINE d == v.disk
           w == f_mount(v)
<1>1. /\ w \in CallSet /\ w.disk = d /\ w.to = v.to /\ ~w.fs.wflag
      /\ w.res # "OK" => w.fs.type = 0
      /\ w.res = "OK" => w.fs.reg /\ w.fs.type = FatType /\ w.fs.winsect \notin FatSects
      /\ v.to = -1 => /\ w.res = "OK"
                      /\ w.fs.free = IF FatType = 3 THEN d[FsInfoSect].free ELSE NOCOUNT
  BY MountIs
<1> HIDE DEF w
<1> DEFINE f == w.fs
<1>2. FatType # 0
  BY GeometryAssumption
<1>3. f.winsect \notin FatSects => Coherent(d, f)
  BY DEF Coherent
<1>4. Seen(d, f) = d
  BY <1>1 DEF Seen
<1>5. Freed(Fat(d, f)) = {c \in 2 .. NFatEnt - 1 : FatEntry(d, c) = 0}
  BY <1>4, LayoutIs DEF Freed, Fat, RealClusters, ClusterNos
<1>6. q => Counted(d, f)
  BY <1>1, <1>5 DEF Counted, FreeClusters
<1>7. w.res = "OK" => w \in Good(q)
  BY <1>1, <1>2, <1>3, <1>6 DEF Good, Steady, Healthy
<1> QED
  BY <1>1, <1>7 DEF w

(* The call that goes on where another ended. *)
LEMMA StartAfter ==
  ASSUME NEW q \in BOOLEAN, NEW v \in Good(q), NEW a \in Int, NEW b \in Int,
         q => b = -1
  PROVE  Call(v.disk, v.fs, a, b) \in Good(q)
<1> DEFINE d == v.disk
           f == v.fs
           w == Call(d, f, a, b)
<1>1. v \in CallSet /\ f.reg /\ f.type # 0 /\ (q => Healthy(d, f) /\ Counted(d, f))
  BY DEF Good, Steady
<1>2. d \in Cards /\ f \in Volumes
  BY <1>1 DEF CallSet
<1> HIDE DEF d, f
<1>3. w \in CallSet /\ w.disk = d /\ w.fs = f /\ w.to = b
  BY <1>2, CallIs
<1> HIDE DEF w
<1>4. w \in Good(q)
  BY <1>1, <1>3 DEF Good, Steady
<1> QED
  BY <1>4 DEF w, d, f
=============================================================================

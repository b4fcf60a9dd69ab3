---------------------------- MODULE SgcApiProofs ----------------------------
(***************************************************************************)
(* The file API over FatFs: what the calls keep, they keep in every        *)
(* behaviour, for every number of descriptors, paths, lengths and offsets, *)
(* any number of calls and of power losses.                                *)
(***************************************************************************)
EXTENDS SgcApi, FatFsProofs

-----------------------------------------------------------------------------
(* The inductive invariant.  The card's sectors hold what belongs there;   *)
(* between two calls the volume, if it is mounted, is as a call of FatFs   *)
(* needs it; and every file object has the sectors of its entry and, if it *)
(* has one, of the byte it is at.                                          *)
CardInv  == disk \in Cards /\ cuts \in Nat
MountInv == IF fs.reg THEN Call(disk, fs, 0, -1) \in Good(cuts = 0)
            ELSE fs = NoFs /\ (cuts = 0 => disk = FreshVolume)
FilesInv == /\ files \in [Fds -> FilSet] /\ files_open \subseteq Fds
            /\ \A f \in Fds : FileOK(files[f])
DirInv   == diropen[1] \in DirSet
SgcInv   == CardInv /\ MountInv /\ FilesInv /\ DirInv

(* It holds at the start, *)
LEMMA SgcInit ==
  Init => SgcInv
<1> SUFFICES ASSUME Init PROVE SgcInv
  OBVIOUS
<1> USE DEF Init
<1>1. CardInv
  BY FreshIsCard DEF CardInv
<1>2. MountInv
  <2>1. ~NoFs.reg
    BY DEF NoFs
  <2> QED
    BY <2>1 DEF MountInv
<1>3. FilesInv
  <2>1. FileOK(NoFil)
    BY DEF FileOK, NoFil
  <2> QED
    BY <2>1, NoFilIs DEF FilesInv
<1>4. DirInv
  BY NoDirIs DEF DirInv
<1> QED
  BY <1>1, <1>2, <1>3, <1>4 DEF SgcInv

(* The end of a call. *)
LEMMA EndsKeeps ==
  ASSUME CardInv, NEW v \in Good(cuts = 0), NEW c, Ends(v, c)
  PROVE  CardInv' /\ MountInv'
<1>1. v \in CallSet /\ v.fs.reg /\ v.disk \in Cards
  BY DEF Good, Steady, CallSet
<1>2. disk' = v.disk /\ fs' = v.fs /\ cuts' = cuts
  BY DEF Ends
<1>3. Call(v.disk, v.fs, 0, -1) \in Good(cuts = 0)
  <2> DEFINE q == cuts = 0
             b == -1
  <2>1. q \in BOOLEAN /\ v \in Good(q) /\ b \in Int /\ (q => b = -1)
    OBVIOUS
  <2> HIDE DEF q, b
  <2>2. Call(v.disk, v.fs, 0, b) \in Good(q)
    BY <2>1, StartAfter
  <2> QED
    BY <2>2 DEF q, b
<1>4. CardInv'
  BY <1>1, <1>2 DEF CardInv
<1>5. Call(disk', fs', 0, -1) \in Good(cuts' = 0)
  BY <1>2, <1>3
<1>6. MountInv'
  BY <1>1, <1>2, <1>5 DEF MountInv
<1> QED
  BY <1>4, <1>6

(* A power loss in the middle of it. *)
LEMMA CutKeeps ==
  ASSUME CardInv, NEW v \in Good(cuts = 0), NEW op, NEW on, Cut(v, op, on)
  PROVE  SgcInv'
<1>1. v \in CallSet /\ v.media \subseteq Cards
  BY DEF Good, Steady, CallSet
<1>2. disk' \in Cards /\ fs' = NoFs /\ cuts' = cuts + 1
  BY <1>1 DEF Cut, CardInv
<1>3. CardInv'
  BY <1>2 DEF CardInv
<1>4. MountInv'
  <2>1. ~NoFs.reg
    BY DEF NoFs
  <2>2. cuts' # 0
    BY <1>2 DEF CardInv
  <2> QED
    BY <1>2, <2>1, <2>2 DEF MountInv
<1>5. FilesInv'
  <2>1. FileOK(NoFil)
    BY DEF FileOK, NoFil
  <2>2. files' = [f \in Fds |-> NoFil] /\ files_open' = {}
    BY DEF Cut
  <2> QED
    BY <2>1, <2>2, NoFilIs DEF FilesInv
<1>6. DirInv'
  BY NoDirIs DEF Cut, DirInv
<1> QED
  BY <1>3, <1>4, <1>5, <1>6 DEF SgcInv

(* A call starts on the volume that the last one left, and works on the    *)
(* file object of its descriptor.                                          *)
LEMMA StartGood ==
  ASSUME SgcInv, Ready
  PROVE  Start \in Good(cuts = 0) /\ (cuts = 0) \in BOOLEAN
BY DEF SgcInv, MountInv, Ready, Start

(* On the file object of any descriptor, *)
LEMMA UsingGood ==
  ASSUME SgcInv, Ready, NEW f \in Fds
  PROVE  Using(f) \in Fine(cuts = 0)
<1> DEFINE q == cuts = 0
           s == Start
           x == files[f]
           w == WithFp(s, x)
<1>1. s \in Good(q) /\ q \in BOOLEAN
  BY StartGood
<1>2. x \in FilSet /\ FileOK(x)
  BY DEF SgcInv, FilesInv
<1>3. Using(f) = w
  BY DEF Using, WithFp
<1> HIDE DEF s, x, q
<1>4. w \in Good(q) /\ w.fp = x
  BY <1>1, <1>2, FpGoes
<1> HIDE DEF w
<1>5. w \in Fine(q)
  BY <1>2, <1>4 DEF Fine
<1> QED
  BY <1>3, <1>5 DEF q

(* Whose object the call leaves as it found it: right. *)
LEMMA FineIsGood ==
  ASSUME NEW q \in BOOLEAN, NEW v \in Fine(q)
  PROVE  v \in Good(q) /\ v.fp \in FilSet /\ FileOK(v.fp) /\ v.dp \in DirSet
BY DEF Fine, Good, Steady, CallSet

(* A call on a file keeps the invariant, also if the power is lost in it, *)
LEMMA WorksKeeps ==
  ASSUME SgcInv, NEW f \in Fds, NEW v \in Fine(cuts = 0), NEW c, NEW cut,
         Works(f, v, c, cut)
  PROVE  SgcInv'
<1>1. v \in Good(cuts = 0) /\ v.fp \in FilSet /\ FileOK(v.fp)
  BY FineIsGood
<1>2. CardInv /\ FilesInv /\ DirInv
  BY DEF SgcInv
<1>3. CASE Cut(v, c.op, {held[f].path})
  BY <1>1, <1>2, <1>3, CutKeeps
<1>4. CASE /\ Ends(v, c) /\ files' = [files EXCEPT ![f] = v.fp]
           /\ files_open' = files_open /\ diropen' = diropen
  <2>1. CardInv' /\ MountInv'
    BY <1>1, <1>2, <1>4, EndsKeeps
  <2>2. FilesInv'
    BY <1>1, <1>2, <1>4 DEF FilesInv
  <2>3. DirInv'
    BY <1>2, <1>4 DEF DirInv
  <2> QED
    BY <2>1, <2>2, <2>3 DEF SgcInv
<1> QED
  BY <1>3, <1>4 DEF Works, NoDirs

(* And so does a call by name. *)
LEMMA NamedKeeps ==
  ASSUME SgcInv, NEW v \in Good(cuts = 0), NEW c, NEW on, Named(v, c, on)
  PROVE  SgcInv'
<1>1. CardInv /\ FilesInv /\ DirInv
  BY DEF SgcInv
<1>2. CASE Cut(v, c.op, on)
  BY <1>1, <1>2, CutKeeps
<1>3. CASE Ends(v, c) /\ NoFile /\ NoDirs
  <2>1. CardInv' /\ MountInv'
    BY <1>1, <1>3, EndsKeeps
  <2>2. FilesInv'
    BY <1>1, <1>3 DEF FilesInv, NoFile
  <2>3. DirInv'
    BY <1>1, <1>3 DEF DirInv, NoDirs
  <2> QED
    BY <2>1, <2>2, <2>3 DEF SgcInv
<1> QED
  BY <1>2, <1>3 DEF Named

(* The calls, one by one. *)
LEMMA InitKeeps ==
  ASSUME SgcInv, sgc_init
  PROVE  SgcInv'
<1> DEFINE w == f_mount(Call(disk, NoFs, 0, -1))
<1>1. /\ disk \in Cards /\ cuts \in Nat /\ fs = NoFs /\ FilesInv /\ DirInv
      /\ (cuts = 0 => disk = FreshVolume)
  BY DEF SgcInv, CardInv, MountInv, sgc_init
<1>2. \E v \in {f_mount(Start)} : Ends(v, [op |-> "init", ret |-> v.res])
  BY DEF sgc_init
<1>3. Ends(w, [op |-> "init", ret |-> w.res])
  BY <1>1, <1>2 DEF Start
<1>4. w \in CallSet /\ w.disk = disk /\ Call(disk, w.fs, 0, -1) \in Good(cuts = 0)
  <2> DEFINE q == cuts = 0
             v == Call(disk, NoFs, 0, -1)
  <2>1. q \in BOOLEAN
    OBVIOUS
  <2>2. q => /\ FatCopiesSame(disk)
             /\ FatType = 3 => disk[FsInfoSect].free = FreeClusters(disk)
    <3>1. FatType = 3 => FreshVolume[FsInfoSect].free = Clusters - 1
      BY AreasApart DEF FreshVolume, FsInfo
    <3> QED
      BY <1>1, <3>1, FreshIsCard, FreshCount
  <2> HIDE DEF q
  <2>4. v \in CallSet /\ v.disk = disk /\ v.to = -1 /\ ~v.fs.wflag
    <3>1. v \in CallSet /\ v.disk = disk /\ v.to = -1 /\ v.fs = NoFs
      BY <1>1, NoFsIs, CallIs
    <3> QED
      BY <3>1 DEF NoFs
  <2> HIDE DEF v
  <2>5. f_mount(v) \in CallSet /\ f_mount(v).disk = disk /\ f_mount(v) \in Good(q)
    <3>1. f_mount(v).res = "OK"
      BY <2>4, MountIs
    <3> QED
      BY <2>1, <2>2, <2>4, <3>1, MountGood
  <2>3. w \in CallSet /\ w.disk = disk /\ Call(disk, w.fs, 0, -1) \in Good(q)
    <3>1. w = f_mount(v)
      BY DEF v
    <3> HIDE DEF w
    <3> QED
      BY <2>1, <2>5, <3>1, StartAfter
  <2> QED
    BY <2>3 DEF q
<1> HIDE DEF w
<1>5. disk' = disk /\ fs' = w.fs /\ cuts' = cuts
  BY <1>3, <1>4 DEF Ends
<1>6. CardInv'
  BY <1>1, <1>5 DEF CardInv
<1>7. MountInv'
  <2>1. w.fs.reg
    <3> DEFINE u == Call(disk, w.fs, 0, -1)
    <3>1. u.fs = w.fs
      BY DEF Call
    <3>2. u.fs.reg
      BY <1>4 DEF Good, Steady
    <3> QED
      BY <3>1, <3>2
  <2> QED
    BY <1>4, <1>5, <2>1 DEF MountInv
<1>8. FilesInv' /\ DirInv'
  BY <1>1 DEF sgc_init, NoFile, NoDirs, FilesInv, DirInv
<1> QED
  BY <1>6, <1>7, <1>8 DEF SgcInv

(* A free descriptor is one of the table's. *)
LEMMA AllocIs ==
  ASSUME files_open \subseteq Fds, files_open # Fds
  PROVE  alloc_fd \in Fds
<1> DEFINE T == Fds \ files_open
<1>1. T \subseteq Nat /\ T # {}
  <2>1. MAX_FILES \in Nat
    BY ClientAssumption
  <2>2. Fds \subseteq Nat
    BY <2>1 DEF Fds
  <2>3. T # {}
    OBVIOUS
  <2> QED
    BY <2>2, <2>3
<1> HIDE DEF T
<1>2. \E x \in T : \A y \in T : x <= y
  BY <1>1, LeastElement
<1>3. alloc_fd \in T
  BY <1>2 DEF alloc_fd, T
<1> QED
  BY <1>3 DEF T

(* The client's paths are paths. *)
LEMMA PathsAre ==
  /\ Names \subseteq PathSet /\ Dirs \subseteq PathSet
  /\ Moves \subseteq PathSet \X PathSet
<1>1. \A S, T : S \subseteq T => \A x \in Seq(S) : x \in Seq(T)
  OBVIOUS
<1>2. STRING \subseteq Words
  BY Zenon DEF Words
<1>3. \A x \in Seq(STRING) : x \in Seq(Words)
  BY <1>1, <1>2, Zenon
<1>4. PathNames \subseteq PathSet
  <2> DEFINE A == Seq(STRING)
             B == Seq(Words)
  <2>1. \A x \in A : x \in B
    BY <1>3
  <2> HIDE DEF A, B
  <2>2. [abs : BOOLEAN, seg : A] \subseteq [abs : BOOLEAN, seg : B]
    BY <2>1
  <2> QED
    BY <2>2 DEF A, B, PathNames, PathSet
<1> QED
  BY <1>4, ClientAssumption

(* Sgc_open gives a descriptor the object that f_open made, or none. *)
LEMMA OpenKeeps ==
  ASSUME SgcInv, Open
  PROVE  SgcInv'
<1>1. PICK n \in Names, mode \in Modes : sgc_open(n, mode)
  BY DEF Open
<1>2. CardInv /\ FilesInv /\ DirInv /\ Ready
  BY DEF SgcInv, Open
<1>3. n \in PathSet
  BY PathsAre
<1> DEFINE Answer(r) == [op |-> "open", path |-> n, mode |-> mode, ret |-> r]
<1>4. CASE Ends(Start, Answer(TOO_MANY_OPEN_FILES)) /\ NoFile /\ NoDirs
  <2>1. CardInv' /\ MountInv'
    BY <1>2, <1>4, StartGood, EndsKeeps
  <2>2. FilesInv' /\ DirInv'
    BY <1>2, <1>4 DEF FilesInv, DirInv, NoFile, NoDirs
  <2> QED
    BY <2>1, <2>2 DEF SgcInv
<1>5. ASSUME files_open # Fds,
             NEW v \in {f_open(Using(alloc_fd), n, mode)},
             \/ Opened(v, n, Answer(IF v.res = "OK" THEN alloc_fd ELSE -1))
             \/ Cut(v, "open", {AbsPath(n)})
      PROVE  SgcInv'
  <2> DEFINE c == Answer(IF v.res = "OK" THEN alloc_fd ELSE -1)
  <2>1. alloc_fd \in Fds
    BY <1>2, <1>5, AllocIs DEF FilesInv
  <2>2. v \in Fine(cuts = 0)
    <3> DEFINE u == Using(alloc_fd)
               q == cuts = 0
    <3>1. u \in Fine(q) /\ q \in BOOLEAN
      BY <1>2, <2>1, UsingGood
    <3> HIDE DEF u, q
    <3>2. u \in Good(q)
      BY <3>1, FineIsGood
    <3>3. f_open(u, n, mode) \in Fine(q)
      BY <1>3, <3>1, <3>2, FOpenKeeps
    <3> QED
      BY <3>3 DEF u, q
  <2>3. v \in Good(cuts = 0) /\ v.fp \in FilSet /\ FileOK(v.fp)
    BY <2>2, FineIsGood
  <2>4. CASE Opened(v, n, c)
    <3>1. Ends(v, c) /\ diropen' = diropen
      BY <2>4 DEF Opened, NoDirs
    <3>2. files' = [files EXCEPT ![alloc_fd] = v.fp] /\ files_open' \subseteq files_open \union {alloc_fd}
      BY <2>4 DEF Opened
    <3> HIDE DEF c
    <3>3. CardInv' /\ MountInv'
      BY <1>2, <2>3, <3>1, EndsKeeps
    <3>4. FilesInv'
      BY <1>2, <2>1, <2>3, <3>2 DEF FilesInv
    <3>5. DirInv'
      BY <1>2, <3>1 DEF DirInv
    <3> QED
      BY <3>3, <3>4, <3>5 DEF SgcInv
  <2>5. CASE Cut(v, "open", {AbsPath(n)})
    BY <1>2, <2>3, <2>5, CutKeeps
  <2> QED
    BY <1>5, <2>4, <2>5
<1> QED
  BY <1>1, <1>4, <1>5 DEF sgc_open

(* Sgc_close frees it. *)
LEMMA CloseKeeps ==
  ASSUME SgcInv, Close
  PROVE  SgcInv'
<1>1. PICK f \in files_open : sgc_close(f)
  BY DEF Close
<1>2. CardInv /\ FilesInv /\ DirInv /\ Ready /\ f \in Fds
  BY DEF SgcInv, Close, FilesInv
<1> DEFINE v == f_close(Using(f))
           c == [op |-> "close", fd |-> f, ret |-> IF v.res = "OK" THEN 0 ELSE v.res]
<1>3. v \in Fine(cuts = 0)
  <2> DEFINE u == Using(f)
             q == cuts = 0
  <2>1. u \in Fine(q) /\ q \in BOOLEAN
    BY <1>2, UsingGood
  <2> HIDE DEF u, q
  <2>2. f_close(u) \in Fine(q)
    BY <2>1, FCloseKeeps
  <2> QED
    BY <2>2 DEF u, q
<1>4. \/ /\ Ends(v, c) /\ files' = [files EXCEPT ![f] = v.fp]
         /\ files_open' = files_open \ {f} /\ diropen' = diropen
      \/ Cut(v, "close", {held[f].path})
  BY <1>1 DEF sgc_close, NoDirs
<1> HIDE DEF v, c
<1>5. v \in Good(cuts = 0) /\ v.fp \in FilSet /\ FileOK(v.fp)
  BY <1>3, FineIsGood
<1>6. CASE /\ Ends(v, c) /\ files' = [files EXCEPT ![f] = v.fp]
           /\ files_open' = files_open \ {f} /\ diropen' = diropen
  <2>1. CardInv' /\ MountInv'
    BY <1>2, <1>5, <1>6, EndsKeeps
  <2>2. FilesInv'
    BY <1>2, <1>5, <1>6 DEF FilesInv
  <2>3. DirInv'
    BY <1>2, <1>6 DEF DirInv
  <2> QED
    BY <2>1, <2>2, <2>3 DEF SgcInv
<1>7. CASE Cut(v, "close", {held[f].path})
  BY <1>2, <1>5, <1>7, CutKeeps
<1> QED
  BY <1>4, <1>6, <1>7

(* Sgc_read, *)
LEMMA ReadKeeps ==
  ASSUME SgcInv, Read
  PROVE  SgcInv'
<1>1. PICK f \in files_open, l \in Lengths : sgc_read(f, l)
  BY DEF Read
<1>2. Ready /\ f \in Fds /\ l \in Nat
  BY ClientAssumption DEF SgcInv, FilesInv, Read
<1> DEFINE u == Using(f)
           v == f_read(u, l)
<1>3. v \in Fine(cuts = 0)
  <2> DEFINE q == cuts = 0
  <2>1. u \in Fine(q) /\ q \in BOOLEAN
    BY <1>2, UsingGood
  <2> HIDE DEF u, q
  <2>2. v \in Fine(q)
    BY <1>2, <2>1, FReadKeeps
  <2> QED
    BY <2>2 DEF q
<1> DEFINE c == [op |-> "read", fd |-> f, len |-> l, bytes |-> v.buf,
                 ret |-> v.cnt]
<1>4. Works(f, v, c, held[f].cut)
  BY <1>1 DEF sgc_read
<1> HIDE DEF v, c
<1> QED
  BY <1>2, <1>3, <1>4, WorksKeeps

(* Sgc_truncate *)
LEMMA TruncateKeeps ==
  ASSUME SgcInv, Truncate
  PROVE  SgcInv'
<1>1. PICK f \in files_open : sgc_truncate(f)
  BY DEF Truncate
<1>2. Ready /\ f \in Fds
  BY DEF SgcInv, FilesInv, Truncate
<1> DEFINE u == Using(f)
           v == f_truncate(u)
<1>3. v \in Fine(cuts = 0)
  <2> DEFINE q == cuts = 0
  <2>1. u \in Fine(q) /\ q \in BOOLEAN
    BY <1>2, UsingGood
  <2> HIDE DEF u, q
  <2>2. v \in Fine(q)
    BY <1>2, <2>1, FTruncateKeeps
  <2> QED
    BY <2>2 DEF q
<1> DEFINE c == [op |-> "truncate", fd |-> f, ret |-> v.fp.fptr]
<1>4. Works(f, v, c, held[f].cut \/ v.fp.size < files[f].size)
  BY <1>1 DEF sgc_truncate
<1> HIDE DEF v, c
<1> QED
  BY <1>2, <1>3, <1>4, WorksKeeps

(* And sgc_write work on the object of the descriptor. *)
LEMMA WriteKeeps ==
  ASSUME SgcInv, Write
  PROVE  SgcInv'
<1>1. PICK f \in files_open, l \in Lengths : sgc_write(f, l)
  BY DEF Write
<1>2. Ready /\ f \in Fds /\ l \in Nat
  BY ClientAssumption DEF SgcInv, FilesInv, Write
<1> DEFINE b == [i \in 1..l |-> Symbol(f)]
           u == Using(f)
           v == f_write(u, b)
<1>3. v \in Fine(cuts = 0)
  <2> DEFINE q == cuts = 0
  <2>1. u \in Fine(q) /\ q \in BOOLEAN
    BY <1>2, UsingGood
  <2>3. b \in Seq(Words)
    <3>1. Symbol(f) \in Words
      BY DEF Symbol, Words
    <3> QED
      BY <1>2, <3>1
  <2> HIDE DEF u, q, b
  <2>2. v \in Fine(q)
    BY <2>1, <2>3, FWriteKeeps
  <2> QED
    BY <2>2 DEF q
<1> DEFINE c == [op |-> "write", fd |-> f, data |-> b, ret |-> v.cnt]
<1>4. Works(f, v, c, held[f].cut)
  BY <1>1 DEF sgc_write
<1> HIDE DEF v, c
<1> QED
  BY <1>2, <1>3, <1>4, WorksKeeps

(* A seek synchronises first, and then goes where the offset, which stands *)
(* for the origin as well, says.                                           *)
LEMMA SeekedKeeps ==
  ASSUME NEW q \in BOOLEAN, NEW v \in Fine(q), NEW o \in Nat
  PROVE  Seeked(v, o) \in Fine(q)
<1> DEFINE s == f_sync(v)
           t == OK(s)
           at == o + (CASE o = 0 -> 0 [] o = 1 -> s.fp.fptr [] o = 2 -> s.fp.size)
           to == at % (MaxFileSize + 1)
<1>1. Seeked(v, o) = IF o \notin 0..2 THEN s ELSE f_lseek(t, to)
  BY Zenon DEF Seeked, With
<1>2. s \in Fine(q)
  BY FSyncKeeps
<1> HIDE DEF s
<1>3. t \in Fine(q)
  <2>1. s \in CallSet
    BY <1>2 DEF Fine, Good, Steady
  <2>2. t \in CallSet /\ SameCard(s, t) /\ t.fp = s.fp
    BY <2>1, OKKeeps DEF SameRest, SameWork
  <2> HIDE DEF t
  <2>3. t \in Good(q)
    BY <1>2, <2>2, SameCardKeeps DEF Fine
  <2> QED
    BY <1>2, <2>2, <2>3 DEF Fine
<1> HIDE DEF t
<1>4. ASSUME o \in 0..2 PROVE to \in Nat
  <2>1. s.fp.fptr \in Nat /\ s.fp.size \in Nat
    BY <1>2, FineIsGood DEF FilSet
  <2>2. o = 0 \/ o = 1 \/ o = 2
    BY <1>4
  <2>3. at \in Nat
    BY <2>1, <2>2
  <2> HIDE DEF at
  <2> QED
    BY <2>3, GeometryAssumption
<1> HIDE DEF to
<1>5. CASE o \in 0..2
  <2>1. to \in Nat
    BY <1>4, <1>5
  <2>2. f_lseek(t, to) \in Fine(q)
    BY <1>3, <2>1, FLseekKeeps
  <2> QED
    BY <1>1, <1>5, <2>2
<1> QED
  BY <1>1, <1>2, <1>5

(* Sgc_seek keeps the invariant, whatever origin it is given, and so does  *)
(* sgc_sync.                                                               *)
LEMMA SeekSyncKeeps ==
  ASSUME SgcInv, Seek \/ Sync
  PROVE  SgcInv'
<1>1. ASSUME NEW f \in files_open, NEW o \in Nat, NEW c,
             Works(f, Seeked(Using(f), o), c, FALSE), Ready
      PROVE  SgcInv'
  <2> DEFINE u == Using(f)
             v == Seeked(u, o)
             q == cuts = 0
  <2>1. f \in Fds
    BY DEF SgcInv, FilesInv
  <2>2. u \in Fine(q) /\ q \in BOOLEAN
    BY <1>1, <2>1, UsingGood
  <2>3. v \in Fine(q)
    <3> HIDE DEF u, q
    <3> QED
      BY <2>2, SeekedKeeps
  <2> HIDE DEF v
  <2> QED
    BY <1>1, <2>1, <2>3, WorksKeeps DEF v
<1>2. CASE Seek
  <2>1. PICK f \in files_open, o \in Offsets, w \in Whences : sgc_seek(f, o, w)
    BY <1>2 DEF Seek
  <2> DEFINE c == [op |-> "seek", fd |-> f, offset |-> o, whence |-> w,
                   ret |-> Seeked(Using(f), o).fp.fptr]
  <2>2. Works(f, Seeked(Using(f), o), c, FALSE)
    BY <2>1 DEF sgc_seek
  <2>3. o \in Nat /\ Ready
    BY <1>2, ClientAssumption DEF Seek
  <2> HIDE DEF c
  <2> QED
    BY <1>1, <2>2, <2>3
<1>3. CASE Sync
  <2>1. PICK f \in files_open : sgc_sync(f)
    BY <1>3 DEF Sync
  <2> DEFINE c == [op |-> "sync", fd |-> f, ret |-> Seeked(Using(f), 0).fp.fptr]
  <2>2. Works(f, Seeked(Using(f), 0), c, FALSE)
    BY <2>1 DEF sgc_sync
  <2>3. Ready
    BY <1>3 DEF Sync
  <2> HIDE DEF c
  <2> QED
    BY <1>1, <2>2, <2>3
<1> QED
  BY <1>2, <1>3

(* A call on a descriptor that is not in use changes nothing. *)
LEMMA BadFdKeeps ==
  ASSUME SgcInv, BadFd
  PROVE  SgcInv'
<1>1. CardInv /\ FilesInv /\ DirInv /\ Ready
  BY DEF SgcInv, BadFd
<1>2. PICK f \in Fds \ files_open : Unheld(f)
  BY DEF BadFd
<1>3. CardInv' /\ MountInv'
  BY <1>1, <1>2, StartGood, EndsKeeps DEF Unheld
<1>4. FilesInv' /\ DirInv'
  BY <1>1, <1>2 DEF Unheld, FilesInv, DirInv, NoFile, NoDirs
<1> QED
  BY <1>3, <1>4 DEF SgcInv

(* The calls by name: sgc_stat, *)
LEMMA SgcStatKeeps ==
  ASSUME SgcInv, Stat
  PROVE  SgcInv'
<1> DEFINE u == Start
           q == cuts = 0
<1>1. PICK n \in Names : sgc_stat(n)
  BY DEF Stat
<1>2. Ready /\ n \in PathSet
  BY PathsAre DEF Stat
<1> DEFINE v == f_stat(u, n)
<1>3. v \in Good(q)
  <2>1. u \in Good(q) /\ q \in BOOLEAN
    BY <1>2, StartGood
  <2> HIDE DEF u, q
  <2> QED
    BY <1>2, <2>1, StatKeeps
<1> DEFINE c == [op |-> "stat", path |-> n, res |-> v.res, isdir |-> v.res = "OK" /\ v.buf[1].dir,
                 size |-> IF v.res = "OK" THEN v.buf[1].sz ELSE 0]
<1>4. Named(v, c, {})
  BY <1>1 DEF sgc_stat
<1> HIDE DEF v, c
<1> QED
  BY <1>3, <1>4, NamedKeeps

(* Sgc_unlink, *)
LEMMA SgcUnlinkKeeps ==
  ASSUME SgcInv, Unlink
  PROVE  SgcInv'
<1> DEFINE u == Start
           q == cuts = 0
<1>1. PICK n \in Names : sgc_unlink(n)
  BY DEF Unlink
<1>2. Ready /\ n \in PathSet
  BY PathsAre DEF Unlink
<1> DEFINE v == f_unlink(u, n)
<1>3. v \in Good(q)
  <2>1. u \in Good(q) /\ q \in BOOLEAN
    BY <1>2, StartGood
  <2> HIDE DEF u, q
  <2>2. Went(q, u, v)
    BY <1>2, <2>1, UnlinkKeeps
  <2> QED
    BY <2>2 DEF Went
<1> DEFINE c == [op |-> "unlink", path |-> n, res |-> v.res]
<1>4. Named(v, c, {AbsPath(n)})
  BY <1>1 DEF sgc_unlink
<1> HIDE DEF v, c
<1> QED
  BY <1>3, <1>4, NamedKeeps

(* Sgc_mkdir, *)
LEMMA SgcMkdirKeeps ==
  ASSUME SgcInv, Mkdir
  PROVE  SgcInv'
<1> DEFINE u == Start
           q == cuts = 0
<1>1. PICK n \in Dirs : sgc_mkdir(n)
  BY DEF Mkdir
<1>2. Ready /\ n \in PathSet
  BY PathsAre DEF Mkdir
<1> DEFINE v == f_mkdir(u, n)
<1>3. v \in Good(q)
  <2>1. u \in Good(q) /\ q \in BOOLEAN
    BY <1>2, StartGood
  <2> HIDE DEF u, q
  <2>2. Went(q, u, v)
    BY <1>2, <2>1, MkdirKeeps
  <2> QED
    BY <2>2 DEF Went
<1> DEFINE c == [op |-> "mkdir", path |-> n, res |-> v.res]
<1>4. Named(v, c, {AbsPath(n)})
  BY <1>1 DEF sgc_mkdir
<1> HIDE DEF v, c
<1> QED
  BY <1>3, <1>4, NamedKeeps

(* Sgc_chdir, *)
LEMMA SgcChdirKeeps ==
  ASSUME SgcInv, ChDir
  PROVE  SgcInv'
<1> DEFINE u == Start
           q == cuts = 0
<1>1. PICK n \in Dirs : sgc_chdir(n)
  BY DEF ChDir
<1>2. Ready /\ n \in PathSet
  BY PathsAre DEF ChDir
<1> DEFINE v == f_chdir(u, n)
<1>3. v \in Good(q)
  <2>1. u \in Good(q) /\ q \in BOOLEAN
    BY <1>2, StartGood
  <2> HIDE DEF u, q
  <2>2. Went(q, u, v)
    BY <1>2, <2>1, ChdirKeeps
  <2> QED
    BY <2>2 DEF Went
<1> DEFINE c == [op |-> "chdir", path |-> n, ret |-> 0]
<1>4. Named(v, c, {})
  BY <1>1 DEF sgc_chdir
<1> HIDE DEF v, c
<1> QED
  BY <1>3, <1>4, NamedKeeps

(* Sgc_getcwd, *)
LEMMA SgcGetcwdKeeps ==
  ASSUME SgcInv, GetCwd
  PROVE  SgcInv'
<1> DEFINE u == Start
           q == cuts = 0
<1>1. PICK room \in 0 .. Depth + 1 : sgc_getcwd(room)
  BY DEF GetCwd
<1>2. Ready
  BY DEF GetCwd
<1> DEFINE v == f_getcwd(u, room)
<1>3. v \in Good(q)
  <2>1. u \in Good(q) /\ q \in BOOLEAN
    BY <1>2, StartGood
  <2> HIDE DEF u, q
  <2> QED
    BY <1>2, <2>1, GetcwdKeeps
<1> DEFINE c == [op |-> "getcwd", room |-> room, res |-> v.res, names |-> v.buf]
<1>4. Named(v, c, {})
  BY <1>1 DEF sgc_getcwd
<1> HIDE DEF v, c
<1> QED
  BY <1>3, <1>4, NamedKeeps

(* Sgc_rename, *)
LEMMA SgcRenameKeeps ==
  ASSUME SgcInv, Rename
  PROVE  SgcInv'
<1> DEFINE u == Start
           q == cuts = 0
<1>1. PICK mv \in Moves : sgc_rename(mv[1], mv[2])
  BY DEF Rename
<1> DEFINE n == mv[1]
           to == mv[2]
           v == f_rename(u, n, to)
           c == [op |-> "rename", path |-> n, to |-> to, res |-> v.res]
           on == {p \in Paths : Below(p, AbsPath(n)) \/ Below(p, AbsPath(to))}
<1>2. Ready /\ n \in PathSet /\ to \in PathSet /\ CardInv /\ FilesInv /\ DirInv
  BY PathsAre DEF Rename, SgcInv
<1>3. v \in Good(q)
  <2>1. u \in Good(q) /\ q \in BOOLEAN
    BY <1>2, StartGood
  <2> HIDE DEF u, q, n, to
  <2>2. Went(q, u, v)
    BY <1>2, <2>1, RenameKeeps
  <2> QED
    BY <2>2 DEF Went
<1>4. \/ Ends(v, c) /\ UNCHANGED <<files, files_open>> /\ NoDirs
      \/ Cut(v, "rename", on)
  BY <1>1 DEF sgc_rename
<1> HIDE DEF v, c, on
<1>5. CASE Ends(v, c) /\ UNCHANGED <<files, files_open>> /\ NoDirs
  <2>1. CardInv' /\ MountInv'
    BY <1>2, <1>3, <1>5, EndsKeeps
  <2>2. FilesInv' /\ DirInv'
    BY <1>2, <1>5 DEF FilesInv, DirInv, NoDirs
  <2> QED
    BY <2>1, <2>2 DEF SgcInv
<1>6. CASE Cut(v, "rename", on)
  BY <1>2, <1>3, <1>6, CutKeeps
<1> QED
  BY <1>4, <1>5, <1>6

(* And sgc_opendir, which closes what it had open. *)
LEMMA SgcOpendirKeeps ==
  ASSUME SgcInv, OpenDir
  PROVE  SgcInv'
<1>1. PICK n \in Dirs : sgc_opendir(n)
  BY DEF OpenDir
<1> DEFINE q == cuts = 0
           s == Start
           o == diropen[1]
           x == [s EXCEPT !.dp = o]
           y == IF diropen[2] THEN OK(f_closedir(x)) ELSE x
           v == f_opendir(y, n)
<1>2. Ready /\ n \in PathSet /\ CardInv /\ FilesInv /\ DirInv
  BY PathsAre DEF OpenDir, SgcInv
<1>3. s \in Good(q) /\ q \in BOOLEAN /\ o \in DirSet
  BY <1>2, StartGood DEF DirInv
<1>4. /\ Ends(v, [op |-> "opendir", path |-> n, ret |-> 0]) /\ diropen' = <<v.dp, v.res = "OK">>
      /\ NoFile
  BY <1>1 DEF sgc_opendir
<1>5. v \in Good(q)
  <2> HIDE DEF s, q, o
  <2>1. x \in Good(q)
    <3>1. s \in CallSet
      BY <1>3 DEF Good, Steady
    <3>2. x \in CallSet /\ SameCard(s, x)
      BY <1>3, <3>1, SetDp
    <3> HIDE DEF x
    <3> QED
      BY <1>3, <3>2, SameCardKeeps
  <2> HIDE DEF x
  <2>2. f_closedir(x) \in Good(q)
    BY <1>3, <2>1, ClosedirKeeps
  <2> DEFINE z == f_closedir(x)
  <2>3. OK(z) \in Good(q)
    <3>1. z \in CallSet
      BY <2>2 DEF Good, Steady
    <3> HIDE DEF z
    <3>2. OK(z) \in CallSet /\ SameCard(z, OK(z))
      BY <3>1, OKKeeps
    <3> QED
      BY <1>3, <2>2, <3>2, SameCardKeeps DEF z
  <2>4. y \in Good(q)
    BY <2>1, <2>3
  <2> HIDE DEF y
  <2> QED
    BY <1>2, <1>3, <2>4, OpendirKeeps
<1> HIDE DEF v
<1>6. CardInv' /\ MountInv'
  BY <1>2, <1>4, <1>5, EndsKeeps
<1>7. FilesInv'
  BY <1>2, <1>4 DEF FilesInv, NoFile
<1>8. DirInv'
  <2>1. v.dp \in DirSet
    BY <1>5 DEF Good, Steady, CallSet
  <2> QED
    BY <1>4, <2>1 DEF DirInv
<1> QED
  BY <1>6, <1>7, <1>8 DEF SgcInv

(* Every step keeps it. *)
LEMMA SgcNext ==
  SgcInv /\ [Next]_vars => SgcInv'
<1> SUFFICES ASSUME SgcInv, [Next]_vars PROVE SgcInv'
  OBVIOUS
<1>1. CASE UNCHANGED vars
  BY <1>1 DEF vars, SgcInv, CardInv, MountInv, FilesInv, DirInv
<1>2. CASE sgc_init \/ Open \/ Close
  BY <1>2, InitKeeps, OpenKeeps, CloseKeeps
<1>3. CASE Seek \/ Sync \/ Read \/ Write \/ Truncate \/ BadFd
  BY <1>3, SeekSyncKeeps, ReadKeeps, WriteKeeps, TruncateKeeps, BadFdKeeps
<1>4. CASE Stat \/ Unlink \/ Mkdir \/ OpenDir \/ ChDir \/ GetCwd \/ Rename
  BY <1>4, SgcStatKeeps, SgcUnlinkKeeps, SgcMkdirKeeps, SgcOpendirKeeps,
     SgcChdirKeeps, SgcGetcwdKeeps, SgcRenameKeeps
<1> QED
  BY <1>1, <1>2, <1>3, <1>4 DEF Next

(* In every behaviour of the file API, before and after any number of      *)
(* power losses, every sector of the card holds what belongs there and     *)
(* every file object has the sectors of its entry and of its next byte,    *)
(* with its pointer within its size unless an error stays with it; and     *)
(* while the power holds, the volume that the next call works on has equal *)
(* copies of the FAT and the right count of free clusters.                 *)
THEOREM SgcAlways ==
  Spec => []SgcInv
<1>1. Init => SgcInv
  BY SgcInit
<1>2. SgcInv /\ [Next]_vars => SgcInv'
  BY SgcNext
<1> QED
  BY <1>1, <1>2, PTL DEF Spec

-----------------------------------------------------------------------------
(* While the power holds, the two copies of the FAT agree after every call,*)
(* whatever the client does and whatever errors the calls answer with.     *)
THEOREM CopiesAgree ==
  Spec => []FatCopiesAgree
<1>1. SgcInv => FatCopiesAgree
  <2> SUFFICES ASSUME SgcInv, cuts = 0 PROVE FatCopiesSame(disk)
    BY DEF FatCopiesAgree, Intact
  <2>1. CASE ~fs.reg
    BY <2>1, FreshIsCard DEF SgcInv, MountInv
  <2>2. CASE fs.reg
    <3>1. Call(disk, fs, 0, -1) \in Good(TRUE)
      <4>1. (cuts = 0) = TRUE
        OBVIOUS
      <4> QED
        BY <2>2, <4>1 DEF SgcInv, MountInv
    <3>2. disk = Call(disk, fs, 0, -1).disk
      BY DEF Call
    <3> QED
      BY <3>1, <3>2 DEF Good, Steady, Healthy
  <2> QED
    BY <2>1, <2>2
<1> QED
  BY <1>1, SgcAlways, PTL

(* While the power holds, the number of free clusters that FatFs keeps and *)
(* goes by is that of the FAT, after every call.                           *)
THEOREM CountIsRight ==
  Spec => []FreeCountRight
<1>1. SgcInv => FreeCountRight
  <2> SUFFICES ASSUME SgcInv, cuts = 0, fs.type # 0, fs.free # NOCOUNT
               PROVE  fs.free = FreeClusters(Now)
    BY DEF FreeCountRight, Intact
  <2>1. fs.reg
    <3>1. NoFs.type = 0
      BY DEF NoFs
    <3> QED
      BY <3>1 DEF SgcInv, MountInv
  <2> DEFINE v == Call(disk, fs, 0, -1)
  <2>2. v \in Good(TRUE)
    <3>1. (cuts = 0) = TRUE
      OBVIOUS
    <3> QED
      BY <2>1, <3>1 DEF SgcInv, MountInv
  <2>3. v.disk = disk /\ v.fs = fs
    BY DEF Call
  <2> HIDE DEF v
  <2>4. Counted(disk, fs)
    BY <2>2, <2>3 DEF Good
  <2>5. Freed(Fat(disk, fs)) = {c \in 2 .. NFatEnt - 1 : FatEntry(Now, c) = 0}
    BY LayoutIs DEF Freed, Fat, RealClusters, ClusterNos, Now
  <2> QED
    BY <2>4, <2>5 DEF Counted, FreeClusters
<1> QED
  BY <1>1, SgcAlways, PTL
=============================================================================

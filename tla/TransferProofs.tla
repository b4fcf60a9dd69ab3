--------------------------- MODULE TransferProofs ---------------------------
(***************************************************************************)
(* The file requests over FatFs: what the calls keep, the handlers keep in *)
(* every behaviour, for every number of files, directories and contents,   *)
(* any number of requests, of disk errors and of power losses; and, until  *)
(* a rename meets a disk error or a power loss, the volume is sound.       *)
(***************************************************************************)
EXTENDS Transfer, FatVolumeProofs

-----------------------------------------------------------------------------
(* The inductive invariant.  The card's sectors hold what belongs there;   *)
(* the two flags say that FatFs holds a volume, and then it is as a call   *)
(* of FatFs needs it.  Quiet: no transfer failed and the power held.       *)
Quiet    == cuts = 0 /\ faults = 0
CardInv  == disk \in Cards /\ cuts \in Nat /\ faults \in Nat
FlagsInv == m_mounted \in BOOLEAN /\ g_sgcReady = m_mounted
MountInv == IF m_mounted THEN Call(disk, m_fatfs, 0, -1) \in Good(Quiet)
            ELSE /\ m_fatfs \in Volumes /\ m_fatfs.type = 0 /\ ~m_fatfs.wflag
                 /\ Quiet => disk = FreshVolume
TransferInv == CardInv /\ FlagsInv /\ MountInv

(* It holds at the start. *)
LEMMA TransferInit ==
  Init => TransferInv
<1> SUFFICES ASSUME Init PROVE TransferInv
  OBVIOUS
<1>1. NoFs \in Volumes /\ NoFs.type = 0 /\ ~NoFs.wflag
  BY NoFsIs DEF NoFs
<1>2. CardInv /\ FlagsInv
  BY FreshIsCard DEF Init, CardInv, FlagsInv
<1>3. MountInv
  BY <1>1 DEF Init, MountInv
<1> QED
  BY <1>2, <1>3 DEF TransferInv

-----------------------------------------------------------------------------
(* The call record a request starts with, when the volume is mounted and   *)
(* when it is not; q says that no transfer of the card ever failed.        *)
Begins(q, v) ==
  /\ v \in CallSet
  /\ m_mounted => v \in Good(q)
  /\ ~m_mounted => ~v.fs.wflag /\ (q => v.to = -1 /\ v.disk = FreshVolume)

(* And what it ends with. *)
Outcome(q, a) ==
  /\ a.v \in CallSet
  /\ a.up \in BOOLEAN
  /\ a.up => a.v \in Good(q)
  /\ ~a.up => ~q /\ a.v.fs.type = 0 /\ ~a.v.fs.wflag

(* A request starts as it must. *)
LEMMA StartBegins ==
  ASSUME TransferInv, NEW a \in Int, NEW b \in Int, NEW q \in BOOLEAN,
         q => Quiet /\ b = -1
  PROVE  Begins(q, Call(disk, m_fatfs, a, b))
<1> DEFINE v == Call(disk, m_fatfs, a, b)
           u == Call(disk, m_fatfs, 0, -1)
           p == Quiet
<1>1. CASE m_mounted
  <2>1. u \in Good(p) /\ p \in BOOLEAN /\ u.disk = disk /\ u.fs = m_fatfs
    BY <1>1 DEF TransferInv, MountInv, Quiet, Call
  <2> HIDE DEF u, p
  <2>2. u \in Good(q)
    BY <2>1 DEF Good, Steady, p
  <2>3. Call(u.disk, u.fs, a, b) \in Good(q)
    BY <2>2, StartAfter
  <2>4. v \in Good(q)
    BY <2>1, <2>3
  <2> HIDE DEF v
  <2>5. Begins(q, v)
    BY <1>1, <2>4 DEF Begins, Good, Steady
  <2> QED
    BY <2>5 DEF v
<1>2. CASE ~m_mounted
  <2>1. disk \in Cards /\ m_fatfs \in Volumes /\ ~m_fatfs.wflag
        /\ (Quiet => disk = FreshVolume)
    BY <1>2 DEF TransferInv, MountInv, CardInv
  <2>2. v \in CallSet /\ v.disk = disk /\ v.fs = m_fatfs /\ v.to = b
    BY <2>1, CallIs
  <2> HIDE DEF v
  <2>3. Begins(q, v)
    BY <1>2, <2>1, <2>2 DEF Begins
  <2> QED
    BY <2>3 DEF v
<1> QED
  BY <1>1, <1>2 DEF TransferInv, FlagsInv

(* The first request mounts the volume. *)
LEMMA ReadyKeeps ==
  ASSUME TransferInv, NEW q \in BOOLEAN, NEW v, Begins(q, v)
  PROVE  LET u == EnsureSgclibReady(v)
         IN  /\ u \in CallSet
             /\ u.res = "OK" => u \in Good(q)
             /\ u.res # "OK" => ~q /\ u.fs.type = 0 /\ ~u.fs.wflag
<1> DEFINE u == EnsureSgclibReady(v)
           m == f_mount(v)
<1>1. g_sgcReady = m_mounted /\ m_mounted \in BOOLEAN /\ v \in CallSet
  BY DEF TransferInv, FlagsInv, Begins
<1>2. CASE m_mounted
  <2> DEFINE o == OK(v)
  <2>1. o \in CallSet /\ o.res = "OK" /\ SameCard(v, o)
    BY <1>1, OKKeeps
  <2>2. u = o
    BY <1>1, <1>2 DEF EnsureSgclibReady
  <2>3. v \in Good(q)
    BY <1>2 DEF Begins
  <2> HIDE DEF o
  <2> QED
    BY <2>1, <2>2, <2>3, SameCardKeeps DEF u
<1>3. CASE ~m_mounted
  <2>1. ~v.fs.wflag /\ (q => v.to = -1 /\ v.disk = FreshVolume)
    BY <1>3 DEF Begins
  <2>2. q => /\ FatCopiesSame(v.disk)
             /\ FatType = 3 => v.disk[FsInfoSect].free = FreeClusters(v.disk)
    <3>1. FatType = 3 => FreshVolume[FsInfoSect].free = Clusters - 1
      BY AreasApart DEF FreshVolume, FsInfo
    <3> QED
      BY <2>1, <3>1, FreshIsCard, FreshCount
  <2>3. /\ m \in CallSet
        /\ m.res = "OK" => m \in Good(q)
        /\ m.res # "OK" => ~q /\ m.fs.type = 0
    BY <1>1, <2>1, <2>2, MountGood
  <2>4. ~m.fs.wflag
    BY <1>1, <2>1, MountIs
  <2>5. u = m
    BY <1>1, <1>3 DEF EnsureSgclibReady, EnsureReady
  <2> HIDE DEF m
  <2> QED
    BY <2>3, <2>4, <2>5 DEF u
<1> QED
  BY <1>1, <1>2, <1>3

(* An answer that leaves the card as a call of FatFs needs it. *)
Fair(q, b) == b.v \in Good(q) /\ b = Answer(b.v, b.st, b.out)

(* Answer makes one, and so does Verdict. *)
LEMMA AnswerIs ==
  ASSUME NEW q, NEW v \in Good(q), NEW st, NEW out
  PROVE  Fair(q, Answer(v, st, out)) /\ Fair(q, Verdict(v))
BY DEF Fair, Answer, Verdict

(* The answer of a handler that needs the card mounted. *)
LEMMA CardKeeps ==
  ASSUME TransferInv, NEW q \in BOOLEAN, NEW v, Begins(q, v), NEW a, NEW b,
         LET u == EnsureSgclibReady(v)
         IN  /\ a = IF u.res = "OK" THEN [b EXCEPT !.up = TRUE]
                    ELSE Answer(u, "Error", <<>>)
             /\ u.res = "OK" => Fair(q, b)
  PROVE  Outcome(q, a)
<1> DEFINE u == EnsureSgclibReady(v)
<1>1. /\ u \in CallSet
      /\ u.res = "OK" => u \in Good(q)
      /\ u.res # "OK" => ~q /\ u.fs.type = 0 /\ ~u.fs.wflag
  BY ReadyKeeps
<1>2. /\ u.res = "OK" => a = [b EXCEPT !.up = TRUE] /\ Fair(q, b)
      /\ u.res # "OK" => a = Answer(u, "Error", <<>>)
  OBVIOUS
<1> HIDE DEF u
<1>3. CASE u.res = "OK"
  <2>1. a = [b EXCEPT !.up = TRUE] /\ b.v \in Good(q) /\ b = Answer(b.v, b.st, b.out)
    BY <1>2, <1>3 DEF Fair
  <2> DEFINE w == b.v
             s == b.st
             o == b.out
             c == [v |-> w, st |-> s, out |-> o, up |-> FALSE]
  <2>2. w \in Good(q) /\ w \in CallSet /\ b = c
    BY <2>1 DEF Answer, Good, Steady
  <2> HIDE DEF w, s, o
  <2>3. a.v = w /\ a.up = TRUE
    BY <2>1, <2>2
  <2> QED
    BY <2>2, <2>3 DEF Outcome
<1>4. CASE u.res # "OK"
  <2>1. a = [v |-> u, st |-> "Error", out |-> <<>>, up |-> FALSE]
    BY <1>2, <1>4 DEF Answer
  <2>2. a.v = u /\ a.up = FALSE
    BY <2>1
  <2> QED
    BY <1>1, <1>4, <2>2 DEF Outcome
<1> QED
  BY <1>3, <1>4

(* The paths and the contents of the host are those of FatFs. *)
LEMMA HostsAre ==
  /\ \A p \in Paths \union {<<>>} : Abs(p) \in PathSet
  /\ Uploads \subseteq Seq(Words)
  /\ \A mv \in Moves : mv[1] \in Paths /\ mv[2] \in Paths
<1>1. \A S, T : S \subseteq T => \A x \in Seq(S) : x \in Seq(T)
  OBVIOUS
<1>2. STRING \subseteq Words
  BY Zenon DEF Words
<1>3. \A x \in Seq(STRING) : x \in Seq(Words)
  BY <1>1, <1>2, Zenon
<1>4. \A p \in Paths \union {<<>>} : p \in Seq(Words)
  <2>1. <<>> \in Seq(Words)
    OBVIOUS
  <2> QED
    BY <1>3, <2>1, TransferAssumption DEF Paths
<1>5. \A p \in Seq(Words) : Abs(p) \in PathSet
  BY DEF Abs, PathSet
<1> QED
  BY <1>3, <1>4, <1>5, TransferAssumption DEF Paths

-----------------------------------------------------------------------------
(* The handlers, one by one: a remove (of a file, and of a directory), *)
LEMMA RemoveIs ==
  ASSUME TransferInv, NEW q \in BOOLEAN, NEW v, Begins(q, v), NEW p \in Paths
  PROVE  Outcome(q, HandleRemove(v, p)) /\ Outcome(q, HandleRmdir(v, p))
<1> DEFINE u == EnsureSgclibReady(v)
           w == RemovePath(u, p)
           b == Verdict(w)
           a == IF u.res = "OK" THEN [b EXCEPT !.up = TRUE] ELSE Answer(u, "Error", <<>>)
<1>1. HandleRemove(v, p) = a /\ HandleRmdir(v, p) = a
  BY Zenon DEF HandleRemove, HandleRmdir, WithCard, With
<1>2. u.res = "OK" => u \in Good(q)
  BY ReadyKeeps
<1> HIDE DEF u
<1>3. u.res = "OK" => w \in Good(q)
  BY <1>2, HostsAre, UnlinkKeeps DEF RemovePath, Went
<1> HIDE DEF w
<1>4. u.res = "OK" => Fair(q, b)
  BY <1>3, AnswerIs
<1> HIDE DEF b, a
<1>5. Outcome(q, a)
  BY <1>4, CardKeeps DEF a, u
<1> QED
  BY <1>1, <1>5

(* A mkdir, and a sync, which is one, *)
LEMMA MkdirIs ==
  ASSUME TransferInv, NEW q \in BOOLEAN, NEW v, Begins(q, v), NEW p \in Paths
  PROVE  Outcome(q, HandleMkdir(v, p)) /\ Outcome(q, HandleSync(v, p))
<1> DEFINE u == EnsureSgclibReady(v)
           w == MakeDirectory(u, p)
           b == Verdict(w)
           c == Answer(w, "Ok", <<>>)
           a == IF u.res = "OK" THEN [b EXCEPT !.up = TRUE] ELSE Answer(u, "Error", <<>>)
           d == IF u.res = "OK" THEN [c EXCEPT !.up = TRUE] ELSE Answer(u, "Error", <<>>)
<1>1. HandleMkdir(v, p) = a /\ HandleSync(v, p) = d
  BY Zenon DEF HandleMkdir, HandleSync, WithCard, With
<1>2. u.res = "OK" => u \in Good(q)
  BY ReadyKeeps
<1> HIDE DEF u
<1>3. u.res = "OK" => w \in Good(q)
  BY <1>2, HostsAre, MkdirKeeps DEF MakeDirectory, Went
<1> HIDE DEF w
<1>4. u.res = "OK" => Fair(q, b) /\ Fair(q, c)
  BY <1>3, AnswerIs
<1> HIDE DEF b, c, a, d
<1>5. Outcome(q, a)
  BY <1>4, CardKeeps DEF a, u
<1>6. Outcome(q, d)
  BY <1>4, CardKeeps DEF d, u
<1> QED
  BY <1>1, <1>5, <1>6

(* A rename, *)
LEMMA RenameIs ==
  ASSUME TransferInv, NEW q \in BOOLEAN, NEW v, Begins(q, v),
         NEW old \in Paths, NEW new \in Paths
  PROVE  Outcome(q, HandleRename(v, old, new))
<1> DEFINE u == EnsureSgclibReady(v)
           w == RenamePath(u, old, new)
           b == Verdict(w)
           a == IF u.res = "OK" THEN [b EXCEPT !.up = TRUE] ELSE Answer(u, "Error", <<>>)
<1>1. HandleRename(v, old, new) = a
  BY Zenon DEF HandleRename, WithCard, With
<1>2. u.res = "OK" => u \in Good(q)
  BY ReadyKeeps
<1> HIDE DEF u
<1>3. u.res = "OK" => w \in Good(q)
  BY <1>2, HostsAre, RenameKeeps DEF RenamePath, Went
<1> HIDE DEF w
<1>4. u.res = "OK" => Fair(q, b)
  BY <1>3, AnswerIs
<1> HIDE DEF b, a
<1>5. Outcome(q, a)
  BY <1>4, CardKeeps DEF a, u
<1> QED
  BY <1>1, <1>5

(* The calls on an open file: the backend clears the result first. *)
LEMMA OKFine ==
  ASSUME NEW q \in BOOLEAN, NEW v \in Fine(q)
  PROVE  OK(v) \in Fine(q) /\ v \in Good(q)
<1> DEFINE w == OK(v)
<1>1. v \in CallSet /\ v \in Good(q) /\ FileOK(v.fp)
  BY DEF Fine, Good, Steady
<1>2. w \in CallSet /\ SameCard(v, w) /\ w.fp = v.fp
  BY <1>1, OKKeeps DEF SameRest, SameWork
<1> HIDE DEF w
<1>3. w \in Good(q)
  BY <1>1, <1>2, SameCardKeeps
<1>4. w \in Fine(q)
  BY <1>1, <1>2, <1>3 DEF Fine
<1> QED
  BY <1>1, <1>4 DEF w

(* Closing, and writing. *)
LEMMA FileGoes ==
  ASSUME NEW q \in BOOLEAN, NEW v \in Fine(q)
  PROVE  /\ CloseFile(v) \in Fine(q) /\ CloseFile(v) \in Good(q)
         /\ \A b \in Seq(Words) : WriteFile(v, b) \in Fine(q)
         /\ \A n \in Nat : ReadFile(v, n) \in Fine(q)
<1> DEFINE o == OK(v)
<1>1. o \in Fine(q)
  BY OKFine
<1> HIDE DEF o
<1>2. f_close(o) \in Fine(q)
  BY <1>1, FCloseKeeps
<1>3. f_close(o) \in Good(q)
  BY <1>2 DEF Fine
<1>4. \A b \in Seq(Words) : f_write(o, b) \in Fine(q)
  BY <1>1, FWriteKeeps
<1>5. \A n \in Nat : f_read(v, n) \in Fine(q)
  BY FReadKeeps
<1> QED
  BY <1>2, <1>3, <1>4, <1>5 DEF CloseFile, WriteFile, ReadFile, o

(* A chunk of an upload. *)
LEMMA ChunkIs ==
  ASSUME NEW data \in Seq(Words), NEW k \in Nat \ {0}
  PROVE  Chunk(data, k) \in Seq(Words)
<1> DEFINE b == (k - 1) * kFileBufferSize
           e == k * kFileBufferSize
           n == Len(data)
           m == Least(e, n)
<1>1. b \in Nat /\ e \in Nat /\ n \in Nat
  BY TransferAssumption
<1>2. m \in Nat /\ m <= n
  BY <1>1 DEF Least
<1> HIDE DEF b, e, m
<1>3. SubSeq(data, b + 1, m) \in Seq(Words)
  BY <1>1, <1>2
<1> QED
  BY <1>3 DEF Chunk, b, e, m

(* The chunks of an upload, however many. *)
LEMMA WriteChunksKeeps ==
  ASSUME NEW q \in BOOLEAN, NEW v \in Fine(q), NEW data \in Seq(Words)
  PROVE  WriteChunks(v, data) \in Fine(q)
<1> DEFINE n == (Len(data) + kFileBufferSize - 1) \div kFileBufferSize
           V == Fine(q)
           B(u, k) == WriteFile(u, Chunk(data, k))
           F(h) == [k \in 0..n |-> IF k = 0 THEN v ELSE B(h[k - 1], k)]
           at == CHOOSE h : h = F(h)
           G == [p \in V \X (1..n) |-> B(p[1], p[2])]
<1>1. n \in Nat /\ v \in V
  BY TransferAssumption
<1>2. \A u \in V, k \in 1..n : B(u, k) \in V
  <2>1. \A k \in 1..n : Chunk(data, k) \in Seq(Words)
    BY <1>1, ChunkIs
  <2> HIDE DEF n
  <2> QED
    BY <2>1, FileGoes
<1>3. WriteChunks(v, data) = at[n]
  BY Zenon DEF WriteChunks
<1> HIDE DEF V, B, n
<1>4. G \in [V \X (1..n) -> V] /\ \A u \in V, k \in 1..n : G[<<u, k>>] = B(u, k)
  BY <1>2
<1> HIDE DEF G
<1>5. PICK g \in [0..n -> V] : Runs(g, V, v, G, n)
  BY <1>1, <1>4, LoopRuns, Zenon
<1>6. g = F(g)
  <2>1. \A k \in 1..n : g[k] = B(g[k - 1], k)
    BY <1>4, <1>5, Zenon DEF Runs
  <2>2. \A k \in 0..n : g[k] = IF k = 0 THEN v ELSE B(g[k - 1], k)
    BY <1>5, <2>1 DEF Runs
  <2> QED
    BY <2>2
<1>7. at = F(at)
  BY <1>6
<1> HIDE DEF at
<1>8. at[0] = v /\ \A k \in 1..n : at[k] = B(at[k - 1], k)
  BY <1>1, <1>7
<1>9. at[n] \in V
  <2>1. \A k \in 1..n : at[k - 1] \in V => at[k] \in V
    BY <1>2, <1>8, Zenon
  <2> QED
    BY <1>1, <1>8, <2>1, LoopStays, Zenon
<1> QED
  BY <1>3, <1>9 DEF V

(* What has been read of a file, and whether there is more. *)
Reads(q) == [v : Fine(q), got : Seq(Words \union EntrySet), more : BOOLEAN]

(* A buffer of it, *)
LEMMA ReadChunkKeeps ==
  ASSUME NEW q \in BOOLEAN, NEW k \in Nat, NEW g \in Reads(q)
  PROVE  ReadChunk(g, k) \in Reads(q)
<1> DEFINE n == Least(k - Len(g.got), kFileBufferSize)
           r == ReadFile(g.v, n)
           b == IF r.res = "OK" THEN g.got \o r.buf ELSE g.got
           m == r.res = "OK" /\ r.cnt # 0
           e == [g EXCEPT !.more = FALSE]
           h == [v |-> r, got |-> b, more |-> m]
<1>1. ReadChunk(g, k) = IF Len(g.got) >= k THEN e ELSE h
  BY DEF ReadChunk, With
<1>2. g.v \in Fine(q) /\ g.got \in Seq(Words \union EntrySet) /\ e \in Reads(q)
  BY DEF Reads
<1>3. ~(Len(g.got) >= k) => n \in Nat
  <2>1. kFileBufferSize \in Nat /\ Len(g.got) \in Nat
    BY <1>2, TransferAssumption
  <2> QED
    BY <2>1 DEF Least
<1> HIDE DEF n
<1>4. CASE ~(Len(g.got) >= k)
  <2>1. r \in Fine(q)
    BY <1>2, <1>3, <1>4, FileGoes
  <2>2. r.buf \in Seq(Words \union EntrySet)
    BY <2>1 DEF Fine, Good, Steady, CallSet
  <2> HIDE DEF r
  <2>3. b \in Seq(Words \union EntrySet)
    BY <1>2, <2>2
  <2>4. m \in BOOLEAN
    OBVIOUS
  <2> HIDE DEF b, m
  <2>5. h \in Reads(q)
    BY <2>1, <2>3, <2>4 DEF Reads
  <2> QED
    BY <1>1, <1>4, <2>5
<1>5. CASE Len(g.got) >= k
  BY <1>1, <1>2, <1>5
<1> QED
  BY <1>4, <1>5

(* And all of them. *)
LEMMA ReadChunksKeeps ==
  ASSUME NEW q \in BOOLEAN, NEW v \in Fine(q), NEW n \in Nat
  PROVE  ReadChunks(v, n) \in Fine(q)
<1> DEFINE V == Reads(q)
           a == [v |-> OK(v), got |-> <<>>, more |-> TRUE]
           B(u, k) == IF u.more THEN ReadChunk(u, n) ELSE u
           F(h) == [k \in 0..n |-> IF k = 0 THEN a ELSE B(h[k - 1], k)]
           at == CHOOSE h : h = F(h)
           G == [p \in V \X (1..n) |-> B(p[1], p[2])]
<1>1. a \in V
  BY OKFine DEF Reads
<1>2. \A u \in V, k \in 1..n : B(u, k) \in V
  BY ReadChunkKeeps
<1>3. ReadChunks(v, n) = [at[n].v EXCEPT !.buf = at[n].got]
  BY Zenon DEF ReadChunks, With
<1> HIDE DEF V, B, a
<1>4. G \in [V \X (1..n) -> V] /\ \A u \in V, k \in 1..n : G[<<u, k>>] = B(u, k)
  BY <1>2
<1> HIDE DEF G
<1>5. PICK g \in [0..n -> V] : Runs(g, V, a, G, n)
  BY <1>1, <1>4, LoopRuns, Zenon
<1>6. g = F(g)
  <2>1. \A k \in 1..n : g[k] = B(g[k - 1], k)
    BY <1>4, <1>5, Zenon DEF Runs
  <2>2. \A k \in 0..n : g[k] = IF k = 0 THEN a ELSE B(g[k - 1], k)
    BY <1>5, <2>1 DEF Runs
  <2> QED
    BY <2>2
<1>7. at = F(at)
  BY <1>6
<1> HIDE DEF at
<1>8. at[0] = a /\ \A k \in 1..n : at[k] = B(at[k - 1], k)
  BY <1>7
<1>9. at[n] \in V
  <2>1. \A k \in 1..n : at[k - 1] \in V => at[k] \in V
    BY <1>2, <1>8, Zenon
  <2> QED
    BY <1>1, <1>8, <2>1, LoopStays, Zenon
<1> DEFINE r == at[n].v
           b == at[n].got
           w == [r EXCEPT !.buf = b]
<1>10. r \in Fine(q) /\ b \in Seq(Words \union EntrySet)
  BY <1>9 DEF V, Reads
<1>11. ReadChunks(v, n) = w
  BY <1>3
<1> HIDE DEF r, b
<1>12. r \in CallSet /\ r \in Good(q) /\ FileOK(r.fp)
  BY <1>10 DEF Fine, Good, Steady
<1>13. w \in CallSet /\ w.fp = r.fp /\ SameCard(r, w)
  BY <1>10, <1>12, SetBuf
<1> HIDE DEF w
<1>14. w \in Good(q)
  BY <1>12, <1>13, SameCardKeeps
<1>15. w \in Fine(q)
  BY <1>12, <1>13, <1>14 DEF Fine
<1> QED
  BY <1>11, <1>15

(* Opening a file. *)
LEMMA OpenIs ==
  ASSUME NEW q \in BOOLEAN, NEW v \in Good(q), NEW p \in Paths, NEW write
  PROVE  /\ OpenFile(v, p, write) \in Fine(q) /\ OpenFile(v, p, write) \in Good(q)
         /\ OpenFile(v, p, write).fp.size \in Nat
<1> DEFINE m == IF write THEN {"W", "ALWAYS"} ELSE {"R"}
           n == Abs(p)
           o == f_open(v, n, m)
<1>1. n \in PathSet
  BY HostsAre
<1> HIDE DEF n, m
<1>2. o \in Fine(q)
  BY <1>1, FOpenKeeps
<1> HIDE DEF o
<1>3. o \in Fine(q) /\ o \in Good(q) /\ o.fp.size \in Nat
  BY <1>2 DEF Fine, Good, Steady, CallSet, FilSet
<1> QED
  BY <1>3, Zenon DEF OpenFile, o, m, n

(* An upload, *)
LEMMA UploadIs ==
  ASSUME TransferInv, NEW q \in BOOLEAN, NEW v, Begins(q, v), NEW p \in Paths,
         NEW data \in Uploads
  PROVE  Outcome(q, HandleUpload(v, p, data))
<1> DEFINE u == EnsureSgclibReady(v)
           o == OpenFile(u, p, TRUE)
           w == CloseFile(WriteChunks(o, data))
           c == Answer(w, "Handled", <<0>>)
           e == Answer(o, "Error", <<>>)
           b == IF o.res = "OK" THEN c ELSE e
           a == IF u.res = "OK" THEN [b EXCEPT !.up = TRUE] ELSE Answer(u, "Error", <<>>)
<1>1. HandleUpload(v, p, data) = a
  BY Zenon DEF HandleUpload, WithCard, Opened, With
<1>2. u.res = "OK" => u \in Good(q)
  BY ReadyKeeps
<1> HIDE DEF u
<1>3. ASSUME u.res = "OK" PROVE Fair(q, b)
  <2>1. o \in Fine(q) /\ o \in Good(q)
    BY <1>2, <1>3, OpenIs
  <2> HIDE DEF o
  <2>2. data \in Seq(Words)
    BY HostsAre
  <2>3. w \in Good(q)
    BY <2>1, <2>2, WriteChunksKeeps, FileGoes
  <2> HIDE DEF w
  <2>4. Fair(q, c) /\ Fair(q, e)
    BY <2>1, <2>3, AnswerIs
  <2> QED
    BY <2>4
<1> HIDE DEF b, a
<1>4. Outcome(q, a)
  BY <1>3, CardKeeps DEF a, u
<1> QED
  BY <1>1, <1>4

(* A download, *)
LEMMA DownloadIs ==
  ASSUME TransferInv, NEW q \in BOOLEAN, NEW v, Begins(q, v), NEW p \in Paths
  PROVE  Outcome(q, HandleDownload(v, p))
<1> DEFINE u == EnsureSgclibReady(v)
           o == OpenFile(u, p, FALSE)
           r == ReadChunks(o, o.fp.size)
           w == CloseFile(r)
           c == Answer(w, "Handled", <<o.fp.size, r.buf>>)
           e == Answer(o, "Error", <<>>)
           b == IF o.res = "OK" THEN c ELSE e
           a == IF u.res = "OK" THEN [b EXCEPT !.up = TRUE] ELSE Answer(u, "Error", <<>>)
<1>1. HandleDownload(v, p) = a
  BY Zenon DEF HandleDownload, WithCard, Opened, With
<1>2. u.res = "OK" => u \in Good(q)
  BY ReadyKeeps
<1> HIDE DEF u
<1>3. ASSUME u.res = "OK" PROVE Fair(q, b)
  <2>1. o \in Fine(q) /\ o \in Good(q) /\ o.fp.size \in Nat
    BY <1>2, <1>3, OpenIs
  <2> HIDE DEF o
  <2>2. r \in Fine(q)
    BY <2>1, ReadChunksKeeps
  <2> HIDE DEF r
  <2>3. w \in Good(q)
    BY <2>2, FileGoes
  <2> HIDE DEF w
  <2>4. Fair(q, c) /\ Fair(q, e)
    BY <2>1, <2>3, AnswerIs
  <2> QED
    BY <2>4
<1> HIDE DEF b, a
<1>4. Outcome(q, a)
  BY <1>3, CardKeeps DEF a, u
<1> QED
  BY <1>1, <1>4

(* A checksum, *)
LEMMA CrcIs ==
  ASSUME TransferInv, NEW q \in BOOLEAN, NEW v, Begins(q, v), NEW p \in Paths
  PROVE  Outcome(q, HandleCrc(v, p))
<1> DEFINE u == EnsureSgclibReady(v)
           o == OpenFile(u, p, FALSE)
           n == o.fp.size + kFileBufferSize
           r == ReadChunks(o, n)
           w == CloseFile(r)
           st == IF r.res = "OK" THEN "Ok" ELSE "Error"
           c == Answer(w, st, r.buf)
           e == Answer(o, "Error", <<>>)
           b == IF o.res = "OK" THEN c ELSE e
           a == IF u.res = "OK" THEN [b EXCEPT !.up = TRUE] ELSE Answer(u, "Error", <<>>)
<1>1. HandleCrc(v, p) = a
  BY Zenon DEF HandleCrc, WithCard, Opened, With
<1>2. u.res = "OK" => u \in Good(q)
  BY ReadyKeeps
<1> HIDE DEF u
<1>3. ASSUME u.res = "OK" PROVE Fair(q, b)
  <2>1. o \in Fine(q) /\ o \in Good(q) /\ o.fp.size \in Nat
    BY <1>2, <1>3, OpenIs
  <2> HIDE DEF o
  <2>2. n \in Nat
    BY <2>1, TransferAssumption
  <2> HIDE DEF n
  <2>3. r \in Fine(q)
    BY <2>1, <2>2, ReadChunksKeeps
  <2> HIDE DEF r
  <2>4. w \in Good(q)
    BY <2>3, FileGoes
  <2> HIDE DEF w, st
  <2>5. Fair(q, c) /\ Fair(q, e)
    BY <2>1, <2>4, AnswerIs
  <2> QED
    BY <2>5
<1> HIDE DEF b, a
<1>4. Outcome(q, a)
  BY <1>3, CardKeeps DEF a, u
<1> QED
  BY <1>1, <1>4

(* What has been read of a directory; while there is more, its DIR is at   *)
(* an entry or past the last one.                                          *)
EntryNames == {x.nm : x \in Words \union EntrySet}
Listing == [v : UNION {Good(q) : q \in BOOLEAN}, names : Seq(EntryNames), more : BOOLEAN]
Lists(q) == {g \in Listing : g.v \in Good(q) /\ (g.more => AtOrPast(g.v.dp))}

(* An entry of it, *)
LEMMA ReadEntryKeeps ==
  ASSUME NEW q \in BOOLEAN, NEW g \in Lists(q), g.more
  PROVE  ReadEntry(g) \in Lists(q)
<1> DEFINE r == ReadDirectory(g.v)
           x == r.buf[1].nm
           n == Append(g.names, x)
           e == [g EXCEPT !.v = r, !.more = FALSE]
           h == [g EXCEPT !.v = r, !.names = Append(@, x)]
           c == r.res # "OK" \/ r.buf = <<>>
<1>1. ReadEntry(g) = IF c THEN e ELSE h
  BY DEF ReadEntry, With
<1>2. g \in Listing /\ g.v \in Good(q) /\ AtOrPast(g.v.dp)
  BY DEF Lists
<1>3. r \in Good(q) /\ (r.res = "OK" => r.buf = <<>> \/ AtOrPast(r.dp))
  BY <1>2, ReaddirKeeps DEF ReadDirectory
<1>4. r.buf \in Seq(Words \union EntrySet)
  BY <1>3 DEF Good, Steady, CallSet
<1> HIDE DEF r
<1>5. r \in UNION {Good(p) : p \in BOOLEAN}
  BY <1>3
<1>6. CASE c
  <2>1. e.v = r /\ e.more = FALSE /\ e \in Listing
    BY <1>2, <1>5 DEF Listing
  <2> QED
    BY <1>1, <1>3, <1>6, <2>1 DEF Lists
<1>7. CASE ~c
  <2>1. r.buf[1] \in Words \union EntrySet
    BY <1>4, <1>7
  <2>2. x \in EntryNames
    BY <2>1 DEF EntryNames
  <2> HIDE DEF x
  <2>3. n \in Seq(EntryNames)
    BY <1>2, <2>2 DEF Listing
  <2>4. h = [g EXCEPT !.v = r, !.names = n]
    BY <1>2 DEF Listing
  <2> HIDE DEF n, h
  <2>5. h.v = r /\ h \in Listing
    BY <1>2, <1>5, <2>3, <2>4 DEF Listing
  <2>6. AtOrPast(r.dp)
    BY <1>3, <1>7
  <2> QED
    BY <1>1, <1>3, <1>7, <2>5, <2>6 DEF Lists
<1> QED
  BY <1>6, <1>7

(* And as many as are sent. *)
LEMMA ReadEntriesKeeps ==
  ASSUME NEW q \in BOOLEAN, NEW v \in Good(q), AtOrPast(v.dp)
  PROVE  Fair(q, ReadEntries(v))
<1> DEFINE n == kMaxDirEntries
           V == Lists(q)
           a == [v |-> v, names |-> <<>>, more |-> TRUE]
           B(u, k) == IF u.more THEN ReadEntry(u) ELSE u
           F(h) == [k \in 0..n |-> IF k = 0 THEN a ELSE B(h[k - 1], k)]
           at == CHOOSE h : h = F(h)
           G == [p \in V \X (1..n) |-> B(p[1], p[2])]
<1>1. n \in Nat /\ a \in V
  <2>1. a \in Listing /\ a.v = v
    BY DEF Listing
  <2> QED
    BY <2>1, TransferAssumption DEF Lists
<1>2. \A u \in V, k \in 1..n : B(u, k) \in V
  BY ReadEntryKeeps
<1>3. ReadEntries(v) = Answer(at[n].v, "Ok", at[n].names)
  BY Zenon DEF ReadEntries, With
<1> HIDE DEF V, B, a, n
<1>4. G \in [V \X (1..n) -> V] /\ \A u \in V, k \in 1..n : G[<<u, k>>] = B(u, k)
  BY <1>2
<1> HIDE DEF G
<1>5. PICK g \in [0..n -> V] : Runs(g, V, a, G, n)
  BY <1>1, <1>4, LoopRuns, Zenon
<1>6. g = F(g)
  <2>1. \A k \in 1..n : g[k] = B(g[k - 1], k)
    BY <1>4, <1>5, Zenon DEF Runs
  <2>2. \A k \in 0..n : g[k] = IF k = 0 THEN a ELSE B(g[k - 1], k)
    BY <1>5, <2>1 DEF Runs
  <2> QED
    BY <2>2
<1>7. at = F(at)
  BY <1>6
<1> HIDE DEF at
<1>8. at[0] = a /\ \A k \in 1..n : at[k] = B(at[k - 1], k)
  BY <1>1, <1>7
<1>9. at[n] \in V
  <2>1. \A k \in 1..n : at[k - 1] \in V => at[k] \in V
    BY <1>2, <1>8, Zenon
  <2> QED
    BY <1>1, <1>8, <2>1, LoopStays, Zenon
<1>10. at[n].v \in Good(q)
  BY <1>9 DEF V, Lists
<1> QED
  BY <1>3, <1>10, AnswerIs

(* A listing. *)
LEMMA ListIs ==
  ASSUME TransferInv, NEW q \in BOOLEAN, NEW v, Begins(q, v),
         NEW p \in {<<>>} \union Paths
  PROVE  Outcome(q, HandleList(v, p))
<1> DEFINE u == EnsureSgclibReady(v)
           s == StatPath(u, p)
           d == OpenDirectory(s, p)
           f == Answer(s, "Ok", <<"[F]">>)
           e == Answer(d, "Error", <<>>)
           c == ReadEntries(d)
           b == IF s.res = "OK" /\ ~s.buf[1].dir THEN f
                ELSE IF d.res # "OK" THEN e ELSE c
           a == IF u.res = "OK" THEN [b EXCEPT !.up = TRUE] ELSE Answer(u, "Error", <<>>)
<1>1. HandleList(v, p) = a
  BY Zenon DEF HandleList, WithCard, With
<1>2. u.res = "OK" => u \in Good(q)
  BY ReadyKeeps
<1> HIDE DEF u
<1>3. ASSUME u.res = "OK" PROVE Fair(q, b)
  <2> DEFINE n == Abs(p)
             o == OK(s)
  <2>1. n \in PathSet
    BY HostsAre
  <2>2. s \in Good(q)
    BY <1>2, <1>3, <2>1, StatKeeps DEF StatPath
  <2>3. d = f_opendir(o, n)
    BY DEF OpenDirectory
  <2> HIDE DEF s, n
  <2>4. o \in Good(q)
    <3>1. s \in CallSet
      BY <2>2 DEF Good, Steady
    <3>2. o \in CallSet /\ SameCard(s, o)
      BY <3>1, OKKeeps
    <3> HIDE DEF o
    <3> QED
      BY <2>2, <3>2, SameCardKeeps
  <2> HIDE DEF o, d
  <2>5. d \in Good(q) /\ (d.res = "OK" => InTable(d.dp))
    BY <2>1, <2>3, <2>4, OpendirKeeps
  <2>6. d.res = "OK" => Fair(q, c)
    BY <2>5, ReadEntriesKeeps DEF AtOrPast
  <2>7. Fair(q, e) /\ Fair(q, f)
    BY <2>2, <2>5, AnswerIs
  <2> HIDE DEF c, e, f
  <2> QED
    BY <2>6, <2>7
<1> HIDE DEF b, a
<1>4. Outcome(q, a)
  BY <1>3, CardKeeps DEF a, u
<1> QED
  BY <1>1, <1>4

-----------------------------------------------------------------------------
(* The volume between two requests: sound on the card and as the program   *)
(* sees it, with the window that the next request begins with.             *)
SoundNow == ~torn => /\ Kept(disk, {}, {}) /\ Kept(Seen(disk, m_fatfs), {}, {})
                     /\ m_mounted => WinTrue(Call(disk, m_fatfs, 0, -1))

(* The call record a request begins with then, *)
Starts(v) == /\ Begins(FALSE, v)
             /\ m_mounted => Sane(v, {}, {})
             /\ ~m_mounted => v.media = {} /\ Kept(v.disk, {}, {})
(* What it ends with, and every card that it has left on the way.          *)
Ends(a)   == /\ Kept(a.v.disk, {}, {}) /\ Kept(Sees(a.v), {}, {})
             /\ a.up => WinTrue(a.v)
Leaves(a) == \A d \in a.v.media : Kept(d, {}, {})
Tidy(b)   == b = Answer(b.v, b.st, b.out) /\ Sane(b.v, {}, {})

(* A card that is not mounted, or was just mounted, is only looked at.     *)
LEMMA UnmountedIs ==
  ASSUME NEW v \in CallSet, ~v.fs.wflag, v.media = {}, Kept(v.disk, {}, {})
  PROVE  /\ Kept(Sees(v), {}, {}) /\ \A d \in v.media : Kept(d, {}, {})
         /\ v.fs.winsect \notin FatSects \union TableArea => Sane(v, {}, {})
<1>1. Sees(v) = v.disk
  BY SeesIs
<1> QED
  BY <1>1 DEF Sane, WinTrue

(* A request begins with a sound volume, whatever transfers are to fail.   *)
LEMMA StartStarts ==
  ASSUME TransferInv, SoundNow, ~torn, NEW a \in Int, NEW b \in Int
  PROVE  Starts(Call(disk, m_fatfs, a, b)) /\ Call(disk, m_fatfs, a, b).to = b
<1> DEFINE v == Call(disk, m_fatfs, a, b)
           u == Call(disk, m_fatfs, 0, -1)
<1>1. Begins(FALSE, v)
  BY StartBegins
<1>2. /\ v.disk = disk /\ v.fs = m_fatfs /\ v.media = {} /\ v.to = b
      /\ u.disk = disk /\ u.fs = m_fatfs
  BY DEF Call
<1>3. Kept(disk, {}, {}) /\ Kept(Seen(disk, m_fatfs), {}, {})
      /\ (m_mounted => WinTrue(u))
  BY DEF SoundNow
<1> HIDE DEF u, v
<1>4. Sees(v) = Seen(disk, m_fatfs) /\ Sees(u) = Seen(disk, m_fatfs)
  BY <1>2 DEF Sees
<1>5. WinTrue(u) => WinTrue(v)
  BY <1>2, <1>4 DEF WinTrue
<1>6. m_mounted => Sane(v, {}, {})
  BY <1>2, <1>3, <1>4, <1>5 DEF Sane
<1> QED
  BY <1>1, <1>2, <1>3, <1>6 DEF Starts, v

(* A step that at most writes what is seen leaves the volume sound.        *)
LEMMA LooksSane ==
  ASSUME NEW v, NEW w, Looks(v, w), Sane(v, {}, {})
  PROVE  Sane(w, {}, {})
<1> DEFINE P == {}
           X == {}
<1>1. Works(v, w) /\ P \in SUBSET RealClusters /\ X \in SUBSET Places /\ Sane(v, P, X)
  BY LooksWorks
<1> HIDE DEF P, X
<1>2. Sane(w, P, X)
  BY <1>1, Zenon DEF Works
<1> QED
  BY <1>2 DEF P, X

(* The first request mounts it. *)
LEMMA ReadySound ==
  ASSUME TransferInv, NEW v, Starts(v)
  PROVE  LET u == EnsureSgclibReady(v)
         IN  /\ u.to = v.to
             /\ u.res = "OK" => u \in Live /\ Sane(u, {}, {})
             /\ u.res # "OK" => /\ Kept(u.disk, {}, {}) /\ Kept(Sees(u), {}, {})
                                /\ \A d \in u.media : Kept(d, {}, {})
<1> DEFINE u == EnsureSgclibReady(v)
           m == f_mount(v)
           o == OK(v)
<1>1. g_sgcReady = m_mounted /\ m_mounted \in BOOLEAN /\ v \in CallSet /\ FALSE \in BOOLEAN
  BY DEF TransferInv, FlagsInv, Starts, Begins
<1>2. Begins(FALSE, v) => u \in CallSet /\ (u.res = "OK" => u \in Good(FALSE))
  BY <1>1, ReadyKeeps
<1>3. u \in CallSet /\ (u.res = "OK" => u \in Live)
  BY <1>2, GoodLives DEF Starts
<1>4. CASE m_mounted
  <2>1. u = o
    BY <1>1, <1>4 DEF EnsureSgclibReady
  <2>2. v \in Live /\ Sane(v, {}, {})
    BY <1>4, GoodLives DEF Starts, Begins
  <2>3. o.res = "OK" /\ Looks(v, o) /\ o.to = v.to
    BY <2>2, OKLive, StoreLooks DEF SameStore
  <2> HIDE DEF o, u
  <2> DEFINE P == {}
             X == {}
  <2>4. Works(v, o) /\ P \in SUBSET RealClusters /\ X \in SUBSET Places /\ Sane(v, P, X)
    BY <2>2, <2>3, LooksWorks
  <2> HIDE DEF P, X
  <2>5. Sane(o, P, X)
    BY <2>4, Zenon DEF Works
  <2> QED
    BY <1>3, <2>1, <2>3, <2>5 DEF P, X, u
<1>5. CASE ~m_mounted
  <2>1. u = m
    BY <1>1, <1>5 DEF EnsureSgclibReady, EnsureReady
  <2>2. ~v.fs.wflag /\ v.media = {} /\ Kept(v.disk, {}, {})
    BY <1>5 DEF Starts, Begins
  <2>3. /\ m \in CallSet /\ m.disk = v.disk /\ m.media = v.media /\ m.to = v.to /\ ~m.fs.wflag
        /\ m.res = "OK" => m.fs.winsect \notin FatSects \union TableArea
    BY <1>1, <2>2, MountIs
  <2> HIDE DEF m
  <2>4. /\ Kept(Sees(m), {}, {}) /\ \A d \in m.media : Kept(d, {}, {})
        /\ m.res = "OK" => Sane(m, {}, {})
    BY <2>2, <2>3, UnmountedIs
  <2> HIDE DEF u
  <2> QED
    BY <1>3, <2>1, <2>2, <2>3, <2>4 DEF u
<1> QED
  BY <1>1, <1>4, <1>5

(* Answer makes a tidy one. *)
LEMMA TidyIs ==
  ASSUME NEW v, Sane(v, {}, {}), NEW st, NEW out
  PROVE  Tidy(Answer(v, st, out)) /\ Tidy(Verdict(v))
BY DEF Tidy, Answer, Verdict

(* The answer of a handler that needs the card mounted. *)
LEMMA CardSound ==
  ASSUME TransferInv, NEW v, Starts(v), NEW a, NEW b,
         LET u == EnsureSgclibReady(v)
         IN  /\ a = IF u.res = "OK" THEN [b EXCEPT !.up = TRUE]
                    ELSE Answer(u, "Error", <<>>)
             /\ u.res = "OK" => Tidy(b)
  PROVE  Ends(a) /\ Leaves(a)
<1> DEFINE u == EnsureSgclibReady(v)
<1>1. u.res # "OK" => /\ Kept(u.disk, {}, {}) /\ Kept(Sees(u), {}, {})
                      /\ \A d \in u.media : Kept(d, {}, {})
  BY ReadySound
<1>2. /\ u.res = "OK" => a = [b EXCEPT !.up = TRUE] /\ Tidy(b)
      /\ u.res # "OK" => a = Answer(u, "Error", <<>>)
  OBVIOUS
<1> HIDE DEF u
<1>3. CASE u.res = "OK"
  <2>1. a = [b EXCEPT !.up = TRUE] /\ Sane(b.v, {}, {}) /\ b = Answer(b.v, b.st, b.out)
    BY <1>2, <1>3 DEF Tidy
  <2> DEFINE w == b.v
             s == b.st
             o == b.out
             c == [v |-> w, st |-> s, out |-> o, up |-> FALSE]
  <2>2. b = c /\ Sane(w, {}, {})
    BY <2>1 DEF Answer
  <2> HIDE DEF w, s, o
  <2>3. a.v = w
    BY <2>1, <2>2
  <2> QED
    BY <2>2, <2>3 DEF Ends, Leaves, Sane
<1>4. CASE u.res # "OK"
  <2>1. a = [v |-> u, st |-> "Error", out |-> <<>>, up |-> FALSE]
    BY <1>2, <1>4 DEF Answer
  <2>2. a.v = u /\ a.up = FALSE
    BY <2>1
  <2> QED
    BY <1>1, <1>4, <2>2 DEF Ends, Leaves
<1> QED
  BY <1>3, <1>4

(* The host's names are names of entries, and those of files no dot names. *)
LEMMA HostsName ==
  /\ \A p \in Paths : p # <<>> => Unmarked(p[Len(p)])
  /\ \A p \in Files : p # <<>> => FileName(p[Len(p)])
  /\ \A p \in Paths \union {<<>>} : Abs(p).seg = p
<1>1. \A p \in Paths : p # <<>> => Unmarked(p[Len(p)])
  BY NamesAssumption, Zenon DEF Unmarked, Paths
<1>2. \A p \in Files : p # <<>> => FileName(p[Len(p)])
  <2>1. \A x : x \notin {"", Deleted} /\ x \notin {".", ".."} => FileName(x)
    BY Zenon DEF FileName
  <2>2. Files \subseteq Files \union Folders
    BY Zenon
  <2> QED
    BY <2>1, <2>2, NamesAssumption, Zenon
<1>3. \A p \in Paths \union {<<>>} : Abs(p).seg = p
  BY DEF Abs
<1> QED
  BY <1>1, <1>2, <1>3, Zenon

-----------------------------------------------------------------------------
(* The handlers, one by one, leave the volume sound: a remove, of a file   *)
(* and of a directory,                                                     *)
LEMMA RemoveSound ==
  ASSUME TransferInv, NEW v, Starts(v), NEW p \in Paths
  PROVE  /\ Ends(HandleRemove(v, p)) /\ Leaves(HandleRemove(v, p))
         /\ Ends(HandleRmdir(v, p)) /\ Leaves(HandleRmdir(v, p))
<1> DEFINE u == EnsureSgclibReady(v)
           n == Abs(p)
           w == f_unlink(u, n)
           b == Verdict(w)
           a == IF u.res = "OK" THEN [b EXCEPT !.up = TRUE] ELSE Answer(u, "Error", <<>>)
<1>1. HandleRemove(v, p) = a /\ HandleRmdir(v, p) = a
  BY Zenon DEF HandleRemove, HandleRmdir, WithCard, With, RemovePath
<1>2. u.res = "OK" => u \in Live /\ Sane(u, {}, {})
  BY ReadySound
<1>3. n \in PathSet /\ (n.seg # <<>> => Unmarked(n.seg[Len(n.seg)]))
  <2>1. n \in PathSet /\ n.seg = p /\ (p # <<>> => Unmarked(p[Len(p)]))
    BY HostsAre, HostsName
  <2> HIDE DEF n
  <2> QED
    BY <2>1
<1> HIDE DEF u, n
<1>4. u.res = "OK" => Sane(w, {}, {})
  BY <1>2, <1>3, UnlinkSane
<1> HIDE DEF w
<1>5. u.res = "OK" => Tidy(b)
  BY <1>4, TidyIs
<1> HIDE DEF b, a
<1>6. Ends(a) /\ Leaves(a)
  BY <1>5, CardSound DEF a, u
<1> QED
  BY <1>1, <1>6

(* A mkdir, and a sync, which is one, *)
LEMMA MkdirSound ==
  ASSUME TransferInv, NEW v, Starts(v), NEW p \in Paths
  PROVE  /\ Ends(HandleMkdir(v, p)) /\ Leaves(HandleMkdir(v, p))
         /\ Ends(HandleSync(v, p)) /\ Leaves(HandleSync(v, p))
<1> DEFINE u == EnsureSgclibReady(v)
           n == Abs(p)
           w == f_mkdir(u, n)
           b == Verdict(w)
           c == Answer(w, "Ok", <<>>)
           a == IF u.res = "OK" THEN [b EXCEPT !.up = TRUE] ELSE Answer(u, "Error", <<>>)
           d == IF u.res = "OK" THEN [c EXCEPT !.up = TRUE] ELSE Answer(u, "Error", <<>>)
<1>1. HandleMkdir(v, p) = a /\ HandleSync(v, p) = d
  BY Zenon DEF HandleMkdir, HandleSync, WithCard, With, MakeDirectory
<1>2. u.res = "OK" => u \in Live /\ Sane(u, {}, {})
  BY ReadySound
<1>3. n \in PathSet
  BY HostsAre
<1> HIDE DEF u, n
<1>4. u.res = "OK" => Sane(w, {}, {})
  BY <1>2, <1>3, MkdirSane
<1> HIDE DEF w
<1>5. u.res = "OK" => Tidy(b) /\ Tidy(c)
  BY <1>4, TidyIs
<1> HIDE DEF b, c, a, d
<1>6. Ends(a) /\ Leaves(a)
  BY <1>5, CardSound DEF a, u
<1>7. Ends(d) /\ Leaves(d)
  BY <1>5, CardSound DEF d, u
<1> QED
  BY <1>1, <1>6, <1>7

(* And a rename that meets no disk error.                                  *)
LEMMA RenameSound ==
  ASSUME TransferInv, NEW v, Starts(v), v.to = -1, NEW old \in Paths, NEW new \in Paths
  PROVE  Ends(HandleRename(v, old, new))
<1> DEFINE u == EnsureSgclibReady(v)
           n == Abs(old)
           k == Abs(new)
           w == f_rename(u, n, k)
           b == Verdict(w)
           e == Answer(u, "Error", <<>>)
           a == IF u.res = "OK" THEN [b EXCEPT !.up = TRUE] ELSE e
<1>1. HandleRename(v, old, new) = a
  BY Zenon DEF HandleRename, WithCard, With, RenamePath
<1>2. /\ u.to = v.to
      /\ u.res = "OK" => u \in Live /\ Sane(u, {}, {})
      /\ u.res # "OK" => Kept(u.disk, {}, {}) /\ Kept(Sees(u), {}, {})
  BY ReadySound
<1>3. n \in PathSet /\ k \in PathSet /\ (n.seg # <<>> => Unmarked(n.seg[Len(n.seg)]))
  <2>1. n \in PathSet /\ k \in PathSet /\ n.seg = old /\ (old # <<>> => Unmarked(old[Len(old)]))
    BY HostsAre, HostsName
  <2> HIDE DEF n, k
  <2> QED
    BY <2>1
<1> HIDE DEF u, n, k
<1>4. u.res = "OK" => Restful(w)
  BY <1>2, <1>3, RenameRests
<1> HIDE DEF w
<1>5. CASE u.res = "OK"
  <2>1. b.v = w /\ a = [b EXCEPT !.up = TRUE] /\ b = [v |-> w, st |-> b.st, out |-> b.out, up |-> FALSE]
    BY <1>5 DEF Verdict, Answer
  <2> DEFINE s == b.st
             o == b.out
             c == [v |-> w, st |-> s, out |-> o, up |-> FALSE]
  <2>2. b = c /\ a = [b EXCEPT !.up = TRUE]
    BY <2>1
  <2> HIDE DEF b, a, s, o
  <2>3. a.v = w
    BY <2>2
  <2> QED
    BY <1>1, <1>4, <1>5, <2>3 DEF Ends, Restful
<1>6. CASE u.res # "OK"
  <2>1. a = e /\ e.v = u /\ e.up = FALSE
    BY <1>6 DEF Answer
  <2> HIDE DEF a, e
  <2> QED
    BY <1>1, <1>2, <1>6, <2>1 DEF Ends
<1> QED
  BY <1>5, <1>6

(* A file that was opened for an upload is one that is being built: it has *)
(* no cluster yet.                                                         *)
LEMMA UploadStarts ==
  ASSUME NEW u \in Live, Sane(u, {}, {}), NEW p \in Files
  PROVE  LET o == OpenFile(u, p, TRUE)
         IN  o \in Live /\ Sane(o, {}, {}) /\ (o.res = "OK" => Loading(o))
<1> DEFINE n == Abs(p)
           o == f_open(u, n, {"W", "ALWAYS"})
<1>1. OpenFile(u, p, TRUE) = o
  BY DEF OpenFile
<1>2. n \in PathSet /\ (n.seg # <<>> => FileName(n.seg[Len(n.seg)]))
  <2>1. n \in PathSet /\ n.seg = p /\ (p # <<>> => FileName(p[Len(p)]))
    BY HostsAre, HostsName DEF Paths
  <2> HIDE DEF n
  <2> QED
    BY <2>1
<1> HIDE DEF n
<1>3. /\ o \in Live /\ Sane(o, {}, {})
      /\ o.res = "OK" => o.fp.sclust = 0 /\ o.fp.size = 0 /\ o.fp.fptr = 0
  BY <1>2, OpenWriteSane
<1>4. o \in Fine(FALSE)
  <2>1. u \in Good(FALSE) /\ FALSE \in BOOLEAN
    BY LiveIs
  <2> QED
    BY <1>2, <2>1, FOpenKeeps
<1> HIDE DEF o
<1>5. ASSUME o.res = "OK" PROVE Loading(o)
  <2>1. o.fp.sclust = 0 /\ o.fp.size = 0 /\ o.fp.fptr = 0
    BY <1>3, <1>5
  <2>2. Pend(o.fp) = {}
    BY <2>1 DEF Pend
  <2>3. Built(Sees(o), o.fp, o.fp.size)
    BY <2>1 DEF Built
  <2>4. Filling(o)
    BY <1>3, <2>1, <2>2, <2>3 DEF Filling
  <2>5. EndOfCluster(o)
    <3>1. SectorBytes \in Nat \ {0} /\ ClusterSectors \in Nat \ {0}
      BY GeometryAssumption
    <3>2. 0 % SectorBytes = 0 /\ 0 \div SectorBytes = 0 /\ 0 % ClusterSectors = 0
      BY <3>1
    <3> QED
      BY <2>1, <3>2 DEF EndOfCluster, AtSector, SectInClust
  <2> QED
    BY <1>4, <2>1, <2>4, <2>5 DEF Loading, Going
<1> QED
  BY <1>1, <1>3, <1>5

(* The backend clears the result before it writes or closes. *)
LEMMA LoadingClears ==
  ASSUME NEW v, Loading(v)
  PROVE  /\ Loading(OK(v))
         /\ \A b \in Seq(Words) : Loading(WriteFile(v, b))
         /\ Sane(CloseFile(v), {}, {})
<1> DEFINE o == OK(v)
<1>1. v \in Live
  BY DEF Loading, Filling
<1>2. o \in Live /\ SameStore(v, o) /\ o.fp = v.fp
  BY <1>1, OKLive
<1> HIDE DEF o
<1>3. SameSpot(v.fp, o.fp) /\ SameFill(v.fp, o.fp)
  BY <1>2 DEF SameSpot, SameFill
<1>4. Loading(o)
  BY <1>2, <1>3, LoadingOn
<1>5. \A b \in Seq(Words) : Loading(f_write(o, b))
  BY <1>4, FWriteFills
<1>6. FileOK(o.fp) /\ Sane(o, Pend(o.fp), {}) /\ Built(Sees(o), o.fp, o.fp.size)
  BY <1>4 DEF Loading, Filling, Fine
<1>7. Sane(f_close(o), {}, {})
  BY <1>2, <1>6, FCloseSane
<1> QED
  BY <1>4, <1>5, <1>7 DEF WriteFile, CloseFile, o

(* The chunks of an upload, however many. *)
LEMMA WriteChunksFills ==
  ASSUME NEW v, Loading(v), NEW data \in Seq(Words)
  PROVE  Loading(WriteChunks(v, data))
<1> DEFINE n == (Len(data) + kFileBufferSize - 1) \div kFileBufferSize
           V == {x \in Live : Loading(x)}
           B(u, k) == WriteFile(u, Chunk(data, k))
           F(h) == [k \in 0..n |-> IF k = 0 THEN v ELSE B(h[k - 1], k)]
           at == CHOOSE h : h = F(h)
           G == [p \in V \X (1..n) |-> B(p[1], p[2])]
<1>1. n \in Nat /\ v \in V
  <2>1. n \in Nat
    BY TransferAssumption
  <2> HIDE DEF n
  <2> QED
    BY <2>1 DEF Loading, Filling
<1>2. \A u \in V, k \in 1..n : B(u, k) \in V
  <2>1. \A k \in 1..n : Chunk(data, k) \in Seq(Words)
    BY <1>1, ChunkIs
  <2> HIDE DEF n
  <2>2. \A u : Loading(u) => u \in V
    BY DEF Loading, Filling
  <2>3. \A u \in V : Loading(u)
    OBVIOUS
  <2> HIDE DEF V
  <2> QED
    BY <2>1, <2>2, <2>3, LoadingClears
<1>3. WriteChunks(v, data) = at[n]
  BY Zenon DEF WriteChunks
<1> HIDE DEF V, B, n
<1>4. G \in [V \X (1..n) -> V] /\ \A u \in V, k \in 1..n : G[<<u, k>>] = B(u, k)
  BY <1>2
<1> HIDE DEF G
<1>5. PICK g \in [0..n -> V] : Runs(g, V, v, G, n)
  BY <1>1, <1>4, LoopRuns, Zenon
<1>6. g = F(g)
  <2>1. \A k \in 1..n : g[k] = B(g[k - 1], k)
    BY <1>4, <1>5, Zenon DEF Runs
  <2>2. \A k \in 0..n : g[k] = IF k = 0 THEN v ELSE B(g[k - 1], k)
    BY <1>5, <2>1 DEF Runs
  <2> QED
    BY <2>2
<1>7. at = F(at)
  BY <1>6
<1> HIDE DEF at
<1>8. at[0] = v /\ \A k \in 1..n : at[k] = B(at[k - 1], k)
  BY <1>1, <1>7
<1>9. at[n] \in V
  <2>1. \A k \in 1..n : at[k - 1] \in V => at[k] \in V
    BY <1>2, <1>8, Zenon
  <2> QED
    BY <1>1, <1>8, <2>1, LoopStays, Zenon
<1> QED
  BY <1>3, <1>9 DEF V

(* An upload, *)
LEMMA UploadSound ==
  ASSUME TransferInv, NEW v, Starts(v), NEW p \in Files, NEW data \in Uploads
  PROVE  Ends(HandleUpload(v, p, data)) /\ Leaves(HandleUpload(v, p, data))
<1> DEFINE u == EnsureSgclibReady(v)
           o == OpenFile(u, p, TRUE)
           l == WriteChunks(o, data)
           w == CloseFile(l)
           c == Answer(w, "Handled", <<0>>)
           e == Answer(o, "Error", <<>>)
           b == IF o.res = "OK" THEN c ELSE e
           a == IF u.res = "OK" THEN [b EXCEPT !.up = TRUE] ELSE Answer(u, "Error", <<>>)
<1>1. HandleUpload(v, p, data) = a
  BY Zenon DEF HandleUpload, WithCard, Opened, With
<1>2. u.res = "OK" => u \in Live /\ Sane(u, {}, {})
  BY ReadySound
<1> HIDE DEF u
<1>3. u.res = "OK" => o \in Live /\ Sane(o, {}, {}) /\ (o.res = "OK" => Loading(o))
  BY <1>2, UploadStarts
<1> HIDE DEF o
<1>4. u.res = "OK" /\ o.res = "OK" => Loading(l)
  <2>1. data \in Seq(Words)
    BY HostsAre
  <2> QED
    BY <1>3, <2>1, WriteChunksFills
<1> HIDE DEF l
<1>5. u.res = "OK" /\ o.res = "OK" => Sane(w, {}, {})
  BY <1>4, LoadingClears
<1> HIDE DEF w
<1>6. u.res = "OK" => Tidy(b)
  BY <1>3, <1>5, TidyIs
<1> HIDE DEF b, a
<1>7. Ends(a) /\ Leaves(a)
  BY <1>6, CardSound DEF a, u
<1> QED
  BY <1>1, <1>7

-----------------------------------------------------------------------------
(* Reading leaves the volume sound: what has been read of a file of which  *)
(* nothing was written,                                                    *)
LEMMA ReadChunkPeeks ==
  ASSUME NEW v, NEW k \in Nat, NEW g \in Reads(FALSE), Peeks(v, g.v)
  PROVE  Peeks(v, ReadChunk(g, k).v)
<1> DEFINE n == Least(k - Len(g.got), kFileBufferSize)
           r == ReadFile(g.v, n)
           b == IF r.res = "OK" THEN g.got \o r.buf ELSE g.got
           m == r.res = "OK" /\ r.cnt # 0
           e == [g EXCEPT !.more = FALSE]
           h == [v |-> r, got |-> b, more |-> m]
<1>1. ReadChunk(g, k) = IF Len(g.got) >= k THEN e ELSE h
  BY DEF ReadChunk, With
<1>2. g.v \in Fine(FALSE) /\ e.v = g.v /\ Len(g.got) \in Nat /\ h.v = r
  <2>1. g.v \in Fine(FALSE) /\ g.got \in Seq(Words \union EntrySet) /\ e.v = g.v
    BY DEF Reads
  <2> HIDE DEF e, r, b, m
  <2>2. Len(g.got) \in Nat
    BY <2>1
  <2>3. h.v = r
    BY Zenon
  <2> QED
    BY <2>1, <2>2, <2>3, Zenon
<1>3. ~(Len(g.got) >= k) => n \in Nat
  <2>1. kFileBufferSize \in Nat
    BY TransferAssumption
  <2> QED
    BY <1>2, <2>1 DEF Least
<1> HIDE DEF n, e, h
<1>4. g.v \in Live /\ FileOK(g.v.fp)
  BY <1>2, GoodLives DEF Fine
<1>5. n \in Nat => Peeks(g.v, r)
  BY <1>4, FReadPeeks DEF ReadFile
<1> HIDE DEF r
<1>6. n \in Nat => Peeks(v, r)
  BY <1>5, PeeksOn
<1> QED
  BY <1>1, <1>2, <1>3, <1>6

(* And all of it. *)
LEMMA ReadChunksPeeks ==
  ASSUME NEW v \in Fine(FALSE), NEW n \in Nat
  PROVE  Peeks(v, ReadChunks(v, n))
<1> DEFINE V == {g \in Reads(FALSE) : Peeks(v, g.v)}
           a == [v |-> OK(v), got |-> <<>>, more |-> TRUE]
           B(u, k) == IF u.more THEN ReadChunk(u, n) ELSE u
           F(h) == [k \in 0..n |-> IF k = 0 THEN a ELSE B(h[k - 1], k)]
           at == CHOOSE h : h = F(h)
           G == [p \in V \X (1..n) |-> B(p[1], p[2])]
<1>1. a \in V
  <2>1. v \in Live
    BY GoodLives DEF Fine
  <2>2. Peeks(v, OK(v))
    BY <2>1, OKLive, PeeksStore
  <2>3. ASSUME NEW q \in BOOLEAN, v \in Fine(q) PROVE a \in Reads(q)
    BY <2>3, OKFine DEF Reads
  <2>4. a.v = OK(v)
    OBVIOUS
  <2> HIDE DEF a
  <2> QED
    BY <2>2, <2>3, <2>4
<1>2. \A u \in V, k \in 1..n : B(u, k) \in V
  BY ReadChunkKeeps, ReadChunkPeeks
<1>3. ReadChunks(v, n) = [at[n].v EXCEPT !.buf = at[n].got]
  BY Zenon DEF ReadChunks, With
<1> HIDE DEF V, B, a
<1>4. G \in [V \X (1..n) -> V] /\ \A u \in V, k \in 1..n : G[<<u, k>>] = B(u, k)
  BY <1>2
<1> HIDE DEF G
<1>5. PICK g \in [0..n -> V] : Runs(g, V, a, G, n)
  BY <1>1, <1>4, LoopRuns, Zenon
<1>6. g = F(g)
  <2>1. \A k \in 1..n : g[k] = B(g[k - 1], k)
    BY <1>4, <1>5, Zenon DEF Runs
  <2>2. \A k \in 0..n : g[k] = IF k = 0 THEN a ELSE B(g[k - 1], k)
    BY <1>5, <2>1 DEF Runs
  <2> QED
    BY <2>2
<1>7. at = F(at)
  BY <1>6
<1> HIDE DEF at
<1>8. at[0] = a /\ \A k \in 1..n : at[k] = B(at[k - 1], k)
  BY <1>7
<1>9. at[n] \in V
  <2>1. \A k \in 1..n : at[k - 1] \in V => at[k] \in V
    BY <1>2, <1>8, Zenon
  <2> QED
    BY <1>1, <1>8, <2>1, LoopStays, Zenon
<1> DEFINE r == at[n].v
           b == at[n].got
           w == [r EXCEPT !.buf = b]
<1>10. Peeks(v, r) /\ b \in Seq(Words \union EntrySet)
  BY <1>9 DEF V, Reads
<1>11. ReadChunks(v, n) = w
  BY <1>3
<1> HIDE DEF r, b
<1>12. r \in Live
  BY <1>10 DEF Peeks
<1>13. w \in Live /\ SameStore(r, w) /\ w.fp = r.fp
  BY <1>10, <1>12, BufLive
<1> HIDE DEF w
<1>14. Peeks(r, w)
  BY <1>13, PeeksStore
<1> QED
  BY <1>10, <1>11, <1>14, PeeksOn

(* A file that is opened, read and closed, *)
LEMMA ReadThrough ==
  ASSUME NEW u \in Live, Sane(u, {}, {}), NEW p \in Paths
  PROVE  LET o == OpenFile(u, p, FALSE)
         IN  /\ Sane(o, {}, {}) /\ o.fp.size \in Nat
             /\ o.res = "OK" => \A n \in Nat : Sane(CloseFile(ReadChunks(o, n)), {}, {})
<1> DEFINE n == Abs(p)
           o == f_open(u, n, {"R"})
<1>1. OpenFile(u, p, FALSE) = o
  BY DEF OpenFile
<1>2. n \in PathSet
  BY HostsAre
<1> HIDE DEF n
<1>3. o \in Live /\ Looks(u, o) /\ (o.res = "OK" => o.fp.mod = FALSE)
  BY <1>2, OpenReadLooks
<1>4. o \in Fine(FALSE)
  <2>1. u \in Good(FALSE) /\ FALSE \in BOOLEAN
    BY LiveIs
  <2> QED
    BY <1>2, <2>1, FOpenKeeps
<1> HIDE DEF o
<1>5. o.fp.size \in Nat
  BY <1>3, FileIs
<1>6. Sane(o, {}, {})
  BY <1>3, LooksSane
<1>7. ASSUME o.res = "OK", NEW k \in Nat PROVE Sane(CloseFile(ReadChunks(o, k)), {}, {})
  <2> DEFINE r == ReadChunks(o, k)
             c == OK(r)
             w == f_close(c)
  <2>1. Peeks(o, r)
    BY <1>4, ReadChunksPeeks
  <2> HIDE DEF r
  <2>2. r \in Live /\ Looks(o, r) /\ r.fp.mod = FALSE
    BY <1>3, <1>7, <2>1 DEF Peeks
  <2>3. c \in Live /\ Looks(r, c) /\ c.fp.mod = FALSE
    BY <2>2, OKLive, StoreLooks
  <2> HIDE DEF c
  <2>4. Looks(c, w)
    BY <2>3, FCloseLooks
  <2> HIDE DEF w
  <2>5. Sane(w, {}, {})
    BY <1>6, <2>2, <2>3, <2>4, LooksSane
  <2> QED
    BY <2>5 DEF CloseFile, w, c, r
<1> QED
  BY <1>1, <1>5, <1>6, <1>7

(* In a download, *)
LEMMA DownloadSound ==
  ASSUME TransferInv, NEW v, Starts(v), NEW p \in Paths
  PROVE  Ends(HandleDownload(v, p)) /\ Leaves(HandleDownload(v, p))
<1> DEFINE u == EnsureSgclibReady(v)
           o == OpenFile(u, p, FALSE)
           r == ReadChunks(o, o.fp.size)
           w == CloseFile(r)
           c == Answer(w, "Handled", <<o.fp.size, r.buf>>)
           e == Answer(o, "Error", <<>>)
           b == IF o.res = "OK" THEN c ELSE e
           a == IF u.res = "OK" THEN [b EXCEPT !.up = TRUE] ELSE Answer(u, "Error", <<>>)
<1>1. HandleDownload(v, p) = a
  BY Zenon DEF HandleDownload, WithCard, Opened, With
<1>2. u.res = "OK" => u \in Live /\ Sane(u, {}, {})
  BY ReadySound
<1> HIDE DEF u
<1>3. u.res = "OK" => /\ Sane(o, {}, {}) /\ o.fp.size \in Nat
                      /\ o.res = "OK" => \A n \in Nat : Sane(CloseFile(ReadChunks(o, n)), {}, {})
  BY <1>2, ReadThrough
<1> HIDE DEF o
<1>4. u.res = "OK" /\ o.res = "OK" => Sane(w, {}, {})
  BY <1>3
<1> HIDE DEF r, w
<1>5. u.res = "OK" => Tidy(b)
  BY <1>3, <1>4, TidyIs
<1> HIDE DEF b, a
<1>6. Ends(a) /\ Leaves(a)
  BY <1>5, CardSound DEF a, u
<1> QED
  BY <1>1, <1>6

(* In a checksum, *)
LEMMA CrcSound ==
  ASSUME TransferInv, NEW v, Starts(v), NEW p \in Paths
  PROVE  Ends(HandleCrc(v, p)) /\ Leaves(HandleCrc(v, p))
<1> DEFINE u == EnsureSgclibReady(v)
           o == OpenFile(u, p, FALSE)
           n == o.fp.size + kFileBufferSize
           r == ReadChunks(o, n)
           w == CloseFile(r)
           st == IF r.res = "OK" THEN "Ok" ELSE "Error"
           c == Answer(w, st, r.buf)
           e == Answer(o, "Error", <<>>)
           b == IF o.res = "OK" THEN c ELSE e
           a == IF u.res = "OK" THEN [b EXCEPT !.up = TRUE] ELSE Answer(u, "Error", <<>>)
<1>1. HandleCrc(v, p) = a
  BY Zenon DEF HandleCrc, WithCard, Opened, With
<1>2. u.res = "OK" => u \in Live /\ Sane(u, {}, {})
  BY ReadySound
<1> HIDE DEF u
<1>3. u.res = "OK" => /\ Sane(o, {}, {}) /\ o.fp.size \in Nat
                      /\ o.res = "OK" => \A k \in Nat : Sane(CloseFile(ReadChunks(o, k)), {}, {})
  BY <1>2, ReadThrough
<1> HIDE DEF o
<1>4. u.res = "OK" => n \in Nat
  BY <1>3, TransferAssumption
<1> HIDE DEF n
<1>5. u.res = "OK" /\ o.res = "OK" => Sane(w, {}, {})
  BY <1>3, <1>4
<1> HIDE DEF r, w, st
<1>6. u.res = "OK" => Tidy(b)
  BY <1>3, <1>5, TidyIs
<1> HIDE DEF b, a
<1>7. Ends(a) /\ Leaves(a)
  BY <1>6, CardSound DEF a, u
<1> QED
  BY <1>1, <1>7

(* And the entries of a directory. *)
LEMMA ReadEntryLooks ==
  ASSUME NEW v, NEW g \in Lists(FALSE), g.more, Looks(v, g.v)
  PROVE  Looks(v, ReadEntry(g).v)
<1> DEFINE r == ReadDirectory(g.v)
           x == r.buf[1].nm
           e == [g EXCEPT !.v = r, !.more = FALSE]
           h == [g EXCEPT !.v = r, !.names = Append(@, x)]
           c == r.res # "OK" \/ r.buf = <<>>
<1>1. ReadEntry(g) = IF c THEN e ELSE h
  BY DEF ReadEntry, With
<1>2. g \in Listing /\ g.v \in Live /\ AtOrPast(g.v.dp)
  BY GoodLives DEF Lists
<1>3. Looks(g.v, r)
  BY <1>2, ReaddirLooks DEF ReadDirectory
<1> HIDE DEF r
<1>4. e.v = r /\ h.v = r
  BY <1>2 DEF Listing
<1> QED
  BY <1>1, <1>3, <1>4, LooksOn

(* As many as are sent. *)
LEMMA ReadEntriesSound ==
  ASSUME NEW v \in Live, AtOrPast(v.dp), Sane(v, {}, {})
  PROVE  Tidy(ReadEntries(v))
<1> DEFINE n == kMaxDirEntries
           V == {g \in Lists(FALSE) : Looks(v, g.v)}
           a == [v |-> v, names |-> <<>>, more |-> TRUE]
           B(u, k) == IF u.more THEN ReadEntry(u) ELSE u
           F(h) == [k \in 0..n |-> IF k = 0 THEN a ELSE B(h[k - 1], k)]
           at == CHOOSE h : h = F(h)
           G == [p \in V \X (1..n) |-> B(p[1], p[2])]
<1>1. n \in Nat /\ a \in V
  <2>1. v \in Good(FALSE) /\ FALSE \in BOOLEAN
    BY LiveIs
  <2>2. ASSUME NEW q \in BOOLEAN, v \in Good(q) PROVE a \in Lists(q)
    <3>1. a \in Listing
      BY <2>2 DEF Listing
    <3> QED
      BY <2>2, <3>1 DEF Lists
  <2>5. a.v = v
    OBVIOUS
  <2>3. Looks(v, v)
    <3>1. SameStore(v, v)
      BY DEF SameStore
    <3> QED
      BY <3>1, StoreLooks
  <2> HIDE DEF a
  <2>4. a \in Lists(FALSE) /\ Looks(v, a.v)
    BY <2>1, <2>2, <2>3, <2>5
  <2> QED
    BY <2>4, TransferAssumption
<1>2. \A u \in V, k \in 1..n : B(u, k) \in V
  BY ReadEntryKeeps, ReadEntryLooks
<1>3. ReadEntries(v) = Answer(at[n].v, "Ok", at[n].names)
  BY Zenon DEF ReadEntries, With
<1> HIDE DEF V, B, a, n
<1>4. G \in [V \X (1..n) -> V] /\ \A u \in V, k \in 1..n : G[<<u, k>>] = B(u, k)
  BY <1>2
<1> HIDE DEF G
<1>5. PICK g \in [0..n -> V] : Runs(g, V, a, G, n)
  BY <1>1, <1>4, LoopRuns, Zenon
<1>6. g = F(g)
  <2>1. \A k \in 1..n : g[k] = B(g[k - 1], k)
    BY <1>4, <1>5, Zenon DEF Runs
  <2>2. \A k \in 0..n : g[k] = IF k = 0 THEN a ELSE B(g[k - 1], k)
    BY <1>5, <2>1 DEF Runs
  <2> QED
    BY <2>2
<1>7. at = F(at)
  BY <1>6
<1> HIDE DEF at
<1>8. at[0] = a /\ \A k \in 1..n : at[k] = B(at[k - 1], k)
  BY <1>1, <1>7
<1>9. at[n] \in V
  <2>1. \A k \in 1..n : at[k - 1] \in V => at[k] \in V
    BY <1>2, <1>8, Zenon
  <2> QED
    BY <1>1, <1>8, <2>1, LoopStays, Zenon
<1>10. Sane(at[n].v, {}, {})
  <2>1. Looks(v, at[n].v)
    BY <1>9 DEF V
  <2> QED
    BY <2>1, LooksSane
<1> QED
  BY <1>3, <1>10, TidyIs

(* A listing. *)
LEMMA ListSound ==
  ASSUME TransferInv, NEW v, Starts(v), NEW p \in {<<>>} \union Paths
  PROVE  Ends(HandleList(v, p)) /\ Leaves(HandleList(v, p))
<1> DEFINE u == EnsureSgclibReady(v)
           s == StatPath(u, p)
           d == OpenDirectory(s, p)
           f == Answer(s, "Ok", <<"[F]">>)
           e == Answer(d, "Error", <<>>)
           c == ReadEntries(d)
           b == IF s.res = "OK" /\ ~s.buf[1].dir THEN f
                ELSE IF d.res # "OK" THEN e ELSE c
           a == IF u.res = "OK" THEN [b EXCEPT !.up = TRUE] ELSE Answer(u, "Error", <<>>)
<1>1. HandleList(v, p) = a
  BY Zenon DEF HandleList, WithCard, With
<1>2. u.res = "OK" => u \in Live /\ Sane(u, {}, {})
  BY ReadySound
<1> HIDE DEF u
<1>3. ASSUME u.res = "OK" PROVE Tidy(b)
  <2> DEFINE n == Abs(p)
             o == OK(s)
  <2>1. n \in PathSet
    BY HostsAre
  <2>2. s \in Live /\ Looks(u, s)
    BY <1>2, <1>3, <2>1, StatLooks DEF StatPath
  <2>3. d = f_opendir(o, n)
    BY DEF OpenDirectory
  <2> HIDE DEF s, n
  <2>4. o \in Live /\ Looks(s, o)
    BY <2>2, OKLive, StoreLooks
  <2> HIDE DEF o, d
  <2>5. d \in Live /\ Looks(o, d) /\ (d.res = "OK" => InTable(d.dp))
    BY <2>1, <2>3, <2>4, OpendirLooks
  <2>6. Sane(s, {}, {}) /\ Sane(d, {}, {})
    BY <1>2, <1>3, <2>2, <2>4, <2>5, LooksSane
  <2>7. d.res = "OK" => Tidy(c)
    BY <2>5, <2>6, ReadEntriesSound DEF AtOrPast
  <2>8. Tidy(e) /\ Tidy(f)
    BY <2>6, TidyIs
  <2> HIDE DEF c, e, f
  <2> QED
    BY <2>7, <2>8
<1> HIDE DEF b, a
<1>4. Ends(a) /\ Leaves(a)
  BY <1>3, CardSound DEF a, u
<1> QED
  BY <1>1, <1>4

-----------------------------------------------------------------------------
(* A request that runs to its end. *)
LEMMA DoneKeeps ==
  ASSUME TransferInv, NEW hurt \in BOOLEAN, NEW a, NEW r,
         Outcome(Quiet /\ ~hurt, a), Done(a, r, hurt)
  PROVE  TransferInv'
<1> DEFINE q == Quiet /\ ~hurt
           w == a.v
<1>1. /\ w \in CallSet /\ a.up \in BOOLEAN
      /\ a.up => w \in Good(q)
      /\ ~a.up => ~q /\ w.fs.type = 0 /\ ~w.fs.wflag
  BY DEF Outcome
<1>2. /\ disk' = w.disk /\ m_fatfs' = w.fs /\ m_mounted' = a.up /\ g_sgcReady' = a.up
      /\ cuts' = cuts /\ faults' = IF hurt THEN faults + 1 ELSE faults
  BY DEF Done
<1>3. cuts \in Nat /\ faults \in Nat
  BY DEF TransferInv, CardInv
<1>4. Quiet' = q
  BY <1>2, <1>3 DEF Quiet
<1>5. CardInv' /\ FlagsInv'
  BY <1>1, <1>2, <1>3 DEF CardInv, FlagsInv, CallSet
<1>6. q \in BOOLEAN
  BY DEF Quiet
<1> HIDE DEF q, w
<1>7. MountInv'
  <2>1. CASE a.up
    <3> DEFINE b == -1
    <3>1. b \in Int /\ (q => b = -1) /\ 0 \in Int /\ w \in Good(q) /\ q \in BOOLEAN
      BY <1>1, <1>6, <2>1
    <3> HIDE DEF b
    <3>2. Call(w.disk, w.fs, 0, b) \in Good(q)
      BY <3>1, StartAfter
    <3>3. Call(disk', m_fatfs', 0, -1) \in Good(Quiet')
      BY <1>2, <1>4, <3>2 DEF b
    <3> QED
      BY <1>2, <2>1, <3>3 DEF MountInv
  <2>2. CASE ~a.up
    <3>1. w.fs \in Volumes
      BY <1>1 DEF CallSet
    <3> QED
      BY <1>1, <1>2, <1>4, <2>2, <3>1 DEF MountInv
  <2> QED
    BY <1>1, <2>1, <2>2
<1> QED
  BY <1>5, <1>7 DEF TransferInv

(* A power loss in the middle of one. *)
LEMMA PowerLossKeeps ==
  ASSUME TransferInv, NEW w \in CallSet, NEW r, PowerLoss(w, r)
  PROVE  TransferInv'
<1>1. disk \in Cards /\ cuts \in Nat /\ faults \in Nat /\ w.media \subseteq Cards
  BY DEF TransferInv, CardInv, CallSet
<1>2. /\ disk' \in Cards /\ cuts' = cuts + 1 /\ faults' = faults
      /\ m_fatfs' = NoFs /\ m_mounted' = FALSE /\ g_sgcReady' = FALSE
  BY <1>1 DEF PowerLoss
<1>3. CardInv' /\ FlagsInv'
  <2>1. CardInv'
    BY <1>1, <1>2 DEF CardInv
  <2>2. FlagsInv'
    BY <1>2, Zenon DEF FlagsInv
  <2> QED
    BY <2>1, <2>2
<1>4. NoFs \in Volumes /\ NoFs.type = 0 /\ ~NoFs.wflag
  BY NoFsIs DEF NoFs
<1>5. ~Quiet'
  BY <1>1, <1>2 DEF Quiet
<1>6. MountInv'
  BY <1>2, <1>4, <1>5 DEF MountInv
<1> QED
  BY <1>3, <1>6 DEF TransferInv

(* What becomes of a request: it runs to its end, with or without a disk   *)
(* error, h being what it ends with in that case, or is cut off.           *)
LEMMA ServedKeeps ==
  ASSUME TransferInv, NEW a, NEW h, NEW r,
         Outcome(Quiet, a), Outcome(FALSE, h),
         Done(a, r, FALSE) \/ Done(h, r, TRUE) \/ PowerLoss(a.v, r)
  PROVE  TransferInv'
<1>1. CASE Done(a, r, FALSE)
  <2>1. (Quiet /\ ~FALSE) = Quiet
    BY DEF Quiet
  <2>2. Outcome(Quiet /\ ~FALSE, a)
    BY <2>1
  <2> QED
    BY <1>1, <2>2, DoneKeeps
<1>2. CASE Done(h, r, TRUE)
  <2>1. (Quiet /\ ~TRUE) = FALSE
    BY DEF Quiet
  <2>2. Outcome(Quiet /\ ~TRUE, h)
    BY <2>1
  <2> QED
    BY <1>2, <2>2, DoneKeeps
<1>3. CASE PowerLoss(a.v, r)
  BY <1>3, PowerLossKeeps DEF Outcome
<1> QED
  BY <1>1, <1>2, <1>3

(* A request that runs to its end leaves the volume sound if what it ends  *)
(* with is.                                                                *)
LEMMA DoneSound ==
  ASSUME NEW hurt \in BOOLEAN, NEW a, NEW r, Done(a, r, hurt), ~torn' => Ends(a)
  PROVE  SoundNow'
<1> SUFFICES ASSUME ~torn'
             PROVE  /\ Kept(disk', {}, {}) /\ Kept(Seen(disk', m_fatfs'), {}, {})
                    /\ m_mounted' => WinTrue(Call(disk', m_fatfs', 0, -1))
  BY DEF SoundNow
<1> DEFINE w == a.v
           u == Call(disk', m_fatfs', 0, -1)
<1>1. disk' = w.disk /\ m_fatfs' = w.fs /\ m_mounted' = a.up
  BY DEF Done
<1>2. Kept(w.disk, {}, {}) /\ Kept(Sees(w), {}, {}) /\ (a.up => WinTrue(w))
  BY DEF Ends
<1>3. u.disk = disk' /\ u.fs = m_fatfs'
  BY DEF Call
<1> HIDE DEF u, w
<1>4. Sees(w) = Seen(disk', m_fatfs') /\ Sees(u) = Sees(w)
  BY <1>1, <1>3 DEF Sees
<1>5. WinTrue(w) => WinTrue(u)
  BY <1>1, <1>3, <1>4 DEF WinTrue
<1> QED
  BY <1>1, <1>2, <1>4, <1>5 DEF u

(* A power loss leaves one of the cards that the request has left.         *)
LEMMA PowerLossSound ==
  ASSUME SoundNow, NEW a, NEW r, PowerLoss(a.v, r), ~torn => Leaves(a)
  PROVE  SoundNow'
<1> SUFFICES ASSUME ~torn'
             PROVE  /\ Kept(disk', {}, {}) /\ Kept(Seen(disk', m_fatfs'), {}, {})
                    /\ m_mounted' => WinTrue(Call(disk', m_fatfs', 0, -1))
  BY DEF SoundNow
<1>1. /\ disk' \in a.v.media \union {disk} /\ m_fatfs' = NoFs /\ m_mounted' = FALSE
      /\ ~torn
  BY DEF PowerLoss
<1>2. Kept(disk, {}, {}) /\ \A d \in a.v.media : Kept(d, {}, {})
  BY <1>1 DEF SoundNow, Leaves
<1>3. Kept(disk', {}, {})
  BY <1>1, <1>2
<1>4. Seen(disk', m_fatfs') = disk'
  <2>1. ~NoFs.wflag
    BY DEF NoFs
  <2> QED
    BY <1>1, <2>1 DEF Seen
<1> QED
  BY <1>1, <1>3, <1>4

(* What becomes of a request: it runs to its end, with or without a disk   *)
(* error, or is cut off; of a rename only the first leaves a sound volume. *)
LEMMA ServedSound ==
  ASSUME SoundNow, NEW a, NEW h, NEW r,
         ~torn => Ends(a) /\ (r.op # "rename" => Leaves(a) /\ Ends(h)),
         Done(a, r, FALSE) \/ Done(h, r, TRUE) \/ PowerLoss(a.v, r)
  PROVE  SoundNow'
<1>1. CASE Done(a, r, FALSE)
  <2>1. ~torn' => ~torn
    BY <1>1 DEF Done
  <2> QED
    BY <1>1, <2>1, DoneSound
<1>2. CASE Done(h, r, TRUE)
  <2>1. ~torn' => ~torn /\ r.op # "rename"
    BY <1>2 DEF Done
  <2> QED
    BY <1>2, <2>1, DoneSound
<1>3. CASE PowerLoss(a.v, r)
  <2>1. ~torn' => ~torn /\ r.op # "rename"
    BY <1>3 DEF PowerLoss
  <2>2. CASE torn'
    BY <2>2 DEF SoundNow
  <2>3. CASE ~torn'
    BY <1>3, <2>1, <2>3, PowerLossSound
  <2> QED
    BY <2>2, <2>3
<1> QED
  BY <1>1, <1>2, <1>3

-----------------------------------------------------------------------------
(* The transfers that are to fail are numbered. *)
LEMMA TransfersAre ==
  0 \in Int /\ Forever \in Int /\ \A n : \A f \in 0 .. n : f \in Int
BY DEF Forever

(* A request starts as it must, whichever of its transfers are to fail. *)
LEMMA BeginsWell ==
  ASSUME TransferInv
  PROVE  /\ Begins(Quiet, Call(disk, m_fatfs, -1, -1)) /\ Quiet \in BOOLEAN
         /\ \A f \in Int, t \in Int : Begins(FALSE, Call(disk, m_fatfs, f, t))
<1> DEFINE q == Quiet
           b == -1
<1>1. q \in BOOLEAN /\ b \in Int /\ (q => Quiet /\ b = -1)
  BY DEF Quiet
<1> HIDE DEF q, b
<1>2. Begins(q, Call(disk, m_fatfs, b, b))
  BY <1>1, StartBegins
<1>3. ASSUME NEW f \in Int, NEW t \in Int
      PROVE  Begins(FALSE, Call(disk, m_fatfs, f, t))
  BY StartBegins
<1> QED
  BY <1>1, <1>2, <1>3 DEF q, b

(* All transfers numbered from some one on may fail, or none. *)
LEMMA StartsAll ==
  ASSUME TransferInv, SoundNow, ~torn
  PROVE  /\ \A f \in Int, t \in Int : Starts(Call(disk, m_fatfs, f, t))
         /\ Starts(Call(disk, m_fatfs, -1, -1)) /\ Call(disk, m_fatfs, -1, -1).to = -1
<1>1. \A f \in Int, t \in Int : /\ Starts(Call(disk, m_fatfs, f, t))
                                /\ Call(disk, m_fatfs, f, t).to = t
  BY StartStarts
<1> DEFINE b == -1
<1>2. b \in Int
  OBVIOUS
<1> HIDE DEF b
<1>3. Starts(Call(disk, m_fatfs, b, b)) /\ Call(disk, m_fatfs, b, b).to = b
  BY <1>1, <1>2
<1> QED
  BY <1>1, <1>3 DEF b

(* An upload keeps the invariant, *)
LEMMA UploadServed ==
  ASSUME TransferInv, Upload
  PROVE  TransferInv' /\ (SoundNow => SoundNow')
<1>1. PICK p \in Files, d \in Uploads :
          Serve(LAMBDA v : HandleUpload(v, p, d),
                [op |-> "upload", on |-> {p}, path |-> p, data |-> d])
  BY DEF Upload
<1> DEFINE H(v) == HandleUpload(v, p, d)
           r == [op |-> "upload", on |-> {p}, path |-> p, data |-> d]
           C(x, y) == Call(disk, m_fatfs, x, y)
           a == H(C(-1, -1))
<1>2. /\ \A q \in BOOLEAN : \A v : Begins(q, v) => Outcome(q, H(v))
      /\ \A v : Starts(v) => Ends(H(v)) /\ Leaves(H(v))
  BY UploadIs, UploadSound DEF Paths
<1> HIDE DEF H, r
<1>3. Outcome(Quiet, a) /\ (SoundNow /\ ~torn => Ends(a) /\ Leaves(a))
  BY <1>2, BeginsWell, StartsAll
<1>4. \A f \in Int, t \in Int : /\ Outcome(FALSE, H(C(f, t)))
                                /\ SoundNow /\ ~torn => Ends(H(C(f, t)))
  BY <1>2, BeginsWell, StartsAll
<1>5. PICK f \in Int, t \in Int :
          \/ Done(a, r, FALSE)
          \/ Done(H(C(f, t)), r, TRUE)
          \/ PowerLoss(a.v, r)
  BY <1>1, TransfersAre, Zenon DEF Serve, H, r
<1> DEFINE h == H(C(f, t))
<1>6. Outcome(FALSE, h) /\ (SoundNow /\ ~torn => Ends(h))
  BY <1>4
<1> HIDE DEF a, h
<1> QED
  BY <1>3, <1>5, <1>6, ServedKeeps, ServedSound DEF h

(* A download, *)
LEMMA DownloadServed ==
  ASSUME TransferInv, Download
  PROVE  TransferInv' /\ (SoundNow => SoundNow')
<1>1. PICK p \in Files :
          Serve(LAMBDA v : HandleDownload(v, p), On("download", p))
  BY DEF Download
<1> DEFINE H(v) == HandleDownload(v, p)
           r == On("download", p)
           C(x, y) == Call(disk, m_fatfs, x, y)
           a == H(C(-1, -1))
<1>2. /\ \A q \in BOOLEAN : \A v : Begins(q, v) => Outcome(q, H(v))
      /\ \A v : Starts(v) => Ends(H(v)) /\ Leaves(H(v))
  BY DownloadIs, DownloadSound DEF Paths
<1> HIDE DEF H, r
<1>3. Outcome(Quiet, a) /\ (SoundNow /\ ~torn => Ends(a) /\ Leaves(a))
  BY <1>2, BeginsWell, StartsAll
<1>4. \A f \in Int, t \in Int : /\ Outcome(FALSE, H(C(f, t)))
                                /\ SoundNow /\ ~torn => Ends(H(C(f, t)))
  BY <1>2, BeginsWell, StartsAll
<1>5. PICK f \in Int, t \in Int :
          \/ Done(a, r, FALSE)
          \/ Done(H(C(f, t)), r, TRUE)
          \/ PowerLoss(a.v, r)
  BY <1>1, TransfersAre, Zenon DEF Serve, H, r
<1> DEFINE h == H(C(f, t))
<1>6. Outcome(FALSE, h) /\ (SoundNow /\ ~torn => Ends(h))
  BY <1>4
<1> HIDE DEF a, h
<1> QED
  BY <1>3, <1>5, <1>6, ServedKeeps, ServedSound DEF h

(* A checksum, *)
LEMMA CrcServed ==
  ASSUME TransferInv, Crc
  PROVE  TransferInv' /\ (SoundNow => SoundNow')
<1>1. PICK p \in Files :
          Serve(LAMBDA v : HandleCrc(v, p), On("crc", p))
  BY DEF Crc
<1> DEFINE H(v) == HandleCrc(v, p)
           r == On("crc", p)
           C(x, y) == Call(disk, m_fatfs, x, y)
           a == H(C(-1, -1))
<1>2. /\ \A q \in BOOLEAN : \A v : Begins(q, v) => Outcome(q, H(v))
      /\ \A v : Starts(v) => Ends(H(v)) /\ Leaves(H(v))
  BY CrcIs, CrcSound DEF Paths
<1> HIDE DEF H, r
<1>3. Outcome(Quiet, a) /\ (SoundNow /\ ~torn => Ends(a) /\ Leaves(a))
  BY <1>2, BeginsWell, StartsAll
<1>4. \A f \in Int, t \in Int : /\ Outcome(FALSE, H(C(f, t)))
                                /\ SoundNow /\ ~torn => Ends(H(C(f, t)))
  BY <1>2, BeginsWell, StartsAll
<1>5. PICK f \in Int, t \in Int :
          \/ Done(a, r, FALSE)
          \/ Done(H(C(f, t)), r, TRUE)
          \/ PowerLoss(a.v, r)
  BY <1>1, TransfersAre, Zenon DEF Serve, H, r
<1> DEFINE h == H(C(f, t))
<1>6. Outcome(FALSE, h) /\ (SoundNow /\ ~torn => Ends(h))
  BY <1>4
<1> HIDE DEF a, h
<1> QED
  BY <1>3, <1>5, <1>6, ServedKeeps, ServedSound DEF h

(* The removal of a file, *)
LEMMA RemoveServed ==
  ASSUME TransferInv, Remove
  PROVE  TransferInv' /\ (SoundNow => SoundNow')
<1>1. PICK p \in Files :
          Serve(LAMBDA v : HandleRemove(v, p), On("remove", p))
  BY DEF Remove
<1> DEFINE H(v) == HandleRemove(v, p)
           r == On("remove", p)
           C(x, y) == Call(disk, m_fatfs, x, y)
           a == H(C(-1, -1))
<1>2. /\ \A q \in BOOLEAN : \A v : Begins(q, v) => Outcome(q, H(v))
      /\ \A v : Starts(v) => Ends(H(v)) /\ Leaves(H(v))
  BY RemoveIs, RemoveSound DEF Paths
<1> HIDE DEF H, r
<1>3. Outcome(Quiet, a) /\ (SoundNow /\ ~torn => Ends(a) /\ Leaves(a))
  BY <1>2, BeginsWell, StartsAll
<1>4. \A f \in Int, t \in Int : /\ Outcome(FALSE, H(C(f, t)))
                                /\ SoundNow /\ ~torn => Ends(H(C(f, t)))
  BY <1>2, BeginsWell, StartsAll
<1>5. PICK f \in Int, t \in Int :
          \/ Done(a, r, FALSE)
          \/ Done(H(C(f, t)), r, TRUE)
          \/ PowerLoss(a.v, r)
  BY <1>1, TransfersAre, Zenon DEF Serve, H, r
<1> DEFINE h == H(C(f, t))
<1>6. Outcome(FALSE, h) /\ (SoundNow /\ ~torn => Ends(h))
  BY <1>4
<1> HIDE DEF a, h
<1> QED
  BY <1>3, <1>5, <1>6, ServedKeeps, ServedSound DEF h

(* The making of a directory *)
LEMMA MkdirServed ==
  ASSUME TransferInv, Mkdir
  PROVE  TransferInv' /\ (SoundNow => SoundNow')
<1>1. PICK p \in Folders :
          Serve(LAMBDA v : HandleMkdir(v, p), On("mkdir", p))
  BY DEF Mkdir
<1> DEFINE H(v) == HandleMkdir(v, p)
           r == On("mkdir", p)
           C(x, y) == Call(disk, m_fatfs, x, y)
           a == H(C(-1, -1))
<1>2. /\ \A q \in BOOLEAN : \A v : Begins(q, v) => Outcome(q, H(v))
      /\ \A v : Starts(v) => Ends(H(v)) /\ Leaves(H(v))
  BY MkdirIs, MkdirSound DEF Paths
<1> HIDE DEF H, r
<1>3. Outcome(Quiet, a) /\ (SoundNow /\ ~torn => Ends(a) /\ Leaves(a))
  BY <1>2, BeginsWell, StartsAll
<1>4. \A f \in Int, t \in Int : /\ Outcome(FALSE, H(C(f, t)))
                                /\ SoundNow /\ ~torn => Ends(H(C(f, t)))
  BY <1>2, BeginsWell, StartsAll
<1>5. PICK f \in Int, t \in Int :
          \/ Done(a, r, FALSE)
          \/ Done(H(C(f, t)), r, TRUE)
          \/ PowerLoss(a.v, r)
  BY <1>1, TransfersAre, Zenon DEF Serve, H, r
<1> DEFINE h == H(C(f, t))
<1>6. Outcome(FALSE, h) /\ (SoundNow /\ ~torn => Ends(h))
  BY <1>4
<1> HIDE DEF a, h
<1> QED
  BY <1>3, <1>5, <1>6, ServedKeeps, ServedSound DEF h

(* And its removal, *)
LEMMA RmdirServed ==
  ASSUME TransferInv, Rmdir
  PROVE  TransferInv' /\ (SoundNow => SoundNow')
<1>1. PICK p \in Folders :
          Serve(LAMBDA v : HandleRmdir(v, p), On("rmdir", p))
  BY DEF Rmdir
<1> DEFINE H(v) == HandleRmdir(v, p)
           r == On("rmdir", p)
           C(x, y) == Call(disk, m_fatfs, x, y)
           a == H(C(-1, -1))
<1>2. /\ \A q \in BOOLEAN : \A v : Begins(q, v) => Outcome(q, H(v))
      /\ \A v : Starts(v) => Ends(H(v)) /\ Leaves(H(v))
  BY RemoveIs, RemoveSound DEF Paths
<1> HIDE DEF H, r
<1>3. Outcome(Quiet, a) /\ (SoundNow /\ ~torn => Ends(a) /\ Leaves(a))
  BY <1>2, BeginsWell, StartsAll
<1>4. \A f \in Int, t \in Int : /\ Outcome(FALSE, H(C(f, t)))
                                /\ SoundNow /\ ~torn => Ends(H(C(f, t)))
  BY <1>2, BeginsWell, StartsAll
<1>5. PICK f \in Int, t \in Int :
          \/ Done(a, r, FALSE)
          \/ Done(H(C(f, t)), r, TRUE)
          \/ PowerLoss(a.v, r)
  BY <1>1, TransfersAre, Zenon DEF Serve, H, r
<1> DEFINE h == H(C(f, t))
<1>6. Outcome(FALSE, h) /\ (SoundNow /\ ~torn => Ends(h))
  BY <1>4
<1> HIDE DEF a, h
<1> QED
  BY <1>3, <1>5, <1>6, ServedKeeps, ServedSound DEF h

(* A synchronisation, *)
LEMMA SyncServed ==
  ASSUME TransferInv, Sync
  PROVE  TransferInv' /\ (SoundNow => SoundNow')
<1>1. PICK p \in Folders :
          Serve(LAMBDA v : HandleSync(v, p), On("sync", p))
  BY DEF Sync
<1> DEFINE H(v) == HandleSync(v, p)
           r == On("sync", p)
           C(x, y) == Call(disk, m_fatfs, x, y)
           a == H(C(-1, -1))
<1>2. /\ \A q \in BOOLEAN : \A v : Begins(q, v) => Outcome(q, H(v))
      /\ \A v : Starts(v) => Ends(H(v)) /\ Leaves(H(v))
  BY MkdirIs, MkdirSound DEF Paths
<1> HIDE DEF H, r
<1>3. Outcome(Quiet, a) /\ (SoundNow /\ ~torn => Ends(a) /\ Leaves(a))
  BY <1>2, BeginsWell, StartsAll
<1>4. \A f \in Int, t \in Int : /\ Outcome(FALSE, H(C(f, t)))
                                /\ SoundNow /\ ~torn => Ends(H(C(f, t)))
  BY <1>2, BeginsWell, StartsAll
<1>5. PICK f \in Int, t \in Int :
          \/ Done(a, r, FALSE)
          \/ Done(H(C(f, t)), r, TRUE)
          \/ PowerLoss(a.v, r)
  BY <1>1, TransfersAre, Zenon DEF Serve, H, r
<1> DEFINE h == H(C(f, t))
<1>6. Outcome(FALSE, h) /\ (SoundNow /\ ~torn => Ends(h))
  BY <1>4
<1> HIDE DEF a, h
<1> QED
  BY <1>3, <1>5, <1>6, ServedKeeps, ServedSound DEF h

(* A listing, *)
LEMMA ListServed ==
  ASSUME TransferInv, List
  PROVE  TransferInv' /\ (SoundNow => SoundNow')
<1>1. PICK p \in {<<>>} \union Paths :
          Serve(LAMBDA v : HandleList(v, p), On("list", p))
  BY DEF List
<1> DEFINE H(v) == HandleList(v, p)
           r == On("list", p)
           C(x, y) == Call(disk, m_fatfs, x, y)
           a == H(C(-1, -1))
<1>2. /\ \A q \in BOOLEAN : \A v : Begins(q, v) => Outcome(q, H(v))
      /\ \A v : Starts(v) => Ends(H(v)) /\ Leaves(H(v))
  BY ListIs, ListSound
<1> HIDE DEF H, r
<1>3. Outcome(Quiet, a) /\ (SoundNow /\ ~torn => Ends(a) /\ Leaves(a))
  BY <1>2, BeginsWell, StartsAll
<1>4. \A f \in Int, t \in Int : /\ Outcome(FALSE, H(C(f, t)))
                                /\ SoundNow /\ ~torn => Ends(H(C(f, t)))
  BY <1>2, BeginsWell, StartsAll
<1>5. PICK f \in Int, t \in Int :
          \/ Done(a, r, FALSE)
          \/ Done(H(C(f, t)), r, TRUE)
          \/ PowerLoss(a.v, r)
  BY <1>1, TransfersAre, Zenon DEF Serve, H, r
<1> DEFINE h == H(C(f, t))
<1>6. Outcome(FALSE, h) /\ (SoundNow /\ ~torn => Ends(h))
  BY <1>4
<1> HIDE DEF a, h
<1> QED
  BY <1>3, <1>5, <1>6, ServedKeeps, ServedSound DEF h

(* And a rename. *)
LEMMA RenameServed ==
  ASSUME TransferInv, Rename
  PROVE  TransferInv' /\ (SoundNow => SoundNow')
<1>1. PICK mv \in Moves :
          Serve(LAMBDA v : HandleRename(v, mv[1], mv[2]),
                [op |-> "rename", on |-> {mv[1], mv[2]}, path |-> mv[1], to |-> mv[2]])
  BY DEF Rename
<1> DEFINE H(v) == HandleRename(v, mv[1], mv[2])
           r == [op |-> "rename", on |-> {mv[1], mv[2]},
                 path |-> mv[1], to |-> mv[2]]
           C(x, y) == Call(disk, m_fatfs, x, y)
           a == H(C(-1, -1))
<1>2. /\ \A q \in BOOLEAN : \A v : Begins(q, v) => Outcome(q, H(v))
      /\ \A v : Starts(v) /\ v.to = -1 => Ends(H(v))
  BY RenameIs, RenameSound, HostsAre
<1>3. r.op = "rename"
  BY Zenon
<1> HIDE DEF H, r
<1>4. Outcome(Quiet, a) /\ (SoundNow /\ ~torn => Ends(a))
  BY <1>2, BeginsWell, StartsAll
<1>5. \A f \in Int, t \in Int : Outcome(FALSE, H(C(f, t)))
  BY <1>2, BeginsWell
<1>6. PICK f \in Int, t \in Int :
          \/ Done(a, r, FALSE)
          \/ Done(H(C(f, t)), r, TRUE)
          \/ PowerLoss(a.v, r)
  BY <1>1, TransfersAre, Zenon DEF Serve, H, r
<1> DEFINE h == H(C(f, t))
<1>7. Outcome(FALSE, h)
  BY <1>5
<1> HIDE DEF a, h
<1> QED
  BY <1>3, <1>4, <1>6, <1>7, ServedKeeps, ServedSound DEF h

-----------------------------------------------------------------------------
(* The tables of a new volume are empty, and so is its data area.          *)
LEMMA FreshTable ==
  ASSUME NEW s \in TableArea
  PROVE  \A i \in SlotNos : Blank(EntriesOf(FreshVolume[s])[i])
<1>1. s \in Sectors /\ s # 0 /\ ~(s < RootSect) /\ ~(s < FatBase)
  <2>1. s \in Sectors /\ s # 0 /\ s >= RootSect /\ s \in Nat
    BY AreasApart
  <2> QED
    BY <2>1, LayoutIs
<1>2. FreshVolume[s] = ZeroSector \/ FreshVolume[s] = BlankData
  BY <1>1, Zenon DEF FreshVolume
<1>3. BlankData.k # "dir"
  BY DEF BlankData, Data
<1> QED
  BY <1>2, <1>3, JunkIsBlank, ZeroIsBlank, Zenon

(* A new volume is sound. *)
LEMMA FreshKept ==
  Kept(FreshVolume, {}, {})
<1> DEFINE m == FreshVolume
<1>1. \A c \in RealClusters : FatEntry(m, c) = IF FatType = 3 /\ c = RootClust THEN EOC ELSE 0
  <2>1. \A c \in RealClusters : c \in ClusterNos /\ ~(c < 2)
    BY LayoutIs DEF RealClusters, ClusterNos
  <2> QED
    BY <2>1, FreshFatIs
<1>2. \A a \in Places : Blank(At(m, a))
  BY FreshTable DEF Places, At
<1> HIDE DEF m
<1>3. EOC \notin RealClusters /\ 0 \notin RealClusters /\ EOC # 0
  <2>1. EOC \in FatValues /\ EOC # 0 /\ 0 \notin RealClusters /\ RealClusters \subseteq FatValues
    BY NumbersApart
  <2>2. EOC \notin RealClusters
    <3>1. \A c \in RealClusters : c \in FatValues /\ c < NFatEnt
      BY <2>1, LayoutIs DEF RealClusters
    <3> QED
      BY <2>1, <3>1, NumbersApart
  <2> QED
    BY <2>1, <2>2
<1>4. FatSound(m)
  BY <1>1, <1>3 DEF FatSound
<1>5. EntriesSound(m, {})
  <2>1. \A a \in Places : At(m, a).cl = 0 /\ At(m, a).sz = 0
    BY <1>2 DEF Blank
  <2>2. \A a \in Places : Claim(At(m, a)) = 0
    BY <2>1, Zenon DEF Claim
  <2> QED
    BY <2>1, <2>2, Zenon DEF EntriesSound, Rooted
<1>6. Owned(m, {}, {})
  <2>1. \A a \in Places : Claim(At(m, a)) = 0
    BY <1>2, Zenon DEF Claim, Blank
  <2>2. ASSUME NEW c \in Reserved PROVE First(m, c) /\ \A a \in Places : Claim(At(m, a)) # c
    <3>1. FatType = 3 /\ c = RootClust
      BY DEF Reserved
    <3>2. c \in RealClusters /\ c # 0
      BY <3>1, LayoutIs DEF RealClusters, RootClust
    <3>3. First(m, c)
      BY <1>1, <1>3, <3>1, <3>2 DEF First
    <3> QED
      BY <2>1, <3>2, <3>3
  <2> QED
    BY <2>2, Zenon DEF Owned
<1> QED
  BY <1>4, <1>5, <1>6 DEF Kept, m

(* The first request finds a new volume. *)
LEMMA SoundInit ==
  Init => SoundNow
<1> SUFFICES ASSUME Init PROVE SoundNow
  OBVIOUS
<1>1. disk = FreshVolume /\ m_fatfs = NoFs /\ m_mounted = FALSE
  BY DEF Init
<1>2. Seen(disk, m_fatfs) = disk
  <2>1. ~NoFs.wflag
    BY DEF NoFs
  <2> QED
    BY <1>1, <2>1 DEF Seen
<1> QED
  BY <1>1, <1>2, FreshKept DEF SoundNow

(* And what is kept is sound. *)
LEMMA SoundNowIs ==
  ASSUME TransferInv, SoundNow
  PROVE  Sound
<1> SUFFICES ASSUME ~torn, NEW m \in {disk, Seen(disk, m_fatfs)}
             PROVE  NoCrossLinks(m, {}, Depth) /\ SizesCovered(m, {}, Depth)
  BY DEF Sound
<1>1. Kept(m, {}, {})
  BY DEF SoundNow
<1>2. m \in Cards
  <2>1. CASE m_mounted
    <3> DEFINE v == Call(disk, m_fatfs, 0, -1)
               q == Quiet
    <3>1. v \in Good(q) /\ v.disk = disk /\ v.fs = m_fatfs
      BY <2>1 DEF TransferInv, MountInv, Call
    <3> HIDE DEF v, q
    <3>2. v \in CallSet
      BY <3>1 DEF Good, Steady
    <3>3. v.disk \in Cards /\ Sees(v) \in Cards
      BY <3>2, SeesIs DEF CallSet
    <3> QED
      BY <3>1, <3>3 DEF Sees
  <2>2. CASE ~m_mounted
    <3>1. disk \in Cards /\ ~m_fatfs.wflag
      BY <2>2 DEF TransferInv, CardInv, MountInv
    <3> QED
      BY <3>1 DEF Seen
  <2> QED
    BY <2>1, <2>2 DEF TransferInv, FlagsInv
<1>3. Depth \in Nat
  BY DEF Depth
<1> QED
  BY <1>1, <1>2, <1>3, KeptIsSound

-----------------------------------------------------------------------------
(* Every step keeps it. *)
LEMMA TransferNext ==
  TransferInv /\ [Next]_vars => TransferInv' /\ (SoundNow => SoundNow')
<1> SUFFICES ASSUME TransferInv, [Next]_vars
             PROVE  TransferInv' /\ (SoundNow => SoundNow')
  OBVIOUS
<1>1. CASE UNCHANGED vars
  <2>1. TransferInv'
    BY <1>1 DEF vars, TransferInv, CardInv, FlagsInv, MountInv, Quiet
  <2>2. SoundNow => SoundNow'
    BY <1>1 DEF vars, SoundNow
  <2> QED
    BY <2>1, <2>2
<1>2. CASE Next
  BY <1>2, UploadServed, DownloadServed, CrcServed, RemoveServed, MkdirServed,
     RmdirServed, SyncServed, ListServed, RenameServed DEF Next
<1> QED
  BY <1>1, <1>2

(* In every behaviour of the file requests, whatever transfers fail and    *)
(* wherever the power is lost, every sector of the card holds what belongs *)
(* there and the two flags say that FatFs holds a volume; and until the    *)
(* first error or power loss that volume has equal copies of the FAT and   *)
(* the right count of free clusters at the start of every request.         *)
THEOREM TransferAlways ==
  Spec => []TransferInv
<1>1. Init => TransferInv
  BY TransferInit
<1>2. TransferInv /\ [Next]_vars => TransferInv'
  BY TransferNext
<1> QED
  BY <1>1, <1>2, PTL DEF Spec

(* Every FAT entry and every first cluster on the card is a cluster number *)
(* of the volume, or an end of chain; the window holds a sector of it, and *)
(* a dirty window a sector that can be written; and the handlers' flag,    *)
(* the backend's and the FATFS object agree on whether a volume is there.  *)
THEOREM TypeCorrect ==
  Spec => []TypeOK
<1>1. TransferInv => TypeOK
  <2> SUFFICES ASSUME TransferInv PROVE TypeOK
    OBVIOUS
  <2>1. disk \in Cards /\ m_fatfs \in Volumes /\ m_mounted = (m_fatfs.type # 0)
    <3> DEFINE v == Call(disk, m_fatfs, 0, -1)
               q == Quiet
    <3>1. disk \in Cards /\ m_mounted \in BOOLEAN
      BY DEF TransferInv, CardInv, FlagsInv
    <3>2. CASE m_mounted
      <4>1. v \in Good(q) /\ v.fs = m_fatfs
        BY <3>2 DEF TransferInv, MountInv, Call
      <4> HIDE DEF v, q
      <4>2. m_fatfs \in Volumes /\ m_fatfs.type # 0
        BY <4>1 DEF Good, Steady, CallSet
      <4> QED
        BY <3>1, <3>2, <4>2
    <3>3. CASE ~m_mounted
      BY <3>1, <3>3 DEF TransferInv, MountInv
    <3> QED
      BY <3>1, <3>2, <3>3
  <2>2. DOMAIN disk = Sectors /\ g_sgcReady = m_mounted
    BY <2>1 DEF Cards, TransferInv, FlagsInv
  <2>3. ASSUME NEW s \in Sectors, disk[s].k = "dir"
        PROVE  \A i \in DOMAIN disk[s].e : disk[s].e[i].cl \in 0 .. NFatEnt - 1
    <3>1. disk[s] \in SectorSet
      BY <2>1 DEF Cards
    <3>2. disk[s] \in [k : {"dir"}, e : [0 .. DirEntriesPerSector - 1 -> EntrySet]]
      BY <2>3, <3>1 DEF SectorSet, TableSet, FatSet, InfoSet, BootSet, Boot
    <3> QED
      BY <3>2 DEF EntrySet, ClusterNos
  <2>4. ASSUME NEW s \in Sectors, disk[s].k = "fat"
        PROVE  \A i \in DOMAIN disk[s].e : disk[s].e[i] \in 0 .. NFatEnt - 1 \union {EOC}
    <3>1. disk[s] \in SectorSet
      BY <2>1 DEF Cards
    <3>2. disk[s] \in FatSet
      BY <2>4, <3>1 DEF SectorSet, TableSet, FatSet, InfoSet, BootSet, Boot
    <3>3. FatValues \subseteq 0 .. NFatEnt - 1 \union {EOC}
      BY LayoutIs DEF FatValues, RealClusters
    <3> QED
      BY <3>2, <3>3 DEF FatSet
  <2>5. /\ m_fatfs.winsect \in Sectors \union {NOSECT}
        /\ m_fatfs.wflag => m_fatfs.winsect \in Sectors
    BY <2>1 DEF Volumes, FsSet, WindowHolds, WinSects
  <2> QED
    BY <2>1, <2>2, <2>3, <2>4, <2>5 DEF TypeOK
<1> QED
  BY <1>1, TransferAlways, PTL

(* No cluster of the card belongs to two files or directories, and no      *)
(* entry claims more bytes than its chain of clusters has, on the card and *)
(* with what waits in the window, between any two requests: whatever the   *)
(* host asks for and in whatever order, whichever transfers fail, wherever *)
(* the power is lost; until a rename meets a disk error or a power loss.   *)
THEOREM TransferSound ==
  Spec => []Sound
<1>1. Init => TransferInv /\ SoundNow
  BY TransferInit, SoundInit
<1>2. (TransferInv /\ SoundNow) /\ [Next]_vars => (TransferInv /\ SoundNow)'
  BY TransferNext
<1>3. TransferInv /\ SoundNow => Sound
  BY SoundNowIs
<1> QED
  BY <1>1, <1>2, <1>3, PTL DEF Spec
=============================================================================

------------------------------- MODULE FatFs -------------------------------
(***************************************************************************)
(* The FAT file system module src/INC/fatfs/ff.c, as the functions this    *)
(* repository calls: f_mount, f_open, f_read, f_write, f_lseek, f_truncate,*)
(* f_sync, f_close, f_stat, f_unlink, f_mkdir, f_rename, f_chdir, f_getcwd,*)
(* f_opendir, f_readdir and f_closedir, and every static function they     *)
(* rest on, in the configuration of ffconf.h: one volume, FF_FS_TINY (one  *)
(* sector window shared by the FAT, the directories and the file data), no *)
(* LFN, no exFAT, no lock, no fast seek table.                             *)
(*                                                                         *)
(* The module declares no variable.  A C function becomes an operator from *)
(* a call record v to the call record after it:                            *)
(*   disk   the card: sector number -> contents                            *)
(*   fs     the FATFS object, with the window win/winsect/wflag            *)
(*   fp, dp the FIL and the DIR the function works on                      *)
(*   res    the FRESULT;  ret  a returned cluster number;  buf  bytes read *)
(*   cnt    *br or *bw                                                     *)
(*   n      the sector transfers of the call so far: those numbered from   *)
(*          "from" to "to" fail (a transient error, or a card that is gone)*)
(*   media  the contents the card had after each write of the call: what   *)
(*          a power loss in the middle of it can leave                     *)
(* so that a client module makes one action of each call, with the errors  *)
(* and the power losses it chooses.                                        *)
(*                                                                         *)
(* Bytes, names and sectors are abstract: a data sector is a sequence of   *)
(* SectorBytes symbols, a directory sector a function to entries, a FAT    *)
(* sector a function to cluster numbers.  Offsets in a directory are       *)
(* counted in entries.  Times, the volume label and the FAT32 reserved     *)
(* bits are left out.  A DIR keeps its sector when dir_next fails (ff.c    *)
(* has advanced it at 1775): no caller goes on with a DIR after an error.  *)
(***************************************************************************)
EXTENDS Integers, Sequences

CONSTANTS
    FatType,              \* fs_type: 2 is FAT16, 3 is FAT32
    Clusters,             \* data clusters of the volume
    ClusterSectors,       \* csize
    SectorBytes,          \* 512 on the card
    DirEntriesPerSector,  \* 16 on the card
    FatEntriesPerSector,  \* 256 or 128 on the card
    FatCopies,            \* n_fats
    RootEntries,          \* n_rootdir, 0 on FAT32
    MAX_DIR,              \* entries of a table at most, 65536 in the code
    MaxFileSize           \* 0xFFFFFFFF: sizes and offsets are DWORDs

ASSUME GeometryAssumption ==
    /\ FatType \in {2, 3}
    /\ Clusters \in Nat \ {0} /\ ClusterSectors \in Nat \ {0}
    /\ SectorBytes \in Nat \ {0}
    /\ DirEntriesPerSector \in Nat \ {0, 1}   \* "." and ".." share a sector
    /\ FatEntriesPerSector \in Nat \ {0}
    /\ FatCopies \in {1, 2}
    /\ RootEntries \in Nat /\ RootEntries % DirEntriesPerSector = 0
    /\ (RootEntries = 0) = (FatType = 3)
    /\ MAX_DIR \in Nat \ {0, 1} /\ MaxFileSize \in Nat

-----------------------------------------------------------------------------
(* The volume's layout, as mount_volume computes it from the boot sector.  *)
NFatEnt    == Clusters + 2
FatSize    == (NFatEnt + FatEntriesPerSector - 1) \div FatEntriesPerSector
FsInfoSect == 1
FatBase    == IF FatType = 3 THEN 2 ELSE 1
RootSect   == FatBase + FatCopies * FatSize            \* dirbase, FAT16
RootClust  == 2                                        \* dirbase, FAT32
DataBase   == RootSect + RootEntries \div DirEntriesPerSector
Sectors    == 0 .. DataBase + Clusters * ClusterSectors - 1
ClusterBytes == SectorBytes * ClusterSectors

EOC      == NFatEnt + 1  \* an end-of-chain mark, above every cluster number
DISKERR  == NFatEnt + 2  \* 0xFFFFFFFF
NOCOUNT  == NFatEnt + 2  \* 0xFFFFFFFF in free_clst and last_clst
NOSECT   == -1           \* (LBA_t)0 - 1: the window holds no sector
JUNK     == "?"          \* a byte nobody wrote as data

(* A directory entry: name, directory, read-only, first cluster, size.     *)
Entry(nm, d, r, c, s) == [nm |-> nm, dir |-> d, ro |-> r, cl |-> c, sz |-> s]
FreeEntry == Entry("", FALSE, FALSE, 0, 0)
Deleted   == "del"                                     \* DDEM, 0xE5
JunkEntry == Entry(JUNK, FALSE, FALSE, 0, 0)

Boot           == [k |-> "boot"]
FsInfo(fr, la) == [k |-> "fsinfo", free |-> fr, last |-> la]
FatSector(e)   == [k |-> "fat", e |-> e]
DirSector(e)   == [k |-> "dir", e |-> e]
Data(d)        == [k |-> "data", d |-> d]
ZeroSector     == DirSector([i \in 0..DirEntriesPerSector-1 |-> FreeEntry])
BlankData      == Data([i \in 1..SectorBytes |-> JUNK])

(* What a sector's bytes are when they are taken for file data, or for     *)
(* directory entries, whatever was put there.                              *)
BytesOf(c)   == IF c.k = "data" THEN c.d ELSE BlankData.d
EntriesOf(c) == IF c.k = "dir" THEN c.e
                ELSE [i \in 0..DirEntriesPerSector-1 |-> JunkEntry]

Least(a, b) == IF a < b THEN a ELSE b

-----------------------------------------------------------------------------
(* Calls, results and the disk.                                            *)
NoFil == [open |-> FALSE, id |-> 0, sclust |-> 0, size |-> 0, r |-> FALSE,
          w |-> FALSE, mod |-> FALSE, err |-> "OK", fptr |-> 0, clust |-> 0,
          sect |-> 0, dsect |-> 0, dptr |-> 0]
NoDir == [open |-> FALSE, id |-> 0, sclust |-> 0, dptr |-> 0, clust |-> 0,
          sect |-> 0, fn |-> "", last |-> FALSE, dot |-> FALSE,
          origin |-> FALSE, dir |-> FALSE, ro |-> FALSE]
NoFs  == [reg |-> FALSE, type |-> 0, id |-> 0, win |-> ZeroSector,
          winsect |-> 0, wflag |-> FALSE, last |-> 0, free |-> 0, fsi |-> 0,
          cdir |-> 0]

(* A call on the card's contents d with the FATFS object f; the transfers  *)
(* from number a to number b fail.                                         *)
Call(d, f, a, b) ==
    [disk |-> d, fs |-> f, fp |-> NoFil, dp |-> NoDir, res |-> "OK",
     ret |-> 0, buf |-> <<>>, cnt |-> 0, n |-> 0, from |-> a, to |-> b,
     media |-> {}]

Res(v, r)  == [v EXCEPT !.res = r]
OK(v)      == Res(v, "OK")
Ret(v, c)  == [v EXCEPT !.ret = c, !.res = "OK"]

(* A value under a name: With(e, LAMBDA x : f) is LET x == e IN f, whose   *)
(* uses of x TLC's coverage statistics do not expand.                      *)
With(e, F(_)) == F(e)

(* The next step of a function that returns at the first error.            *)
Then(v, Next(_)) == IF v.res = "OK" THEN Next(v) ELSE v

(* A loop of the code: in round k, Step(u, k), as long as the result of    *)
(* the round before is GO.  After n rounds the result GO becomes "end": OK *)
(* for a loop that counts its rounds, ENDLESS for one that has no bound in *)
(* the code and meets n only on a volume whose chains lead in a circle.    *)
GO == "GO"
Again(v) == Res(v, GO)
Rounds(v, Step(_, _), n, end) ==
    LET at[k \in 0..n] ==
          IF k = 0 THEN Again(v)
          ELSE With(at[k - 1], LAMBDA u : IF u.res = GO THEN Step(u, k) ELSE u)
    IN  With(at[n], LAMBDA w : IF w.res = GO THEN Res(w, end) ELSE w)

Fails(v) == v.from <= v.n /\ v.n <= v.to

(* disk_read and disk_write of one sector.                                 *)
DiskRead(v, s) == [v EXCEPT !.n = @ + 1,
                            !.res = IF Fails(v) THEN "DISK_ERR" ELSE "OK"]
DiskWrite(v, s, c) ==
    IF Fails(v) THEN [v EXCEPT !.n = @ + 1, !.res = "DISK_ERR"]
    ELSE LET d == [v.disk EXCEPT ![s] = c]
         IN  [v EXCEPT !.n = @ + 1, !.res = "OK", !.disk = d,
                       !.media = @ \union {d}]

(* The contents c[1] .. c[k] written to the sectors from s on.             *)
WriteSectors(v, s, c, k) ==
    Rounds(v, LAMBDA u, i : Then(DiskWrite(u, s + i - 1, c[i]), Again), k, "OK")

-----------------------------------------------------------------------------
(* The window.                                                             *)
InFat1ButFirst(s) == s > FatBase /\ s < FatBase + FatSize     \* a mutant
InFat1(s) == s >= FatBase /\ s < FatBase + FatSize

sync_window(v) ==
    IF ~v.fs.wflag THEN OK(v)
    ELSE Then(DiskWrite(v, v.fs.winsect, v.fs.win),
              LAMBDA w :
                LET c == [w EXCEPT !.fs.wflag = FALSE]
                IN  IF InFat1(c.fs.winsect) /\ FatCopies = 2
                    THEN OK(DiskWrite(c, c.fs.winsect + FatSize, c.fs.win))
                    ELSE c)

move_window(v, s) ==
    IF s = v.fs.winsect THEN OK(v)
    ELSE Then(sync_window(v),
              LAMBDA w : With(DiskRead(w, s), LAMBDA r :
                IF r.res = "OK"
                THEN [r EXCEPT !.fs.win = r.disk[s], !.fs.winsect = s]
                ELSE [r EXCEPT !.fs.winsect = NOSECT]))

(* A change of the window's contents, written to the card later.           *)
SetWin(v, c) == [v EXCEPT !.fs.win = c, !.fs.wflag = TRUE]

SetDirty(flag) == IF flag % 2 = 0 THEN flag + 1 ELSE flag    \* fsi_flag |= 1

sync_fs(v) ==
    Then(sync_window(v),
         LAMBDA w :
           IF FatType = 3 /\ w.fs.fsi = 1
           THEN LET i == [w EXCEPT !.fs.win = FsInfo(w.fs.free, w.fs.last),
                                   !.fs.winsect = FsInfoSect]
                IN  OK([DiskWrite(i, FsInfoSect, i.fs.win)
                            EXCEPT !.fs.fsi = 0])
           ELSE w)

-----------------------------------------------------------------------------
(* The FAT.                                                                *)
clst2sect(c) == IF c < 2 \/ c >= NFatEnt THEN 0
                ELSE DataBase + ClusterSectors * (c - 2)

get_fat(v, c) ==
    IF c < 2 \/ c >= NFatEnt THEN Ret(v, 1)
    ELSE With(move_window(v, FatBase + c \div FatEntriesPerSector),
              LAMBDA w : Ret(w, IF w.res = "OK"
                                THEN w.fs.win.e[c % FatEntriesPerSector]
                                ELSE DISKERR))

put_fat(v, c, x) ==
    IF c < 2 \/ c >= NFatEnt THEN Res(v, "INT_ERR")
    ELSE Then(move_window(v, FatBase + c \div FatEntriesPerSector),
              LAMBDA w : SetWin(w, [w.fs.win EXCEPT
                                      !.e[c % FatEntriesPerSector] = x]))

CountFreedNever(v) == v                                       \* a mutant
CountFreed(v) ==
    IF v.fs.free < NFatEnt - 2
    THEN [v EXCEPT !.fs.free = @ + 1, !.fs.fsi = SetDirty(@)] ELSE v

(* Free the cluster v.ret, and go on with the one that followed it.        *)
FreeOne(v) ==
    With(get_fat(v, v.ret), LAMBDA g :
      IF g.ret = 0 THEN g
      ELSE IF g.ret = 1 THEN Res(g, "INT_ERR")
      ELSE IF g.ret = DISKERR THEN Res(g, "DISK_ERR")
      ELSE Then(put_fat(g, v.ret, 0),
                LAMBDA w : IF w.ret < NFatEnt THEN Again(CountFreed(w))
                           ELSE CountFreed(w)))

FreeFrom(v, c) ==
    Rounds(Ret(v, c), LAMBDA u, k : FreeOne(u), NFatEnt, "ENDLESS")

remove_chain(v, c, prev) ==
    IF c < 2 \/ c >= NFatEnt THEN Res(v, "INT_ERR")
    ELSE Then(IF prev # 0 THEN put_fat(v, prev, EOC) ELSE OK(v),
              LAMBDA w : FreeFrom(w, c))

(* The search of create_chain for a free cluster: the ones after scl, then *)
(* those from cluster 2 on, round to scl.                                  *)
TryCluster(v, c) ==
    With(get_fat(v, c), LAMBDA g :
      IF g.ret = 0 THEN Ret(g, c)
      ELSE IF g.ret \in {1, DISKERR} THEN g ELSE Again(Ret(g, 0)))

FindFree(v, scl) ==
    Rounds(Ret(v, 0),
           LAMBDA u, k : TryCluster(u, IF scl + k < NFatEnt THEN scl + k
                                       ELSE scl + k - NFatEnt + 2),
           Clusters, "OK")

(* Mark cluster v.ret the end of a chain and link it behind c.             *)
LinkNew(v, c) ==
    With(Then(put_fat(v, v.ret, EOC),
              LAMBDA u : IF c # 0 THEN put_fat(u, c, v.ret) ELSE u),
         LAMBDA w :
           IF w.res # "OK"
           THEN Ret(w, IF w.res = "DISK_ERR" THEN DISKERR ELSE 1)
           ELSE Ret([w EXCEPT !.fs.last = v.ret, !.fs.fsi = SetDirty(@),
                        !.fs.free = IF @ <= NFatEnt - 2 THEN @ - 1 ELSE @],
                    v.ret))

(* The first free cluster after scl, linked behind c.                      *)
FindAndLink(v, scl, c) ==
    With(FindFree(v, scl),
         LAMBDA f : IF f.ret \in {0, 1, DISKERR} THEN f ELSE LinkNew(f, c))

(* To stretch a chain, the cluster beside its last one c is tried first.   *)
StretchChain(v, c) ==
    LET last   == v.fs.last
        beside == IF c + 1 >= NFatEnt THEN 2 ELSE c + 1
    IN  With(get_fat(v, beside), LAMBDA g :
          IF g.ret \in {1, DISKERR} THEN g
          ELSE IF g.ret = 0 THEN LinkNew(Ret(g, beside), c)
          ELSE FindAndLink(g, IF last >= 2 /\ last < NFatEnt
                              THEN last ELSE c, c))

(* The result's ret: 0 no free cluster, 1 or DISKERR an error, else the    *)
(* cluster that follows c (a new chain if c = 0).                          *)
create_chain(v, c) ==
    LET last == v.fs.last
    IN  IF c = 0
        THEN IF v.fs.free = 0 THEN Ret(v, 0)
             ELSE FindAndLink(v, IF last = 0 \/ last >= NFatEnt
                                 THEN 1 ELSE last, 0)
        ELSE With(get_fat(v, c), LAMBDA g :
               IF g.ret < 2 THEN Ret(g, 1)
               ELSE IF g.ret = DISKERR \/ g.ret < NFatEnt THEN g
               ELSE IF g.fs.free = 0 THEN Ret(g, 0)
               ELSE StretchChain(g, c))

(* The error of a cluster number that create_chain or get_fat returned.    *)
ClusterError(c) == IF c = DISKERR THEN "DISK_ERR" ELSE "INT_ERR"

-----------------------------------------------------------------------------
(* Directories.  v.dp is the DIR object.                                   *)
dir_clear(v, c) ==
    LET top == clst2sect(c)
    IN  Then(sync_window(v),
             LAMBDA w : WriteSectors([w EXCEPT !.fs.winsect = top,
                                               !.fs.win = ZeroSector],
                            top, [i \in 1..ClusterSectors |-> ZeroSector],
                            ClusterSectors))

(* The cluster after v.ret in a table's chain.                             *)
TableHop(v) ==
    With(get_fat(v, v.ret), LAMBDA g :
      IF g.ret = DISKERR THEN Res(g, "DISK_ERR")
      ELSE IF g.ret < 2 \/ g.ret >= NFatEnt THEN Res(g, "INT_ERR")
      ELSE Again(g))

(* The DIR at entry ofs of the table, whose cluster is v.ret.              *)
AtEntry(v, ofs) ==
    LET top  == clst2sect(v.ret)
        sect == (ofs \div DirEntriesPerSector) % ClusterSectors
    IN  Res([v EXCEPT !.dp.clust = v.ret,
                      !.dp.sect = IF top = 0 THEN 0 ELSE top + sect],
            IF top = 0 THEN "INT_ERR" ELSE "OK")

FollowTable(v, c, ofs) ==
    Then(Rounds(Ret(v, c), LAMBDA u, k : TableHop(u),
                ofs \div (DirEntriesPerSector * ClusterSectors), "OK"),
         LAMBDA w : AtEntry(w, ofs))

dir_sdi(v, ofs) ==
    LET u == [v EXCEPT !.dp.dptr = ofs]
        top == IF v.dp.sclust = 0 /\ FatType = 3 THEN RootClust
               ELSE v.dp.sclust
    IN  IF ofs >= MAX_DIR THEN Res(v, "INT_ERR")
        ELSE IF top # 0 THEN FollowTable(u, top, ofs)
        ELSE IF ofs >= RootEntries THEN Res(u, "INT_ERR")
        ELSE OK([u EXCEPT !.dp.clust = 0, 
                          !.dp.sect = RootSect + ofs \div DirEntriesPerSector])

EndOfTable(v) == Res([v EXCEPT !.dp.sect = 0], "NO_FILE")

(* The next cluster of the table, in v.ret, is where the DIR goes on.      *)
NextCluster(v) == OK([v EXCEPT !.dp.dptr = @ + 1, !.dp.clust = v.ret,
                               !.dp.sect = clst2sect(v.ret)])

StretchTable(v) ==
    With(create_chain(v, v.dp.clust), LAMBDA a :
      IF a.ret = 0 THEN Res(a, "DENIED")
      ELSE IF a.ret \in {1, DISKERR} THEN Res(a, ClusterError(a.ret))
      ELSE Then(dir_clear(a, a.ret), NextCluster))

dir_next(v, stretch) ==
    LET ofs == v.dp.dptr + 1
    IN  IF v.dp.sect = 0 \/ ofs >= MAX_DIR THEN EndOfTable(v)
        ELSE IF ofs % DirEntriesPerSector # 0
        THEN OK([v EXCEPT !.dp.dptr = ofs])
        ELSE IF v.dp.clust = 0 /\ ofs >= RootEntries THEN EndOfTable(v)
        ELSE IF \/ v.dp.clust = 0
                \/ (ofs \div DirEntriesPerSector) % ClusterSectors # 0
        THEN OK([v EXCEPT !.dp.dptr = ofs, !.dp.sect = @ + 1])
        ELSE With(get_fat(v, v.dp.clust), LAMBDA g :
               IF g.ret \in {0, 1, DISKERR} THEN Res(g, ClusterError(g.ret))
               ELSE IF g.ret < NFatEnt THEN NextCluster(g)
               ELSE IF stretch THEN StretchTable(g) ELSE EndOfTable(g))

(* dp->dir: the entry of the window that dp points at, and a change of it. *)
Slot(v)       == v.dp.dptr % DirEntriesPerSector
dir(v)        == EntriesOf(v.fs.win)[Slot(v)]
SetDir(v, e)  == SetWin(v, DirSector([EntriesOf(v.fs.win)
                                        EXCEPT ![Slot(v)] = e]))

(* Without long names an object takes one entry: the first that is free.   *)
(* dir_next ends every walk along a table after MAX_DIR entries.           *)
TryFree(v) ==
    Then(move_window(v, v.dp.sect),
         LAMBDA w : IF dir(w).nm \in {"", Deleted} THEN w
                    ELSE Then(dir_next(w, TRUE), Again))
FirstFree(v) == Rounds(v, LAMBDA u, k : TryFree(u), MAX_DIR, "ENDLESS")

dir_alloc(v) == With(Then(dir_sdi(v, 0), FirstFree), LAMBDA w :
                     IF w.res = "NO_FILE" THEN Res(w, "DENIED") ELSE w)

TryValid(v) ==
    IF v.dp.sect = 0 THEN Res(v, "NO_FILE")
    ELSE Then(move_window(v, v.dp.sect),
              LAMBDA w : IF dir(w).nm = "" THEN Res(w, "NO_FILE")
                         ELSE IF dir(w).nm \notin {Deleted, ".", ".."} THEN w
                         ELSE Then(dir_next(w, FALSE), Again))
NextValid(v) == Rounds(v, LAMBDA u, k : TryValid(u), MAX_DIR, "ENDLESS")

dir_read(v) == With(NextValid(v), LAMBDA w :
                    IF w.res = "OK" THEN w ELSE [w EXCEPT !.dp.sect = 0])

TryFind(v) ==
    Then(move_window(v, v.dp.sect),
         LAMBDA w : IF dir(w).nm = "" THEN Res(w, "NO_FILE")
                    ELSE With([w EXCEPT !.dp.dir = dir(w).dir,
                                        !.dp.ro = dir(w).ro], LAMBDA u :
                           IF dir(u).nm = u.dp.fn THEN u
                           ELSE Then(dir_next(u, FALSE), Again)))
FindFrom(v) == Rounds(v, LAMBDA u, k : TryFind(u), MAX_DIR, "ENDLESS")

dir_find(v) == Then(dir_sdi(v, 0), FindFrom)

dir_register(v) ==
    Then(dir_alloc(v),
         LAMBDA w : Then(move_window(w, w.dp.sect),
             LAMBDA u : SetDir(u, Entry(u.dp.fn, FALSE, FALSE, 0, 0))))

dir_remove(v) ==
    Then(move_window(v, v.dp.sect),
         LAMBDA w : SetDir(w, [dir(w) EXCEPT !.nm = Deleted]))

-----------------------------------------------------------------------------
(* Paths: [abs |-> begins with '/', seg |-> the names].  A name is a valid *)
(* 8.3 name, "." or "..", or a member of BadNames, which create_name       *)
(* refuses.                                                                *)
BadNames == {"?*", "toolongname"}

create_name(v, nm, last) ==
    IF nm \in BadNames THEN Res(v, "INVALID_NAME")
    ELSE OK([v EXCEPT !.dp.fn = nm, !.dp.dot = nm \in {".", ".."},
                      !.dp.last = last, !.dp.origin = FALSE])

FollowName(v, nm, last) ==
    With(Then(create_name(v, nm, last), dir_find), LAMBDA f :
      IF f.res = "NO_FILE" /\ f.dp.dot
      THEN IF f.dp.last THEN OK([f EXCEPT !.dp.origin = TRUE]) ELSE Again(f)
      ELSE IF f.res = "NO_FILE" /\ ~f.dp.last THEN Res(f, "NO_PATH")
      ELSE IF f.res # "OK" \/ f.dp.last THEN f
      ELSE IF ~f.dp.dir THEN Res(f, "NO_PATH")
      ELSE Again([f EXCEPT !.dp.sclust = dir(f).cl]))
Follow(v, path) ==
    Rounds(v, LAMBDA u, k : FollowName(u, path[k], k = Len(path)), Len(path),
           "ENDLESS")

follow_path(v, path) ==
    LET u == [v EXCEPT !.dp = NoDir,
                !.dp.sclust = IF path.abs THEN 0 ELSE v.fs.cdir]
    IN  IF path.seg = <<>> THEN dir_sdi([u EXCEPT !.dp.origin = TRUE], 0)
        ELSE Follow(u, path.seg)

-----------------------------------------------------------------------------
(* Mounting.                                                               *)

(* Find the volume's boot sector, and load the FSInfo of a FAT32 volume.   *)
LoadFsInfo(v) ==
    With([v EXCEPT !.fs.last = NOCOUNT, !.fs.free = NOCOUNT, !.fs.fsi = 128],
         LAMBDA u :
           IF FatType # 3 THEN u
           ELSE With(move_window(u, FsInfoSect), LAMBDA i :
                  IF i.res # "OK" THEN i
                  ELSE IF i.fs.win.k # "fsinfo" THEN [i EXCEPT !.fs.fsi = 0]
                  ELSE [i EXCEPT !.fs.fsi = 0, !.fs.free = i.fs.win.free,
                                 !.fs.last = i.fs.win.last]))

LoadVolume(v) ==
    With(move_window([v EXCEPT !.fs.wflag = FALSE, !.fs.winsect = NOSECT], 0),
         LAMBDA b :
           IF b.res # "OK" THEN b
           ELSE IF b.fs.win # Boot THEN Res(b, "NO_FILESYSTEM")
           ELSE OK([LoadFsInfo(b) EXCEPT !.fs.type = FatType, !.fs.id = @ + 1,
                                         !.fs.cdir = 0]))

(* disk_status is always 0 (diskio.c), so a volume that was mounted once   *)
(* stays mounted.                                                          *)
mount_volume(v) ==
    LET i == [v EXCEPT !.fs.type = 0, !.n = @ + 1]     \* disk_initialize
    IN  IF ~v.fs.reg THEN Res(v, "NOT_ENABLED")
        ELSE IF v.fs.type # 0 THEN OK(v)
        ELSE IF Fails(v) THEN Res(i, "NOT_READY")
        ELSE LoadVolume(i)

f_mountLater(v) == OK([v EXCEPT !.fs.type = 0, !.fs.reg = TRUE])   \* a mutant
f_mount(v) == mount_volume([v EXCEPT !.fs.type = 0, !.fs.reg = TRUE])

validate(v, o) == IF o.open /\ v.fs.type # 0 /\ o.id = v.fs.id THEN OK(v)
                  ELSE Res(v, "INVALID_OBJECT")

-----------------------------------------------------------------------------
(* Files.  A mode is a set of FA_ flags:                                   *)
(*   "R" read, "W" write, "NEW" create new, "ALWAYS" create always,        *)
(*   "OPEN" open always, "END" seek to the end (FA_OPEN_APPEND: both)      *)
Creates(mode) == mode \cap {"NEW", "ALWAYS", "OPEN"} # {}

(* Reset the entry of an object that is created or overwritten.            *)
ResetEntry(v) ==
    LET cl == dir(v).cl
    IN  With([SetDir(v, Entry(dir(v).nm, FALSE, FALSE, 0, 0))
                  EXCEPT !.fp.mod = TRUE], LAMBDA e :
          IF cl = 0 THEN e
          ELSE Then(remove_chain(e, cl, 0),
                    LAMBDA u : [move_window(u, e.fs.winsect)
                                    EXCEPT !.fs.last = cl - 1]))

(* The cluster of the file's last byte, for FA_OPEN_APPEND.                *)
FileHop(v) ==
    With(get_fat(v, v.ret), LAMBDA g :
      IF g.ret \in {0, 1, DISKERR} THEN Res(g, ClusterError(g.ret))
      ELSE Again(g))
FollowFile(v, c, ofs) ==
    Then(Rounds(Ret(v, c), LAMBDA u, k : FileHop(u),
                (ofs - 1) \div ClusterBytes, "OK"),
         LAMBDA w : [w EXCEPT !.fp.clust = w.ret])

SeekEnd(v) ==
    LET size == v.fp.size
        rest == size - ClusterBytes * ((size - 1) \div ClusterBytes)
    IN  With(FollowFile([v EXCEPT !.fp.fptr = size], v.fp.sclust, size),
             LAMBDA w :
               IF w.res # "OK" \/ rest % SectorBytes = 0 THEN w
               ELSE IF clst2sect(w.fp.clust) = 0 THEN Res(w, "INT_ERR")
               ELSE [w EXCEPT !.fp.sect = clst2sect(w.fp.clust)
                                              + rest \div SectorBytes])

(* The directory entry of the file to open, made or reset if need be.      *)
EntryToOpen(v, path, mode) ==
    With(Then(mount_volume(v), LAMBDA u : follow_path(u, path)), LAMBDA f :
      IF f.res = "OK" /\ f.dp.origin THEN Res(f, "INVALID_NAME")
      ELSE IF Creates(mode)
      THEN IF f.res = "NO_FILE" THEN Then(dir_register(f), ResetEntry)
           ELSE IF f.res # "OK" THEN f
           ELSE IF f.dp.dir \/ f.dp.ro THEN Res(f, "DENIED")
           ELSE IF "NEW" \in mode THEN Res(f, "EXIST")
           ELSE IF "ALWAYS" \in mode THEN ResetEntry(f) ELSE f
      ELSE IF f.res # "OK" THEN f
      ELSE IF f.dp.dir THEN Res(f, "NO_FILE")
      ELSE IF "W" \in mode /\ f.dp.ro THEN Res(f, "DENIED")
      ELSE f)

FileFor(v, mode) ==
    [v EXCEPT !.fp = [NoFil EXCEPT
        !.open = TRUE, !.id = v.fs.id, !.mod = v.fp.mod,
        !.r = "R" \in mode, !.w = "W" \in mode,
        !.dsect = v.fs.winsect, !.dptr = Slot(v),
        !.sclust = dir(v).cl, !.size = dir(v).sz]]

f_open(v, path, mode) ==
    Then(EntryToOpen([v EXCEPT !.fp = NoFil], path, mode), LAMBDA e :
      With(FileFor(e, mode), LAMBDA o :
        IF "END" \notin mode \/ o.fp.size = 0 THEN o
        ELSE With(SeekEnd(o), LAMBDA w :
               IF w.res # "OK" THEN [w EXCEPT !.fp.open = FALSE] ELSE w)))

(* ABORT: the error stays with the file object.                            *)
Abort(v, e) == [v EXCEPT !.fp.err = e, !.res = e]

AtSector(v)  == v.fp.fptr % SectorBytes = 0
SectInClust(v) == (v.fp.fptr \div SectorBytes) % ClusterSectors

(* The bytes of len bytes at b that one step of the loops moves: whole     *)
(* sectors up to the end of the cluster, or a part of one sector.          *)
WholeSectors(v, len) ==
    IF AtSector(v)
    THEN Least(len \div SectorBytes, ClusterSectors - SectInClust(v)) ELSE 0
PartBytes(v, len) == Least(len, SectorBytes - (v.fp.fptr % SectorBytes))

(* Sectors s .. s + cc - 1 read past the window, whose dirty sector wins.  *)
ReadSector(v, s) ==
    Then(DiskRead(v, s),
         LAMBDA w : LET c == IF w.fs.wflag /\ w.fs.winsect = s
                             THEN w.fs.win ELSE w.disk[s]
                    IN  Again([w EXCEPT !.buf = @ \o BytesOf(c)]))
ReadSectors(v, s, cc) ==
    Rounds(v, LAMBDA u, i : ReadSector(u, s + i - 1), cc, "OK")

(* The cluster that f_read goes on in.                                     *)
ReadCluster(v) ==
    IF ~AtSector(v) \/ SectInClust(v) # 0 THEN OK(v)
    ELSE With(IF v.fp.fptr = 0 THEN Ret(v, v.fp.sclust)
              ELSE get_fat(v, v.fp.clust), LAMBDA c :
           IF c.ret \in {0, 1, DISKERR} THEN Abort(c, ClusterError(c.ret))
           ELSE OK([c EXCEPT !.fp.clust = c.ret]))

Advance(v, k) == [v EXCEPT !.fp.fptr = @ + k, !.cnt = @ + k]

ReadPart(v, k) ==
    LET ofs == v.fp.fptr % SectorBytes
    IN  With(move_window(v, v.fp.sect), LAMBDA m :
          IF m.res # "OK" THEN Abort(m, "DISK_ERR")
          ELSE Advance([m EXCEPT !.buf =
                          @ \o SubSeq(BytesOf(m.fs.win), ofs + 1, ofs + k)],
                       k))

ReadStep(v, len) ==
    LET sect == clst2sect(v.fp.clust) + SectInClust(v)
        cc   == WholeSectors(v, len)
    IN  IF AtSector(v) /\ clst2sect(v.fp.clust) = 0 THEN Abort(v, "INT_ERR")
        ELSE IF cc = 0
        THEN ReadPart(IF AtSector(v) THEN [v EXCEPT !.fp.sect = sect] ELSE v,
                      PartBytes(v, len))
        ELSE With(ReadSectors(v, sect, cc), LAMBDA d :
               IF d.res # "OK" THEN Abort([d EXCEPT !.buf = v.buf], "DISK_ERR")
               ELSE Advance(d, cc * SectorBytes))

(* The loop: v.cnt of the len bytes are read.                              *)
ReadRound(v, len) ==
    IF v.cnt = len THEN OK(v)
    ELSE Then(ReadCluster(v), LAMBDA w : Then(ReadStep(w, len - w.cnt), Again))
ReadLoop(v, len) ==
    Rounds(v, LAMBDA u, k : ReadRound(u, len), len + 1, "ENDLESS")

(* The checks that f_read, f_write and f_truncate begin with.              *)
Usable(v, allowed) ==
    Then(validate(v, v.fp),
         LAMBDA u : IF u.fp.err # "OK" THEN Res(u, u.fp.err)
                    ELSE IF ~allowed THEN Res(u, "DENIED") ELSE u)

f_read(v, len) ==
    Then(Usable([v EXCEPT !.buf = <<>>, !.cnt = 0], v.fp.r),
         LAMBDA u : ReadLoop(u, Least(len, u.fp.size - u.fp.fptr)))

(* The cluster that f_write goes on in: "FULL" if there is none.           *)
WriteCluster(v) ==
    IF ~AtSector(v) \/ SectInClust(v) # 0 THEN OK(v)
    ELSE With(IF v.fp.fptr # 0 THEN create_chain(v, v.fp.clust)
              ELSE IF v.fp.sclust = 0 THEN create_chain(v, 0)
              ELSE Ret(v, v.fp.sclust), LAMBDA c :
           IF c.ret = 0 THEN Res(c, "FULL")
           ELSE IF c.ret \in {1, DISKERR} THEN Abort(c, ClusterError(c.ret))
           ELSE OK([c EXCEPT !.fp.clust = c.ret,
                             !.fp.sclust = IF v.fp.sclust = 0 THEN c.ret
                                           ELSE v.fp.sclust]))

(* The window takes over what a direct write put in its sector.            *)
RefreshWin(v, s, cc) ==
    IF s <= v.fs.winsect /\ v.fs.winsect < s + cc
    THEN [v EXCEPT !.fs.win = v.disk[v.fs.winsect], !.fs.wflag = FALSE]
    ELSE v

GrowNever(v, k) == Advance(v, k)                              \* a mutant
Grow(v, k) == With(Advance(v, k), LAMBDA w :
                   [w EXCEPT !.fp.size = IF w.fp.fptr > w.fp.size
                                         THEN w.fp.fptr ELSE w.fp.size])

(* The sector s with the bytes in their place from ofs on.                 *)
Patched(s, ofs, bytes) ==
    Data([i \in 1..SectorBytes |-> IF i > ofs /\ i <= ofs + Len(bytes)
                                   THEN bytes[i - ofs] ELSE BytesOf(s)[i]])
WritePart(v, bytes) ==
    With(move_window(v, v.fp.sect), LAMBDA m :
      IF m.res # "OK" THEN Abort(m, "DISK_ERR")
      ELSE Grow(SetWin(m, Patched(m.fs.win, v.fp.fptr % SectorBytes, bytes)),
                Len(bytes)))

(* A mutant: the window changes its sector with its changes unwritten.     *)
GrowingEdgeUnsynced(v, sect) ==
    IF v.fp.fptr < v.fp.size THEN [v EXCEPT !.fp.sect = sect]
    ELSE [v EXCEPT !.fs.winsect = sect, !.fp.sect = sect]

(* Past the end of the file a sector is not read before it is filled.      *)
GrowingEdge(v, sect) ==
    IF v.fp.fptr < v.fp.size THEN [v EXCEPT !.fp.sect = sect]
    ELSE With(sync_window(v), LAMBDA w :
           IF w.res # "OK" THEN Abort(w, "DISK_ERR")
           ELSE [w EXCEPT !.fs.winsect = sect, !.fp.sect = sect])

(* The first cc sectors' worth of the bytes, past the window.              *)
SectorsOf(bytes, cc) ==
    [i \in 1..cc |-> Data(SubSeq(bytes, (i - 1) * SectorBytes + 1,
                                         i * SectorBytes))]
WriteWhole(v, sect, bytes, cc) ==
    With(WriteSectors(v, sect, SectorsOf(bytes, cc), cc), LAMBDA d :
      IF d.res # "OK" THEN Abort(d, "DISK_ERR")
      ELSE Grow(RefreshWin(d, sect, cc), cc * SectorBytes))

WriteStep(v, bytes) ==
    LET part == SubSeq(bytes, 1, PartBytes(v, Len(bytes)))
        sect == clst2sect(v.fp.clust) + SectInClust(v)
        cc   == WholeSectors(v, Len(bytes))
    IN  IF ~AtSector(v) THEN WritePart(v, part)
        ELSE With(IF v.fs.winsect = v.fp.sect THEN sync_window(v) ELSE v,
                  LAMBDA u :
               IF u.res # "OK" THEN Abort(u, "DISK_ERR")
               ELSE IF clst2sect(v.fp.clust) = 0 THEN Abort(u, "INT_ERR")
               ELSE IF cc = 0
               THEN Then(GrowingEdge(u, sect), LAMBDA w : WritePart(w, part))
               ELSE WriteWhole(u, sect, bytes, cc))

(* The loop: v.cnt of the bytes are written.                               *)
WriteRound(v, bytes) ==
    IF v.cnt = Len(bytes) THEN OK(v)
    ELSE Then(WriteCluster(v), LAMBDA w :
         Then(WriteStep(w, SubSeq(bytes, w.cnt + 1, Len(bytes))), Again))
WriteLoop(v, bytes) ==
    Rounds(v, LAMBDA u, k : WriteRound(u, bytes), Len(bytes) + 1, "ENDLESS")

(* As many of the bytes as keep the file's offset from wrapping.           *)
Unwrapped(v, bytes) ==
    IF v.fp.fptr + Len(bytes) > MaxFileSize
    THEN SubSeq(bytes, 1, MaxFileSize - v.fp.fptr) ELSE bytes

(* A full card ends the loop without an error: *bw tells.                  *)
f_write(v, bytes) ==
    Then(Usable([v EXCEPT !.cnt = 0], v.fp.w),
         LAMBDA u : With(WriteLoop(u, Unwrapped(u, bytes)), LAMBDA w :
                      IF w.res \in {"OK", "FULL"}
                      THEN OK([w EXCEPT !.fp.mod = TRUE]) ELSE w))

UpdateEntry(v) ==
    LET i == v.fp.dptr
        e == EntriesOf(v.fs.win)
    IN  SetWin(v, DirSector([e EXCEPT ![i] = [@ EXCEPT !.cl = v.fp.sclust,
                                                       !.sz = v.fp.size]]))

f_sync(v) ==
    Then(validate(v, v.fp),
         LAMBDA u : IF ~u.fp.mod THEN u
                    ELSE Then(move_window(u, u.fp.dsect),
                        LAMBDA w : [sync_fs(UpdateEntry(w))
                                        EXCEPT !.fp.mod = FALSE]))

f_close(v) ==
    Then(f_sync(v), LAMBDA w : Then(validate(w, w.fp),
                        LAMBDA u : [u EXCEPT !.fp.open = FALSE]))

-----------------------------------------------------------------------------
(* f_lseek: one cluster on along the chain; "FULL" if a file to be written *)
(* cannot be stretched.                                                    *)
SeekHop(v) ==
    With([v EXCEPT !.fp.fptr = @ + ClusterBytes], LAMBDA u :
    With(IF v.fp.w THEN create_chain(u, v.fp.clust)
         ELSE get_fat(u, v.fp.clust), LAMBDA c :
      IF c.ret = 0 /\ v.fp.w THEN Res(c, "FULL")
      ELSE IF c.ret \in {0, 1} \/ c.ret >= NFatEnt
      THEN Abort(c, ClusterError(c.ret))
      ELSE Again([c EXCEPT !.fp.clust = c.ret])))

(* The position ofs in the cluster v.fp.clust, whose sector is returned.   *)
SeekIn(v, ofs) ==
    LET top == clst2sect(v.fp.clust)
        u   == [v EXCEPT !.fp.fptr = @ + ofs]
    IN  IF ofs % SectorBytes = 0 THEN Ret(u, 0)
        ELSE IF top = 0 THEN Abort(u, "INT_ERR")
        ELSE Ret(u, top + ofs \div SectorBytes)

(* From the beginning of the cluster v.fp.clust; clipped on a full disk.   *)
SeekOn(v, ofs) ==
    LET hops == (ofs - 1) \div ClusterBytes
    IN  With(Rounds(v, LAMBDA u, k : SeekHop(u), hops, "OK"), LAMBDA w :
          IF w.res = "FULL" THEN Ret(w, 0)
          ELSE Then(w, LAMBDA u : SeekIn(u, ofs - hops * ClusterBytes)))

(* From the start of the chain, which is made if the file has none.        *)
SeekFromTop(v, ofs) ==
    With(IF v.fp.sclust = 0 THEN create_chain(v, 0) ELSE Ret(v, v.fp.sclust),
         LAMBDA c :
           IF c.ret \in {1, DISKERR} THEN Abort(c, ClusterError(c.ret))
           ELSE With([c EXCEPT !.fp.sclust = c.ret, !.fp.clust = c.ret],
                     LAMBDA new : IF c.ret = 0 THEN new ELSE SeekOn(new, ofs)))

SeekTo(v, ofs) ==
    LET last == v.fp.fptr - 1
        here == last - (last % ClusterBytes)
    IN  IF ofs = 0 THEN Ret([v EXCEPT !.fp.fptr = 0], 0)
        ELSE IF last >= 0
                /\ (ofs - 1) \div ClusterBytes >= last \div ClusterBytes
        THEN SeekOn([v EXCEPT !.fp.fptr = here], ofs - here)
        ELSE SeekFromTop([v EXCEPT !.fp.fptr = 0], ofs)

f_lseek(v, ofs) ==
    LET size == v.fp.size
    IN  Then(Usable(v, TRUE), LAMBDA u :
        Then(SeekTo(u, IF ofs > size /\ ~v.fp.w THEN size ELSE ofs), LAMBDA s :
        With(IF s.fp.fptr > size
             THEN [s EXCEPT !.fp.size = s.fp.fptr, !.fp.mod = TRUE] ELSE s,
             LAMBDA w :
               IF AtSector(s) THEN w ELSE [w EXCEPT !.fp.sect = s.ret])))

CutChain(v) ==
    IF v.fp.fptr = 0
    THEN [remove_chain(v, v.fp.sclust, 0) EXCEPT !.fp.sclust = 0]
    ELSE With(get_fat(v, v.fp.clust), LAMBDA g :
           IF g.ret \in {1, DISKERR} THEN Res(g, ClusterError(g.ret))
           ELSE IF g.ret < NFatEnt THEN remove_chain(g, g.ret, v.fp.clust)
           ELSE g)

f_truncate(v) ==
    Then(Usable(v, v.fp.w), LAMBDA u :
      IF u.fp.fptr >= u.fp.size THEN u
      ELSE With([CutChain(u) EXCEPT !.fp.size = u.fp.fptr, !.fp.mod = TRUE],
                LAMBDA w : IF w.res # "OK" THEN Abort(w, w.res) ELSE w))

-----------------------------------------------------------------------------
(* Names.                                                                  *)
Lookup(v, path) == Then(mount_volume(v), LAMBDA u : follow_path(u, path))

(* Is the directory whose first cluster is c empty?                        *)
TestEmpty(v, c) ==
    With(Then(dir_sdi([v EXCEPT !.dp = [NoDir EXCEPT !.sclust = c]], 0),
              dir_read),
         LAMBDA r : [r EXCEPT !.dp = v.dp,
                       !.res = IF @ = "OK" THEN "DENIED"
                               ELSE IF @ = "NO_FILE" THEN "OK" ELSE @])

(* Mutants: the chain is leaked; the changes stay in the window; the chain *)
(* is freed before the entry goes.                                         *)
RemoveObjectUnsynced(v, c) ==
    Then(dir_remove(v), LAMBDA x :
        IF c # 0 THEN remove_chain(x, c, 0) ELSE x)
RemoveObjectOnly(v, c) == Then(dir_remove(v), sync_fs)
RemoveObjectLast(v, c) ==
    Then(IF c # 0 THEN remove_chain(v, c, 0) ELSE v, LAMBDA x :
        Then(dir_remove(x), sync_fs))

(* Remove the entry first, then free the chain from cluster c.             *)
RemoveObject(v, c) ==
    Then(dir_remove(v), LAMBDA x :
        Then(IF c # 0 THEN remove_chain(x, c, 0) ELSE x, sync_fs))

f_unlink(v, path) ==
    Then(Lookup(v, path), LAMBDA f :
      LET c == dir(f).cl
      IN  IF f.dp.dot \/ f.dp.origin THEN Res(f, "INVALID_NAME")
          ELSE IF f.dp.ro \/ (f.dp.dir /\ c = f.fs.cdir)
          THEN Res(f, "DENIED")
          ELSE Then(IF f.dp.dir THEN TestEmpty(f, c) ELSE f,
                    LAMBDA w : RemoveObject(w, c)))

(* The table of a new directory: "." is itself, ".." is cluster parent.    *)
DotEntries(v, c, parent) ==
    SetWin(v, DirSector([EntriesOf(v.fs.win) EXCEPT
                           ![0] = Entry(".", TRUE, FALSE, c, 0),
                           ![1] = Entry("..", TRUE, FALSE, parent, 0)]))

(* The new directory's table in cluster v.ret and its entry.               *)
MakeTable(v) ==
    IF v.ret = 0 THEN Res(v, "DENIED")
    ELSE IF v.ret \in {1, DISKERR} THEN Res(v, ClusterError(v.ret))
    ELSE Then(dir_clear(v, v.ret),
              LAMBDA w : dir_register(DotEntries(w, v.ret, w.dp.sclust)))

f_mkdir(v, path) ==
    With(Lookup(v, path), LAMBDA f :
      IF f.res = "OK" THEN Res(f, "EXIST")
      ELSE IF f.res # "NO_FILE" THEN f
      ELSE IF f.dp.dot THEN Res(f, "INVALID_NAME")
      ELSE With(create_chain(f, 0), LAMBDA c :
           With(MakeTable(c), LAMBDA made :
             IF made.res = "OK"
             THEN sync_fs(SetDir(made, [dir(made) EXCEPT !.dir = TRUE,
                                                         !.cl = c.ret]))
             ELSE Res(remove_chain(made, c.ret, 0), made.res))))

(* A directory that moves to another one gets its ".." entry changed.      *)
UpdateDotDot(v, c) ==
    IF clst2sect(c) = 0 THEN Res(v, "INT_ERR")
    ELSE With(move_window(v, clst2sect(c)), LAMBDA m :
           IF m.res = "OK" /\ EntriesOf(m.fs.win)[1].nm = ".."
           THEN SetWin(m, DirSector([EntriesOf(m.fs.win) EXCEPT ![1] =
                                       [@ EXCEPT !.cl = v.dp.sclust]]))
           ELSE m)

(* The entry e under its new name in the table v.dp, then the old entry    *)
(* old removed.                                                            *)
MoveEntry(v, e, old) ==
    Then(dir_register(v), LAMBDA r :
      With(SetDir(r, [e EXCEPT !.nm = r.dp.fn]), LAMBDA n :
        Then(IF e.dir /\ old.sclust # n.dp.sclust
             THEN UpdateDotDot(n, e.cl) ELSE n, LAMBDA w :
          Then(dir_remove([w EXCEPT !.dp = old]), sync_fs))))

SameEntry(a, b) == a.sclust = b.sclust /\ a.dptr = b.dptr

f_rename(v, old, new) ==
    Then(Lookup(v, old), LAMBDA f :
      IF f.dp.dot \/ f.dp.origin THEN Res(f, "INVALID_NAME")
      ELSE With(follow_path(f, new), LAMBDA q :
             IF q.res = "NO_FILE" \/ (q.res = "OK" /\ SameEntry(q.dp, f.dp))
             THEN MoveEntry(OK(q), dir(f), f.dp)
             ELSE IF q.res = "OK" THEN Res(q, "EXIST") ELSE q))

NoPath(v) == IF v.res = "NO_FILE" THEN Res(v, "NO_PATH") ELSE v

f_chdir(v, path) ==
    NoPath(Then(Lookup(v, path), LAMBDA f :
        IF f.dp.origin THEN [f EXCEPT !.fs.cdir = f.dp.sclust]
        ELSE IF f.dp.dir THEN [f EXCEPT !.fs.cdir = dir(f).cl]
        ELSE Res(f, "NO_PATH")))

(* Find the entry of directory c in the table that v.dp is at.             *)
TryChild(v, c) == Then(dir_read(v), LAMBDA w :
                      IF dir(w).cl = c THEN w
                      ELSE Then(dir_next(w, FALSE), Again))
FindChild(v, c) ==
    Rounds(v, LAMBDA u, k : TryChild(u, c), MAX_DIR, "ENDLESS")

(* The parent's table, from the ".." entry of the directory v.dp.sclust.   *)
ParentTable(v) ==
    Then(dir_sdi(v, 1), LAMBDA w : Then(move_window(w, w.dp.sect), LAMBDA up :
        dir_sdi([up EXCEPT !.dp.sclust = dir(up).cl], 0)))

Climb(v, room) ==
    IF v.dp.sclust = 0 THEN OK(v)
    ELSE With(Then(ParentTable(v), LAMBDA w : FindChild(w, v.dp.sclust)),
              LAMBDA at :
           IF at.res = "NO_FILE" THEN Res(at, "INT_ERR")
           ELSE Then(at, LAMBDA w :
                  IF Len(w.buf) = room THEN Res(w, "NOT_ENOUGH_CORE")
                  ELSE Again([w EXCEPT !.buf = <<dir(w).nm>> \o @])))
ClimbToRoot(v, room) ==
    Rounds(v, LAMBDA u, k : Climb(u, room), NFatEnt, "ENDLESS")

(* v.buf becomes the names from the root to the current directory, for     *)
(* which the caller's buffer has room.                                     *)
f_getcwd(v, room) ==
    Then(mount_volume(v), LAMBDA w :
        ClimbToRoot([w EXCEPT !.dp = [NoDir EXCEPT !.sclust = w.fs.cdir],
                              !.buf = <<>>], room))

f_stat(v, path) ==
    Then(Lookup(v, path), LAMBDA f :
        IF f.dp.origin THEN Res(f, "INVALID_NAME")
        ELSE [f EXCEPT !.buf = <<dir(f)>>])

f_opendir(v, path) ==
    With(NoPath(Then(Lookup(v, path), LAMBDA f :
           IF ~f.dp.origin /\ ~f.dp.dir THEN Res(f, "NO_PATH")
           ELSE dir_sdi([f EXCEPT !.dp.id = f.fs.id,
                           !.dp.sclust = IF f.dp.origin THEN @
                                         ELSE dir(f).cl], 0))),
         LAMBDA d : [d EXCEPT !.dp.open = d.res = "OK"])

(* v.buf: the entry read, <<>> at the end of the directory.                *)
f_readdir(v) ==
    Then(validate(v, v.dp), LAMBDA u : With(dir_read(u), LAMBDA r :
      IF r.res = "NO_FILE" THEN OK([r EXCEPT !.buf = <<>>])
      ELSE IF r.res # "OK" THEN r
      ELSE With(dir_next([r EXCEPT !.buf = <<dir(r)>>], FALSE), LAMBDA n :
             IF n.res = "NO_FILE" THEN OK(n) ELSE n)))

f_closedir(v) == Then(validate(v, v.dp),
                      LAMBDA u : [u EXCEPT !.dp.open = FALSE])

-----------------------------------------------------------------------------
(* An empty volume, as a formatter outside this program leaves it.         *)
FreshFat == [c \in 0 .. FatSize * FatEntriesPerSector - 1 |->
               IF c < 2 \/ (FatType = 3 /\ c = RootClust) THEN EOC ELSE 0]
FreshVolume ==
    LET FatPart(i) == FatSector([j \in 0..FatEntriesPerSector-1 |->
                                    FreshFat[i * FatEntriesPerSector + j]])
        root == IF FatType = 3
                THEN clst2sect(RootClust) ..
                     clst2sect(RootClust) + ClusterSectors - 1
                ELSE RootSect .. DataBase - 1
    IN  [s \in Sectors |->
           IF s = 0 THEN Boot
           ELSE IF s < FatBase THEN FsInfo(Clusters - 1, RootClust)
           ELSE IF s < RootSect THEN FatPart((s - FatBase) % FatSize)
           ELSE IF s \in root THEN ZeroSector ELSE BlankData]
=============================================================================

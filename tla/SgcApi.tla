------------------------------- MODULE SgcApi -------------------------------
(***************************************************************************)
(* The file API src/INC/sgclib/api_functions.c over FatFs: the table of    *)
(* MAX_FILES descriptors, the directory object, and every sgc_* call as    *)
(* one action.  The disk transfers of a call succeed; the power may fail   *)
(* between any two of its writes, and the program is then started again.   *)
(*                                                                         *)
(* The client is one that keeps to ffconf.h:268 (FF_FS_LOCK is 0:          *)
(* "application program should avoid illegal open, remove and rename to    *)
(* the open objects"), that calls sgc_init once, and that goes on with a   *)
(* card after a power loss only when a file system check finds nothing.    *)
(***************************************************************************)
EXTENDS FatVolume

CONSTANTS MAX_FILES,  \* 2 in the code
          Names,      \* the paths the client uses: [abs, seg] (see FatFs)
          Dirs,       \* those it makes directories of
          Modes,      \* the modes it opens files with
          Offsets,    \* the offsets it seeks with, from any origin
          Lengths,    \* the lengths it reads and writes
          Moves,      \* the pairs of paths it renames
          MaxCalls,   \* bound on the calls of a run
          MaxCuts,    \* bound on the power losses
          Depth,      \* how deep directories nest
          Paths       \* the absolute paths of the abstract store

PathNames == [abs : BOOLEAN, seg : Seq(STRING)]

ASSUME ClientAssumption ==
    /\ MAX_FILES \in Nat \ {0}
    /\ \A p \in Paths : p \in Seq(STRING) /\ p # <<>>
    /\ Names \union Dirs \subseteq PathNames
    /\ Moves \subseteq PathNames \X PathNames
    /\ Offsets \subseteq Nat /\ Lengths \subseteq Nat \ {0}
    /\ MaxCalls \in Nat /\ MaxCuts \in Nat /\ Depth \in Nat

VARIABLES disk,       \* the card
          fs,         \* FatFs, the FATFS object
          files,      \* FIL files[MAX_FILES]
          files_open, \* the descriptors whose bit is set in files_open
          diropen,    \* <<DIR dir, diropen>>
          held,       \* the client's note of what each descriptor is
          call,       \* the last call and its answer
          calls, cuts,
          torn,       \* a power loss hit one of the windows of TornBy
          image       \* the state of the abstract store: a function of the rest

vars == <<disk, fs, files, files_open, diropen, held, call, calls, cuts, torn,
          image>>
view == <<disk, fs, files, files_open, diropen, held, calls, cuts, torn>>

Fds == 0 .. MAX_FILES - 1
NoHold == [path |-> <<>>, cut |-> FALSE]

-----------------------------------------------------------------------------
(* What the program sees of the store: the card with the window's unwritten*)
(* sector and the open files' unsaved sizes taken in; a descriptor has     *)
(* unsaved changes while FA_MODIFIED is set.                               *)
Handle(x, h) == [path |-> h.path, pos |-> x.fptr, r |-> x.r, w |-> x.w,
                 dirty |-> x.mod]

PathTo(m, fils, c) ==   \* the paths to the directory at cluster c
    LET Inside(here) == {x \in Objects(m, fils, here) : x.dir}
        level[k \in 0..Depth] ==    \* the paths k directories deep
          IF k = 0 THEN {[names |-> <<o.nm>>, cl |-> o.cl] : o \in Inside(0)}
          ELSE UNION {{[names |-> Append(p.names, o.nm), cl |-> o.cl] :
                          o \in Inside(p.cl)} : p \in level[k - 1]}
    IN  {p.names : p \in {q \in UNION {level[k] : k \in 0..Depth} : q.cl = c}}

Image(d, f, xs, open, h) ==
    With({xs[i] : i \in open}, LAMBDA fils :
    With(Seen(d, f), LAMBDA m :
      [tree |-> [p \in Paths |-> Contents(m, fils, p)],
       handles |-> [i \in Fds |-> IF i \in open THEN Handle(xs[i], h[i])
                                  ELSE Handle(NoFil, NoHold)],
       cwd |-> IF f.cdir = 0 THEN <<>>
               ELSE CHOOSE p \in PathTo(m, fils, f.cdir) : TRUE]))

Init == /\ disk = FreshVolume
        /\ fs = NoFs
        /\ files = [f \in Fds |-> NoFil]
        /\ files_open = {}
        /\ diropen = <<NoDir, FALSE>>
        /\ held = [f \in Fds |-> NoHold]
        /\ call = [op |-> "none"]
        /\ calls = 0 /\ cuts = 0 /\ torn = FALSE
        /\ image = Image(disk, fs, files, files_open, held)

-----------------------------------------------------------------------------
(* The volume as the program sees it.                                      *)
OpenFils == {files[f] : f \in files_open}
Now      == Seen(disk, fs)

Cwd == image.cwd
AbsPath(n) == IF n.abs THEN n.seg
              ELSE IF n.seg = <<"..">>
              THEN (IF Cwd = <<>> THEN Cwd ELSE SubSeq(Cwd, 1, Len(Cwd) - 1))
              ELSE Cwd \o n.seg

Below(p, d) == Len(p) >= Len(d) /\ SubSeq(p, 1, Len(d)) = d

-----------------------------------------------------------------------------
(* A call, its end, and the power loss that may cut it off.                *)
Start   == Call(disk, fs, 0, -1)
Using(f) == [Start EXCEPT !.fp = files[f]]

Ready == fs.reg /\ calls < MaxCalls

Ends(v, c) == /\ disk' = v.disk /\ fs' = v.fs
              /\ call' = c /\ calls' = calls + 1
              /\ UNCHANGED <<cuts, torn>>
Sees == image' = Image(disk', fs', files', files_open', held')
NoFile == UNCHANGED <<files, files_open, held>>
NoDirs == UNCHANGED diropen

(* The windows in which FatFs itself risks a cross-link: a rename between  *)
(* the new and the old entry (ff.c:5174), a truncation that its directory  *)
(* entry does not show yet, and a table linked to a cluster that is not    *)
(* cleared yet.                                                            *)
Tables(m) == LET dirs == {o \in AllObjects(m, OpenFils, Depth) : o.dir}
             IN  {0} \union {o.cl : o \in dirs}
Stretched(m) == \E c \in Tables(Now) :
                   Len(TableSects(m, c)) > Len(TableSects(Now, c))
TornBy(op, m) == \/ op = "rename"
                 \/ op = "truncate"
                 \/ \E f \in files_open : held[f].cut
                 \/ Stretched(m)

Cut(v, op, on) ==
    /\ cuts < MaxCuts
    /\ \E m \in v.media \union {disk} :
         /\ disk' = m
         /\ torn' = (torn \/ TornBy(op, m))
    /\ fs' = NoFs
    /\ files' = [f \in Fds |-> NoFil] /\ files_open' = {}
    /\ diropen' = <<NoDir, FALSE>>
    /\ held' = [f \in Fds |-> NoHold]
    /\ call' = [op |-> "cut", on |-> on]
    /\ calls' = calls + 1 /\ cuts' = cuts + 1

-----------------------------------------------------------------------------
(* sgc_init: once, with a card that a check of the file system passes.     *)
sgc_init ==
    /\ ~fs.reg /\ calls < MaxCalls
    /\ NoCrossLinks(disk, {}, Depth) /\ SizesCovered(disk, {}, Depth)
    /\ NoJunkEntries(disk, Depth)
    /\ \E v \in {f_mount(Start)} : Ends(v, [op |-> "init", ret |-> v.res])
    /\ NoFile /\ NoDirs
    /\ Sees

Unused(p) == \A f \in files_open : held[f].path # p
MayOpen(p, mode) ==
    \A f \in files_open :
       held[f].path = p => ~files[f].w /\ mode = {"R"}

alloc_fd == CHOOSE f \in Fds \ files_open : \A g \in Fds \ files_open : f <= g

(* A descriptor whose f_open failed is free again.                         *)
Opened(v, n, c) ==
    LET fd == alloc_fd
        ok == v.res = "OK"
    IN  /\ Ends(v, c)
        /\ files' = [files EXCEPT ![fd] = v.fp]
        /\ files_open' = IF ok THEN files_open \union {fd} ELSE files_open
        /\ held' = [held EXCEPT ![fd] =
                      IF ok THEN [path |-> AbsPath(n), cut |-> FALSE]
                      ELSE NoHold]
        /\ NoDirs

TOO_MANY_OPEN_FILES == -18
INVALID_OBJECT      == -9

sgc_open(n, mode) ==
    LET Answer(r) == [op |-> "open", path |-> n, mode |-> mode, ret |-> r]
    IN  /\ AbsPath(n) \in Paths /\ MayOpen(AbsPath(n), mode)
        /\ \/ /\ files_open = Fds
              /\ Ends(Start, Answer(TOO_MANY_OPEN_FILES))
              /\ NoFile /\ NoDirs
           \/ /\ files_open # Fds
              /\ \E v \in {f_open(Using(alloc_fd), n, mode)} :
                   \/ Opened(v, n, Answer(IF v.res = "OK" THEN alloc_fd ELSE -1))
                   \/ Cut(v, "open", {AbsPath(n)})
        /\ Sees

sgc_close(f) ==
    /\ \E v \in {f_close(Using(f))} :
         \/ /\ Ends(v, [op |-> "close", fd |-> f,
                        ret |-> IF v.res = "OK" THEN 0 ELSE v.res])
            /\ files' = [files EXCEPT ![f] = v.fp]
            /\ files_open' = files_open \ {f}
            /\ held' = [held EXCEPT ![f] = NoHold]
            /\ NoDirs
         \/ Cut(v, "close", {held[f].path})
    /\ Sees

(* A call that works on the descriptor's file.                             *)
Works(f, v, c, cut) ==
    \/ /\ Ends(v, c)
       /\ files' = [files EXCEPT ![f] = v.fp]
       /\ held' = [held EXCEPT ![f].cut = cut]
       /\ UNCHANGED files_open /\ NoDirs
    \/ Cut(v, c.op, {held[f].path})

(* A mutant: the size is left unsaved.                                     *)
SeekedUnsynced(v, offset) ==
    IF offset \notin 0..2 THEN v
    ELSE f_lseek(v, offset + (CASE offset = 0 -> 0
                                [] offset = 1 -> v.fp.fptr
                                [] offset = 2 -> v.fp.size))

(* The switch is on the offset: C_SEEK_SET is 0, C_SEEK_CUR 1, C_SEEK_END  *)
(* 2; whence, the origin that the caller names, is not looked at.          *)
Whences == {"SET", "CUR", "END"}
Seeked(v, offset) ==
    With(f_sync(v), LAMBDA s :
      IF offset \notin 0..2 THEN s
      ELSE f_lseek(OK(s), (offset + (CASE offset = 0 -> 0
                                       [] offset = 1 -> s.fp.fptr
                                       [] offset = 2 -> s.fp.size))
                          % (MaxFileSize + 1)))

sgc_seek(f, offset, whence) ==
    /\ \E v \in {Seeked(Using(f), offset)} :
         Works(f, v, [op |-> "seek", fd |-> f, offset |-> offset,
                      whence |-> whence, ret |-> v.fp.fptr], FALSE)
    /\ Sees

(* sgc_sync is sgc_seek(fd, 0, C_SEEK_CUR).                                *)
sgc_sync(f) ==
    /\ \E v \in {Seeked(Using(f), 0)} :
         Works(f, v, [op |-> "sync", fd |-> f, ret |-> v.fp.fptr], FALSE)
    /\ Sees

sgc_read(f, len) ==
    /\ \E v \in {f_read(Using(f), len)} :
         Works(f, v, [op |-> "read", fd |-> f, len |-> len,
                      bytes |-> v.buf, ret |-> v.cnt], held[f].cut)
    /\ Sees

(* Each descriptor writes a byte of its own.                               *)
Symbol(f) == IF f = 0 THEN "x" ELSE "y"
sgc_write(f, len) ==
    LET data == [i \in 1..len |-> Symbol(f)]
    IN  /\ \E v \in {f_write(Using(f), data)} :
             Works(f, v, [op |-> "write", fd |-> f, data |-> data,
                          ret |-> v.cnt], held[f].cut)
        /\ Sees

sgc_truncate(f) ==
    /\ \E v \in {f_truncate(Using(f))} :
         Works(f, v, [op |-> "truncate", fd |-> f, ret |-> v.fp.fptr],
               held[f].cut \/ v.fp.size < files[f].size)
    /\ Sees

(* get_fil_from_fd finds no file for a descriptor that is not in use, and  *)
(* every call on it answers with an error.                                 *)
Unheld(f) ==
    /\ Ends(Start, [op |-> "badfd", fd |-> f, ret |-> INVALID_OBJECT])
    /\ NoFile /\ NoDirs
    /\ Sees

-----------------------------------------------------------------------------
(* A call by name.                                                         *)
Named(v, c, on) == \/ Ends(v, c) /\ NoFile /\ NoDirs
                   \/ Cut(v, c.op, on)

sgc_stat(n) ==
    /\ \E v \in {f_stat(Start, n)} :
         Named(v, [op |-> "stat", path |-> n, res |-> v.res,
                   isdir |-> v.res = "OK" /\ v.buf[1].dir,
                   size |-> IF v.res = "OK" THEN v.buf[1].sz ELSE 0], {})
    /\ Sees

sgc_unlink(n) ==
    /\ Unused(AbsPath(n))
    /\ \E v \in {f_unlink(Start, n)} :
         Named(v, [op |-> "unlink", path |-> n, res |-> v.res], {AbsPath(n)})
    /\ Sees

sgc_mkdir(n) ==
    /\ AbsPath(n) \in Paths
    /\ \E v \in {f_mkdir(Start, n)} :
         Named(v, [op |-> "mkdir", path |-> n, res |-> v.res], {AbsPath(n)})
    /\ Sees

sgc_rename(n, to) ==
    LET old == AbsPath(n)
        new == AbsPath(to)
        Moved(p) == IF Below(p, old)
                    THEN new \o SubSeq(p, Len(old) + 1, Len(p)) ELSE p
    IN  /\ {old, new} \subseteq Paths
        /\ Unused(old) /\ (Below(new, old) => new = old)
        /\ \E v \in {f_rename(Start, n, to)} :
             \/ /\ Ends(v, [op |-> "rename", path |-> n, to |-> to,
                            res |-> v.res])
                /\ held' = IF v.res # "OK" THEN held
                           ELSE [f \in Fds |->
                                   [held[f] EXCEPT !.path = Moved(@)]]
                /\ UNCHANGED <<files, files_open>> /\ NoDirs
             \/ Cut(v, "rename", {p \in Paths : Below(p, old) \/ Below(p, new)})
        /\ Sees

(* sgc_opendir and sgc_chdir answer SGC_FR_OK whatever FatFs said.         *)
sgc_opendir(n) ==
    LET dp == [Start EXCEPT !.dp = diropen[1]]
    IN  /\ \E v \in {f_opendir(IF diropen[2] THEN OK(f_closedir(dp)) ELSE dp,
                               n)} :
             /\ Ends(v, [op |-> "opendir", path |-> n, ret |-> 0])
             /\ diropen' = <<v.dp, v.res = "OK">>
        /\ NoFile
        /\ Sees

sgc_chdir(n) ==
    /\ \E v \in {f_chdir(Start, n)} :
         Named(v, [op |-> "chdir", path |-> n, ret |-> 0], {})
    /\ Sees

sgc_getcwd(room) ==
    /\ \E v \in {f_getcwd(Start, room)} :
         Named(v, [op |-> "getcwd", room |-> room, res |-> v.res,
                   names |-> v.buf], {})
    /\ Sees

(* Each call, with what the client may ask of it.                          *)
Open     == Ready /\ \E n \in Names, mode \in Modes : sgc_open(n, mode)
Close    == Ready /\ \E f \in files_open : sgc_close(f)
Seek     == Ready /\ \E f \in files_open, o \in Offsets, w \in Whences :
                        sgc_seek(f, o, w)
Sync     == Ready /\ \E f \in files_open : sgc_sync(f)
Read     == Ready /\ \E f \in files_open, l \in Lengths : sgc_read(f, l)
Write    == Ready /\ \E f \in files_open, l \in Lengths : sgc_write(f, l)
Truncate == Ready /\ \E f \in files_open : sgc_truncate(f)
BadFd    == Ready /\ \E f \in Fds \ files_open : Unheld(f)
Stat     == Ready /\ \E n \in Names : sgc_stat(n)
Unlink   == Ready /\ \E n \in Names : sgc_unlink(n)
Mkdir    == Ready /\ \E n \in Dirs : sgc_mkdir(n)
OpenDir  == Ready /\ \E n \in Dirs : sgc_opendir(n)
ChDir    == Ready /\ \E n \in Dirs : sgc_chdir(n)
GetCwd   == Ready /\ \E room \in 0 .. Depth + 1 : sgc_getcwd(room)
Rename   == Ready /\ \E mv \in Moves : sgc_rename(mv[1], mv[2])

Next == \/ sgc_init \/ Open \/ Close \/ Seek \/ Sync \/ Read \/ Write
        \/ Truncate \/ BadFd \/ Stat \/ Unlink \/ Mkdir \/ OpenDir
        \/ ChDir \/ GetCwd \/ Rename

Spec == Init /\ [][Next]_vars

-----------------------------------------------------------------------------
(* The states have their types: the card's sectors, the window, the counts *)
(* of FSInfo and the open files are what the code's structures can hold,   *)
(* and a window that is to be written has a sector to go to.               *)
ClusterNo == 0 .. NFatEnt - 1
DirEntry == [nm : STRING, dir : BOOLEAN, ro : BOOLEAN, cl : ClusterNo, sz : Nat]
Sector(c) ==
    \/ c = Boot
    \/ c.k = "fsinfo" /\ {c.free, c.last} \subseteq ClusterNo \union {NOCOUNT}
    \/ c.k = "fat"  /\ c.e \in [0 .. FatEntriesPerSector - 1 ->
                                  ClusterNo \union {EOC}]
    \/ c.k = "dir"  /\ c.e \in [0 .. DirEntriesPerSector - 1 -> DirEntry]
    \/ c.k = "data" /\ c.d \in [1 .. SectorBytes -> {"x", "y", JUNK}]
FilOK(x) == /\ {x.sclust, x.clust} \subseteq ClusterNo
            /\ x.fptr \in 0 .. x.size
            /\ x.size <= Clusters * ClusterBytes
            /\ x.sect \in Sectors /\ x.dsect \in Sectors
TypeOK ==
    /\ DOMAIN disk = Sectors /\ \A s \in Sectors : Sector(disk[s])
    /\ Sector(fs.win) /\ fs.winsect \in Sectors \union {NOSECT}
    /\ fs.wflag => fs.winsect \in Sectors
    /\ fs.cdir \in ClusterNo
    /\ {fs.last, fs.free} \subseteq 0 .. Clusters + 1 \union {NOCOUNT}
    /\ files_open \subseteq Fds
    /\ \A f \in files_open : FilOK(files[f])

(* The file API keeps what FileStore promises: every call has the effect   *)
(* that a tree of files asks for, a failed call changes nothing, a         *)
(* descriptor is free again when its open failed or it was closed, and a   *)
(* power loss in the middle of a call damages no file that the call does   *)
(* not work on and that has no changes yet to synchronise.                 *)
Store == INSTANCE FileStore WITH tree <- image.tree, handles <- image.handles,
                                 cwd <- image.cwd, Bytes <- {"x", "y", JUNK}
StoreImplemented == Store!Spec

(* Every seek goes to the byte that offset and whence name.                *)
SeekAsAsked == Store!SeekAsAsked

(* A sync leaves the descriptor where it was.                              *)
SyncStays == Store!SyncStays

(* sgc_chdir and sgc_opendir answer SGC_FR_OK only for a directory.        *)
ZeroMeansFolder == Store!ZeroMeansFolder

(* A read or a write that the open mode forbids answers a negative value.  *)
ForbiddenIsNegative == Store!ForbiddenIsNegative

(* The calls keep all that the API documents and FileStore leaves open.    *)
AsDocumented ==
    SeekAsAsked /\ SyncStays /\ ZeroMeansFolder /\ ForbiddenIsNegative

(* No cluster belongs to two files, and no chain leads to a free cluster,  *)
(* in what the program sees: also when a power loss cut a call off between *)
(* two of its writes and the program went on with the card, unless it hit  *)
(* one of the windows that TornBy names.                                   *)
NoCrossLink == ~torn => NoCrossLinks(Now, OpenFils, Depth)

(* While the power holds, every cluster that is not free belongs to a file *)
(* or a directory: create, truncate, unlink and a call that fails on a     *)
(* full card give back what they took.                                     *)
Intact == cuts = 0
NoLostCluster == Intact => NoLostClusters(Now, OpenFils, Depth)

(* While the power holds, the count of free clusters that FatFs keeps      *)
(* instead of searching the FAT is the number of free clusters.            *)
FreeCountRight == (Intact /\ fs.type # 0 /\ fs.free # NOCOUNT)
                     => fs.free = FreeClusters(Now)

(* Once the window is written, the FAT and its copy on the card agree,     *)
(* unless the power failed between the two writes.                         *)
FatCopiesAgree == Intact => FatCopiesSame(disk)
=============================================================================

------------------------------ MODULE Transfer ------------------------------
(***************************************************************************)
(* The handlers of the file requests, src/INC/                             *)
(* srl_devcart_sdcard_handlers.hpp, over the classes File, Directory and   *)
(* FatFsBackend of srl_devcart_sdcard_fatfs.hpp and FatFs.  A request is   *)
(* one action: the Saturn serves one at a time, and what the host sends or *)
(* reads meanwhile only passes through the buffer (HostIo has the frames). *)
(* Paths that are not of the card's file system are refused before any of  *)
(* this; sdraw: paths are in RawRange.                                     *)
(*                                                                         *)
(* While a handler runs, one of its sector transfers may fail, or every    *)
(* transfer from some one on (the card was pulled and is put back when the *)
(* request is over), or the power may fail between two of its writes.      *)
(***************************************************************************)
EXTENDS FatVolume

CONSTANTS Files,           \* the paths of files the host names
          Folders,         \* the paths of directories
          Moves,           \* the pairs <<old, new>> it renames
          Uploads,         \* the contents it uploads
          kFileBufferSize, \* the bytes of a chunk, 1024 in the code
          kMaxDirEntries,  \* 96 in the code
          MaxRequests,     \* bound on the requests of a run
          MaxFaults,       \* bound on the requests that meet disk errors
          MaxCuts          \* bound on the power losses

ASSUME TransferAssumption == /\ kFileBufferSize \in Nat \ {0}
                             /\ kMaxDirEntries \in Nat
                             /\ Files \cap Folders = {}
                             /\ Files \union Folders \subseteq Seq(STRING)
                             /\ Moves \subseteq (Files \union Folders)
                                              \X (Files \union Folders)
                             /\ Uploads \subseteq Seq(STRING)

(* The last name of a path marks no slot as free or deleted: a name that   *)
(* create_name (ff.c:3044) makes starts with neither 0 nor DDEM.  That of  *)
(* a file is none of the two dot names.                                    *)
ASSUME NamesAssumption ==
    /\ \A p \in Files \union Folders : p # <<>> => p[Len(p)] \notin {"", Deleted}
    /\ \A p \in Files : p # <<>> => p[Len(p)] \notin {".", ".."}

VARIABLES disk,        \* the card
          m_fatfs,     \* the backend's FATFS object
          m_mounted,   \* FatFsBackend::m_mounted
          g_sgcReady,  \* the handlers' flag of the same
          last,        \* the last request and its answer
          requests, faults, cuts,
          torn,        \* a rename was hit by an error or a power loss
          content      \* what the card's files hold: a function of the rest

vars == <<disk, m_fatfs, m_mounted, g_sgcReady, last, requests, faults, cuts,
          torn, content>>
view == <<disk, m_fatfs, m_mounted, g_sgcReady, requests, faults, cuts, torn>>

Paths == Files \union Folders
Depth == 2

(* The tree as the program sees it, and as the card alone holds it.        *)
Tree(m) == [p \in Paths |-> Contents(m, {}, p)]
Content(d, f) == [now |-> Tree(Seen(d, f)), card |-> Tree(d)]

Init == /\ disk = FreshVolume
        /\ m_fatfs = NoFs
        /\ m_mounted = FALSE /\ g_sgcReady = FALSE
        /\ last = [op |-> "none"]
        /\ requests = 0 /\ faults = 0 /\ cuts = 0 /\ torn = FALSE
        /\ content = Content(disk, m_fatfs)

Abs(p) == [abs |-> TRUE, seg |-> p]

-----------------------------------------------------------------------------
(* The handlers: from a call record to [v, st, out, up], the record after  *)
(* it, the status of the answer, what it says or what was sent, and whether*)
(* the volume was mounted or is now.                                       *)
Answer(v, st, out) == [v |-> v, st |-> st, out |-> out, up |-> FALSE]
Verdict(v) == Answer(v, IF v.res = "OK" THEN "Ok" ELSE "Error", <<>>)

(* FatFsBackend and its File and Directory.                                *)
EnsureReady(v)         == IF m_mounted THEN OK(v) ELSE f_mount(v)
RemovePath(v, p)       == f_unlink(v, Abs(p))
MakeDirectory(v, p)    == f_mkdir(v, Abs(p))
RenamePath(v, old, new) == f_rename(v, Abs(old), Abs(new))
StatPath(v, p)         == f_stat(v, Abs(p))
OpenFile(v, p, write)  == f_open(v, Abs(p), IF write THEN {"W", "ALWAYS"}
                                            ELSE {"R"})
CloseFile(v)           == f_close(OK(v))            \* whatever it answers
WriteFile(v, bytes)    == f_write(OK(v), bytes)
ReadFile(v, len)       == f_read(v, len)
OpenDirectory(v, p)    == f_opendir(OK(v), Abs(p))
ReadDirectory(v)       == f_readdir(v)

EnsureSgclibReady(v) == IF g_sgcReady THEN OK(v) ELSE EnsureReady(v)

WithCard(v, Handler(_)) ==
    With(EnsureSgclibReady(v), LAMBDA u :
      IF u.res = "OK" THEN [Handler(u) EXCEPT !.up = TRUE]
      ELSE Answer(u, "Error", <<>>))

HandleRemove(v, p) == WithCard(v, LAMBDA u : Verdict(RemovePath(u, p)))
HandleRmdir(v, p)  == WithCard(v, LAMBDA u : Verdict(RemovePath(u, p)))
HandleMkdir(v, p)  == WithCard(v, LAMBDA u : Verdict(MakeDirectory(u, p)))
(* A mutant: the new name is cleared away first.                           *)
HandleRenameOver(v, old, new) ==
    WithCard(v, LAMBDA u :
      Verdict(RenamePath(OK(RemovePath(u, new)), old, new)))
HandleRename(v, old, new) ==
    WithCard(v, LAMBDA u : Verdict(RenamePath(u, old, new)))

(* The result of the f_mkdir is not looked at.                             *)
HandleSync(v, p) ==
    WithCard(v, LAMBDA u : Answer(MakeDirectory(u, p), "Ok", <<>>))

(* What a handler does with a file it could open.                          *)
Opened(v, p, write, Handler(_)) ==
    With(OpenFile(v, p, write), LAMBDA o :
      IF o.res = "OK" THEN Handler(o) ELSE Answer(o, "Error", <<>>))

(* The chunks of an upload: neither the result nor the count of a write is *)
(* looked at.                                                              *)
Chunk(data, k) == SubSeq(data, (k - 1) * kFileBufferSize + 1,
                         Least(k * kFileBufferSize, Len(data)))
WriteChunks(v, data) ==
    LET chunks == (Len(data) + kFileBufferSize - 1) \div kFileBufferSize
        wrote[k \in 0..chunks] ==
          IF k = 0 THEN v ELSE WriteFile(wrote[k - 1], Chunk(data, k))
    IN  wrote[chunks]

(* The result byte 0 tells the host that the checksums agree.              *)
HandleUpload(v, p, data) ==
    WithCard(v, LAMBDA u : Opened(u, p, TRUE, LAMBDA o :
        Answer(CloseFile(WriteChunks(o, data)), "Handled", <<0>>)))

(* The bytes that are read one buffer after the other, up to k of them, to *)
(* an error or the end of the file.                                        *)
ReadChunk(g, k) ==
    IF Len(g.got) >= k THEN [g EXCEPT !.more = FALSE]
    ELSE With(ReadFile(g.v, Least(k - Len(g.got), kFileBufferSize)), LAMBDA r :
           [v |-> r, got |-> IF r.res = "OK" THEN g.got \o r.buf ELSE g.got,
            more |-> r.res = "OK" /\ r.cnt # 0])
ReadChunks(v, k) ==
    LET read[i \in 0..k] ==
          IF i = 0 THEN [v |-> OK(v), got |-> <<>>, more |-> TRUE]
          ELSE With(read[i - 1], LAMBDA g :
                    IF g.more THEN ReadChunk(g, k) ELSE g)
    IN  With(read[k], LAMBDA g : [g.v EXCEPT !.buf = g.got])

(* A read error ends the data; the host sees only that bytes are missing.  *)
HandleDownload(v, p) ==
    WithCard(v, LAMBDA u : Opened(u, p, FALSE, LAMBDA o :
        With(ReadChunks(o, o.fp.size), LAMBDA r :
            Answer(CloseFile(r), "Handled", <<o.fp.size, r.buf>>))))

(* A mutant: a read error ends the file.                                   *)
HandleCrcBlind(v, p) ==
    WithCard(v, LAMBDA u : Opened(u, p, FALSE, LAMBDA o :
        With(ReadChunks(o, o.fp.size + kFileBufferSize), LAMBDA r :
            Answer(CloseFile(r), "Ok", r.buf))))

(* The checksum of the whole file: "out" is what it was computed from.     *)
HandleCrc(v, p) ==
    WithCard(v, LAMBDA u : Opened(u, p, FALSE, LAMBDA o :
        With(ReadChunks(o, o.fp.size + kFileBufferSize), LAMBDA r :
            Answer(CloseFile(r), IF r.res = "OK" THEN "Ok" ELSE "Error",
                   r.buf))))

(* Directory::Read, until it fails, at the end, or after kMaxDirEntries.   *)
ReadEntry(g) ==
    With(ReadDirectory(g.v), LAMBDA r :
      IF r.res # "OK" \/ r.buf = <<>> THEN [g EXCEPT !.v = r, !.more = FALSE]
      ELSE [g EXCEPT !.v = r, !.names = Append(@, r.buf[1].nm)])
ReadEntries(v) ==
    LET read[i \in 0..kMaxDirEntries] ==
          IF i = 0 THEN [v |-> v, names |-> <<>>, more |-> TRUE]
          ELSE With(read[i - 1], LAMBDA g : IF g.more THEN ReadEntry(g) ELSE g)
    IN  With(read[kMaxDirEntries], LAMBDA g : Answer(g.v, "Ok", g.names))

HandleList(v, p) ==
    WithCard(v, LAMBDA u : With(StatPath(u, p), LAMBDA s :
        IF s.res = "OK" /\ ~s.buf[1].dir THEN Answer(s, "Ok", <<"[F]">>)
        ELSE With(OpenDirectory(s, p), LAMBDA d :
               IF d.res # "OK" THEN Answer(d, "Error", <<>>)
               ELSE ReadEntries(d))))

-----------------------------------------------------------------------------
(* A request that runs to its end, with disk errors ("hurt") or without.   *)
Done(a, r, hurt) ==
    /\ disk' = a.v.disk /\ m_fatfs' = a.v.fs
    /\ m_mounted' = a.up /\ g_sgcReady' = a.up
    /\ last' = [op |-> "answer", req |-> r, st |-> a.st, out |-> a.out,
                hurt |-> hurt]
    /\ faults' = IF hurt THEN faults + 1 ELSE faults
    /\ torn' = (torn \/ (hurt /\ r.op = "rename"))
    /\ UNCHANGED cuts

(* The power fails during the request: nothing but the card is left.       *)
PowerLoss(v, r) ==
    /\ disk' \in v.media \union {disk}
    /\ m_fatfs' = NoFs /\ m_mounted' = FALSE /\ g_sgcReady' = FALSE
    /\ last' = [op |-> "cut", req |-> r, st |-> "cut", out |-> <<>>,
                hurt |-> FALSE]
    /\ cuts' = cuts + 1
    /\ torn' = (torn \/ r.op = "rename")
    /\ UNCHANGED faults

Forever == 1000        \* above the number of transfers of every request

Serve(Handler(_), r) ==
    /\ requests < MaxRequests /\ requests' = requests + 1
    /\ \E a \in {Handler(Call(disk, m_fatfs, -1, -1))} :
         \/ Done(a, r, FALSE)
         \/ /\ faults < MaxFaults
            /\ \E from \in 0 .. a.v.n - 1 : \E to \in {from, Forever} :
                 \E h \in {Handler(Call(disk, m_fatfs, from, to))} :
                    Done(h, r, TRUE)
         \/ cuts < MaxCuts /\ PowerLoss(a.v, r)
    /\ content' = Content(disk', m_fatfs')

On(op, p) == [op |-> op, on |-> {p}, path |-> p]

Upload   == \E p \in Files, d \in Uploads :
               Serve(LAMBDA v : HandleUpload(v, p, d),
                     [op |-> "upload", on |-> {p}, path |-> p, data |-> d])
Download == \E p \in Files : Serve(LAMBDA v : HandleDownload(v, p),
                                   On("download", p))
Crc      == \E p \in Files : Serve(LAMBDA v : HandleCrc(v, p), On("crc", p))
Remove   == \E p \in Files : Serve(LAMBDA v : HandleRemove(v, p),
                                   On("remove", p))
Mkdir    == \E p \in Folders : Serve(LAMBDA v : HandleMkdir(v, p),
                                     On("mkdir", p))
Rmdir    == \E p \in Folders : Serve(LAMBDA v : HandleRmdir(v, p),
                                     On("rmdir", p))
Sync     == \E p \in Folders : Serve(LAMBDA v : HandleSync(v, p),
                                     On("sync", p))
List     == \E p \in {<<>>} \union Paths :
               Serve(LAMBDA v : HandleList(v, p), On("list", p))
Rename   == \E mv \in Moves :
               Serve(LAMBDA v : HandleRename(v, mv[1], mv[2]),
                     [op |-> "rename", on |-> {mv[1], mv[2]}, path |-> mv[1],
                      to |-> mv[2]])

Next == \/ Upload \/ Download \/ Crc \/ Remove \/ Mkdir \/ Rmdir \/ Sync
        \/ List \/ Rename

Spec == Init /\ [][Next]_vars

-----------------------------------------------------------------------------
(* Types; and the two flags say the same, that FatFs holds a volume.       *)
TypeOK ==
    /\ DOMAIN disk = Sectors
    /\ \A s \in Sectors :
          /\ disk[s].k = "dir" => \A i \in DOMAIN disk[s].e :
                                     disk[s].e[i].cl \in 0 .. NFatEnt - 1
          /\ disk[s].k = "fat" => \A i \in DOMAIN disk[s].e :
                                     disk[s].e[i] \in 0 .. NFatEnt - 1 \union {EOC}
    /\ m_fatfs.winsect \in Sectors \union {NOSECT}
    /\ m_fatfs.wflag => m_fatfs.winsect \in Sectors
    /\ g_sgcReady = m_mounted /\ m_mounted = (m_fatfs.type # 0)

(* Whatever transfers fail and wherever the power is lost, no cluster ends *)
(* up in two files and no file's chain leads to a free cluster or falls    *)
(* short of its size: in what the program sees, and on the card that a     *)
(* power loss would leave now.  Only a rename cut off between its two      *)
(* entries is excepted (ff.c:5174).                                        *)
Sound == ~torn => \A m \in {disk, Seen(disk, m_fatfs)} :
                     NoCrossLinks(m, {}, Depth) /\ SizesCovered(m, {}, Depth)

(* A request, completed, failed or cut off, leaves every file and directory*)
(* that it does not name as it was; the card may only catch up with what   *)
(* an earlier request left in the window.                                  *)
OthersIntact ==
    [][~torn' => \A p \in Paths \ last'.req.on :
          /\ last'.st # "cut" => content'.now[p] = content.now[p]
          /\ content'.card[p] \in {content.card[p], content.now[p]}]_vars

(* When the host is told that a remove, a mkdir, a rmdir or a rename went  *)
(* well it is done, and the whole tree is on the card as the program sees  *)
(* it: nothing waits in the window for a later write.  An upload with no   *)
(* disk error and with room on the card is on the card too.                *)
InClusters(k) == (k + ClusterBytes - 1) \div ClusterBytes
RoomFor(p, data) ==
    LET own == IF content.now[p] \in {Absent, IsDir, Broken} THEN 0
               ELSE InClusters(Len(content.now[p]))
    IN  InClusters(Len(data)) <= own + FreeClusters(Seen(disk, m_fatfs))
Achieved(r) ==
    CASE r.op \in {"remove", "rmdir"} -> content'.now[r.path] = Absent
      [] r.op = "mkdir" -> content'.now[r.path] = IsDir
      [] r.op = "rename" -> /\ content'.now[r.to] = content.now[r.path]
                            /\ content'.now[r.path] = Absent
      [] OTHER -> TRUE
Changing == {"remove", "rmdir", "mkdir", "rename"}
AckedIsDone ==
    [][~torn' =>
         /\ (last'.st = "Ok" /\ last'.req.op \in Changing) =>
               Achieved(last'.req) /\ content'.card = content'.now
         /\ (last'.st = "Handled" /\ last'.req.op = "upload" /\ ~last'.hurt
               /\ RoomFor(last'.req.path, last'.req.data)) =>
               content'.card[last'.req.path] = last'.req.data]_vars

(* What is sent of a file is what it holds, up to the byte where a disk    *)
(* error stopped it; a checksum that is answered is that of the whole file,*)
(* disk errors or not; a listing names the files and directories there     *)
(* are, each once, up to kMaxDirEntries of them.                           *)
Names(p) == {q[Len(q)] : q \in {x \in Paths : /\ SubSeq(x, 1, Len(x) - 1) = p
                                              /\ content.now[x] # Absent}}
ListOK(p, out, hurt) ==
    /\ Cardinality(SetOf(out)) = Len(out) /\ SetOf(out) \subseteq Names(p)
    /\ hurt \/ Len(out) = Least(Cardinality(Names(p)), kMaxDirEntries)
DownloadOK(file, out, hurt) ==
    /\ out[1] = Len(file)
    /\ Len(out[2]) <= Len(file) /\ out[2] = SubSeq(file, 1, Len(out[2]))
    /\ hurt \/ out[2] = file
ReadsTrue ==
    [][LET r == last'.req
           file == content.now[r.path]
           out == last'.out
       IN  /\ (r.op = "download" /\ last'.st = "Handled") =>
                 DownloadOK(file, out, last'.hurt)
           /\ (r.op = "crc" /\ last'.st = "Ok") => out = file
           /\ (r.op = "list" /\ last'.st = "Ok" /\ out # <<"[F]">>) =>
                 ListOK(r.path, out, last'.hurt)]_vars

(* A request that is refused though no transfer failed has changed nothing.*)
RefusedIsNothing ==
    [][(last'.st = "Error" /\ ~last'.hurt) => content'.now = content.now]_vars

(* The host is told that its upload is stored (the result byte 0) only when*)
(* the file holds what it sent.                                            *)
UploadStored ==
    (last.op = "answer" /\ last.req.op = "upload" /\ last.out = <<0>>) =>
        content.now[last.req.path] = last.req.data

(* The host is told that a sync went well only when the folder it names is *)
(* there (handlers.hpp:690, "Ensure target folder exists").                *)
SyncMakesFolder ==
    (last.op = "answer" /\ last.req.op = "sync" /\ last.st = "Ok") =>
        content.now[last.req.path] = IsDir
=============================================================================

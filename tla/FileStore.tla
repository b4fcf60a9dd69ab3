----------------------------- MODULE FileStore -----------------------------
(***************************************************************************)
(* What the file API of sgclib (api_functions.c) promises, without a card: *)
(* a tree of files and directories, a current directory and a table of     *)
(* descriptors.  SgcApi over FatFs is shown to implement it.               *)
(*                                                                         *)
(* call is the last call with its answer; a step is taken on behalf of the *)
(* call it records.  A call may fail only where its condition does not     *)
(* hold or where it needs space on the card, and then changes nothing.     *)
(*                                                                         *)
(* A power loss spares every file that the call it cut off did not work on *)
(* and that no descriptor had changed since it was last synchronised.      *)
(*                                                                         *)
(* Spec leaves open what the API documents and sgclib does not keep: where *)
(* most seeks go, the position after a sync, and the answer of a call that *)
(* was refused.  Those promises are the action properties at the end.      *)
(***************************************************************************)
EXTENDS Integers, Sequences

CONSTANTS Paths,      \* the absolute paths of the files and directories
          Fds,        \* the descriptors
          Bytes,      \* the values of a byte
          MaxFileSize \* the bytes of a file at most

VARIABLES tree,       \* path -> Absent, IsDir, Broken or a sequence of bytes
          handles,    \* descriptor -> Closed or an open file
          cwd,        \* the current directory, <<>> for the root
          call        \* the last call and its answer

storeVars == <<tree, handles, cwd, call>>

Absent == <<"none">>
IsDir  == <<"dir">>
Broken == <<"broken">>
Closed == [path |-> <<>>, pos |-> 0, r |-> FALSE, w |-> FALSE,
           dirty |-> FALSE]

IsFile(p) == tree[p] \notin {Absent, IsDir, Broken}
Parent(p) == SubSeq(p, 1, Len(p) - 1)
Room(p)   == Parent(p) = <<>> \/ (Parent(p) \in Paths
                                    /\ tree[Parent(p)] = IsDir)
Children(p) == {q \in Paths : Parent(q) = p /\ tree[q] # Absent}
Under(p, d) == Len(p) > Len(d) /\ SubSeq(p, 1, Len(d)) = d

(* The absolute path of a name: [abs |-> it begins with '/', seg]; ".." is *)
(* used alone.                                                             *)
At(n) == IF n.abs THEN n.seg
         ELSE IF n.seg = <<"..">> THEN (IF cwd = <<>> THEN cwd ELSE Parent(cwd))
         ELSE cwd \o n.seg

StoreInit == /\ tree = [p \in Paths |-> Absent]
             /\ handles = [f \in Fds |-> Closed]
             /\ cwd = <<>>
             /\ call = [op |-> "none"]

(* A call that fails, or that only looks.                                  *)
Look == UNCHANGED <<tree, handles, cwd>>

-----------------------------------------------------------------------------
(* Descriptors.                                                            *)
Creates(mode) == mode \cap {"NEW", "ALWAYS", "OPEN"} # {}
CanOpen(p, mode) ==
    /\ p \in Paths
    /\ IsFile(p) \/ (Creates(mode) /\ tree[p] = Absent /\ Room(p))
    /\ ~("NEW" \in mode /\ IsFile(p))

Open(c) ==
    LET p == At(c.path)
        fresh == tree[p] = Absent \/ "ALWAYS" \in c.mode
        old == IF fresh THEN <<>> ELSE tree[p]
    IN  /\ c.ret \in Fds /\ handles[c.ret] = Closed /\ CanOpen(p, c.mode)
        /\ tree' = [tree EXCEPT ![p] = old]
        /\ handles' = [handles EXCEPT ![c.ret] =
                         [path |-> p, r |-> "R" \in c.mode,
                          w |-> "W" \in c.mode, dirty |-> fresh,
                          pos |-> IF "END" \in c.mode THEN Len(old) ELSE 0]]
        /\ UNCHANGED cwd
OpenFails(c) ==
    /\ c.ret < 0 /\ Look
    /\ \/ \A f \in Fds : handles[f] # Closed
       \/ ~CanOpen(At(c.path), c.mode)
       \/ Creates(c.mode) /\ tree[At(c.path)] = Absent

Close(c) == /\ handles[c.fd] # Closed /\ c.ret = 0
            /\ handles' = [handles EXCEPT ![c.fd] = Closed]
            /\ UNCHANGED <<tree, cwd>>

(* The bytes read are those of the file, as many as there are; none of a   *)
(* descriptor that is not open for reading.                                *)
Read(c) ==
    LET h == handles[c.fd]
        left == Len(tree[h.path]) - h.pos
        k == IF ~h.r THEN 0 ELSE IF c.len < left THEN c.len ELSE left
    IN  /\ h # Closed
        /\ c.bytes = SubSeq(tree[h.path], h.pos + 1, h.pos + k)
        /\ h.r => c.ret = k
        /\ handles' = [handles EXCEPT ![c.fd].pos = @ + k]
        /\ UNCHANGED <<tree, cwd>>

Overwritten(s, pos, bytes) ==
    [i \in 1 .. (IF pos + Len(bytes) > Len(s) THEN pos + Len(bytes)
                 ELSE Len(s)) |->
        IF i > pos /\ i <= pos + Len(bytes) THEN bytes[i - pos] ELSE s[i]]

(* The first c.ret bytes are written: not all only when the card is full or*)
(* the file as long as it can be, and none through a descriptor that is not*)
(* open for writing.                                                       *)
Write(c) ==
    LET h == handles[c.fd]
        k == IF h.w THEN c.ret ELSE 0
    IN  /\ h # Closed /\ k \in 0 .. Len(c.data)
        /\ h.pos + k <= MaxFileSize
        /\ tree' = [tree EXCEPT ![h.path] =
                      Overwritten(@, h.pos, SubSeq(c.data, 1, k))]
        /\ handles' = [handles EXCEPT ![c.fd].pos = @ + k,
                                      ![c.fd].dirty = @ \/ h.w]
        /\ UNCHANGED cwd

(* Where a seek is asked to go, and where it arrives: not past the end of a*)
(* file that is not open for writing, nor further than there is space; of a*)
(* place that no file has nothing is said.                                 *)
Asked(h, size, c) == c.offset + (CASE c.whence = "SET" -> 0
                                   [] c.whence = "CUR" -> h.pos
                                   [] c.whence = "END" -> size)
Arrives(c) ==
    LET h == handles[c.fd]
        size == Len(tree[h.path])
        to == Asked(h, size, c)
    IN  \/ to > MaxFileSize
        \/ c.ret = to
        \/ c.ret = size /\ to > size /\ ~h.w
        \/ c.ret \in 0 .. to /\ to > size /\ h.w

(* A seek saves what was written, keeps the file's bytes, and past the end *)
(* of a file open for writing grows it by any bytes.  Where it goes is left*)
(* to SeekAsAsked, but for the pairs of offset and origin on which the     *)
(* switch of sgc_seek goes where it is asked.                              *)
Kept == {<<0, "SET">>, <<1, "CUR">>, <<2, "END">>}
Seek(c) ==
    LET h == handles[c.fd]
        s == tree[h.path]
    IN  /\ h # Closed
        /\ <<c.offset, c.whence>> \in Kept => Arrives(c)
        /\ c.ret > Len(s) => h.w
        /\ \E t \in [Len(s) + 1 .. c.ret -> Bytes] :
              tree' = [tree EXCEPT ![h.path] =
                         [i \in 1 .. (IF c.ret > Len(s) THEN c.ret
                                      ELSE Len(s)) |->
                            IF i <= Len(s) THEN s[i] ELSE t[i]]]
        /\ handles' = [handles EXCEPT ![c.fd].pos = c.ret,
                                      ![c.fd].dirty = c.ret > Len(s)]
        /\ UNCHANGED cwd

(* A sync saves what was written; where it leaves the descriptor is left to*)
(* SyncStays.                                                              *)
Sync(c) ==
    /\ handles[c.fd] # Closed
    /\ \E at \in 0 .. Len(tree[handles[c.fd].path]) :
          handles' = [handles EXCEPT ![c.fd].pos = at, ![c.fd].dirty = FALSE]
    /\ UNCHANGED <<tree, cwd>>

Truncate(c) ==
    LET h == handles[c.fd]
        cut == h.w /\ h.pos < Len(tree[h.path])
    IN  /\ h # Closed /\ c.ret = h.pos
        /\ tree' = [tree EXCEPT ![h.path] =
                      IF cut THEN SubSeq(@, 1, h.pos) ELSE @]
        /\ handles' = [handles EXCEPT ![c.fd].dirty = @ \/ cut]
        /\ UNCHANGED cwd

-----------------------------------------------------------------------------
(* Names.                                                                  *)
CanUnlink(p) == /\ p \in Paths /\ tree[p] # Absent /\ cwd # p
                /\ tree[p] = IsDir => Children(p) = {}
Unlink(c) == /\ CanUnlink(At(c.path))
             /\ tree' = [tree EXCEPT ![At(c.path)] = Absent]
             /\ UNCHANGED <<handles, cwd>>

CanMkdir(p) == p \in Paths /\ tree[p] = Absent /\ Room(p)
Mkdir(c) == /\ CanMkdir(At(c.path))
            /\ tree' = [tree EXCEPT ![At(c.path)] = IsDir]
            /\ UNCHANGED <<handles, cwd>>

(* An object moves to a name that is free, with what is below it.          *)
CanRename(old, new) == /\ old \in Paths /\ new \in Paths
                       /\ tree[old] # Absent
                       /\ tree[new] = Absent \/ new = old
                       /\ Room(new)
Relocated(p, old, new) ==
    IF p = old \/ Under(p, old) THEN new \o SubSeq(p, Len(old) + 1, Len(p))
    ELSE p
Moved(p, old, new) ==
    LET from == {q \in Paths : Relocated(q, old, new) = p
                                 /\ tree[q] # Absent}
    IN  IF from = {} THEN Absent ELSE tree[CHOOSE q \in from : TRUE]
Rename(c) ==
    LET old == At(c.path)
        new == At(c.to)
    IN  /\ CanRename(old, new)
        /\ tree' = [p \in Paths |-> Moved(p, old, new)]
        /\ handles' = [f \in Fds |->
                         [handles[f] EXCEPT !.path = Relocated(@, old, new)]]
        /\ cwd' = Relocated(cwd, old, new)

IsFolder(p) == p = <<>> \/ (p \in Paths /\ tree[p] = IsDir)
Chdir(c) ==
    /\ IF IsFolder(At(c.path)) THEN cwd' = At(c.path) /\ c.ret = 0
       ELSE cwd' = cwd
    /\ UNCHANGED <<tree, handles>>
Opendir(c) == Look /\ (IsFolder(At(c.path)) => c.ret = 0)

(* The size is that of the directory entry: of a file with unsaved changes *)
(* nothing is said.                                                        *)
Stat(c) ==
    LET p == At(c.path)
        there == p \in Paths /\ tree[p] # Absent
        unsaved == \E f \in Fds : handles[f].path = p /\ handles[f].dirty
    IN  /\ Look
        /\ (c.res = "OK") = there
        /\ there => c.isdir = (tree[p] = IsDir)
        /\ (there /\ IsFile(p) /\ ~unsaved) => c.size = Len(tree[p])

-----------------------------------------------------------------------------
(* The files that a power loss may damage: those with unsaved changes, and *)
(* those that the call it cuts off works on.                               *)
AtRisk(c) == {handles[f].path : f \in {g \in Fds : handles[g].dirty}}
             \union c.on

PowerLoss(c) == /\ tree' \in [Paths -> Seq(Bytes) \union
                                          {Absent, IsDir, Broken}]
                /\ \A p \in Paths \ AtRisk(c) : tree'[p] = tree[p]
                /\ handles' = [f \in Fds |-> Closed]
                /\ cwd' = <<>>

-----------------------------------------------------------------------------
(* The calls, by what fields they have.                                    *)
Serve(c) ==
    \/ c.op = "init" /\ Look
    \/ c.op = "open" /\ (Open(c) \/ OpenFails(c))
    \/ c.op = "close" /\ Close(c)
    \/ c.op = "read" /\ Read(c)
    \/ c.op = "write" /\ Write(c)
    \/ c.op = "seek" /\ Seek(c)
    \/ c.op = "sync" /\ Sync(c)
    \/ c.op = "truncate" /\ Truncate(c)
    \/ c.op = "unlink" /\ c.res = "OK" /\ Unlink(c)
    \/ c.op = "unlink" /\ c.res # "OK" /\ Look /\ ~CanUnlink(At(c.path))
    \/ c.op = "mkdir" /\ c.res = "OK" /\ Mkdir(c)
    \/ c.op = "mkdir" /\ c.res # "OK" /\ Look
         /\ (~CanMkdir(At(c.path)) \/ c.res = "DENIED")
    \/ c.op = "rename" /\ c.res = "OK" /\ Rename(c)
    \/ c.op = "rename" /\ c.res # "OK" /\ Look
         /\ (~CanRename(At(c.path), At(c.to)) \/ c.res = "DENIED")
    \/ c.op = "chdir" /\ Chdir(c)
    \/ c.op = "stat" /\ Stat(c)
    \/ c.op = "opendir" /\ Opendir(c)
    \/ c.op = "badfd" /\ handles[c.fd] = Closed /\ c.ret < 0 /\ Look
    \/ c.op = "getcwd" /\ Look
         /\ IF Len(cwd) <= c.room THEN c.res = "OK" /\ c.names = cwd
            ELSE c.res = "NOT_ENOUGH_CORE"
    \/ c.op = "cut" /\ PowerLoss(c)

Next == Serve(call')
Spec == StoreInit /\ [][Next]_storeVars

-----------------------------------------------------------------------------
(* Every seek goes to the byte that its offset and origin name             *)
(* (api_functions.c:109, "Seek to a byte on an fd"; sgclib.h:18-20, 81).   *)
SeekAsAsked == [][call'.op = "seek" => Arrives(call')]_storeVars

(* A sync only flushes (api_functions.c:170, "Flush any buffered data to   *)
(* file"): the next read or write goes on where the last one ended.        *)
SyncStays == [][call'.op = "sync" =>
                  handles'[call'.fd].pos = handles[call'.fd].pos]_storeVars

(* A directory that could not be entered or opened is answered with an     *)
(* error (srl_devcart_sdcard.hpp:62 and 128, "SGC_FR_OK (0) on success").  *)
ZeroMeansFolder == [][(call'.op \in {"chdir", "opendir"} /\ call'.ret = 0)
                        => IsFolder(At(call'.path))]_storeVars

(* A read or write that the descriptor's mode forbids is answered with an  *)
(* error (srl_devcart_sdcard.hpp:95 and 107, "negative value on error").   *)
Forbidden(c) == \/ c.op = "read" /\ ~handles[c.fd].r
                \/ c.op = "write" /\ ~handles[c.fd].w
ForbiddenIsNegative == [][Forbidden(call') => call'.ret < 0]_storeVars
=============================================================================

----------------------------- MODULE FatVolume -----------------------------
(***************************************************************************)
(* What a FAT volume means: the reading of a card's sectors that the       *)
(* properties of the modules over FatFs are stated with.  It follows the   *)
(* FAT format and calls none of the functions of ff.c that the FatFs       *)
(* module models, so that these are checked against it.                    *)
(*                                                                         *)
(* m is a card: sector number -> contents.  "fils" is a set of FIL records *)
(* whose first cluster and size stand for those of their directory entry.  *)
(***************************************************************************)
EXTENDS FatFs, FiniteSets

(* The card with the window's dirty sector in its place: what the running  *)
(* program sees.                                                           *)
Seen(m, f) == IF f.type # 0 /\ f.wflag THEN [m EXCEPT ![f.winsect] = f.win]
              ELSE m

FatEntry(m, c) == m[FatBase + c \div FatEntriesPerSector]
                      .e[c % FatEntriesPerSector]

(* The chain from cluster c; it ends with 0 where it leaves the volume or  *)
(* meets a free cluster, and is cut where it is longer than the volume.    *)
Link(m, c) == IF c < 2 \/ c >= NFatEnt \/ FatEntry(m, c) = 0 THEN 0 ELSE c
Linked(m, ch) ==
    LET c == ch[Len(ch)]
    IN  IF c = 0 \/ FatEntry(m, c) >= NFatEnt THEN ch
        ELSE Append(ch, Link(m, FatEntry(m, c)))
ChainOf(m, c) ==
    LET chain[k \in 0..Clusters] ==
          IF k = 0 THEN <<Link(m, c)>>
          ELSE With(chain[k - 1], LAMBDA ch : Linked(m, ch))
    IN  IF c = 0 THEN <<>> ELSE chain[Clusters]

SetOf(s) == {s[i] : i \in DOMAIN s}

(* The sectors of a chain's clusters, a 0 at its end left out, and the     *)
(* bytes in a list of sectors.                                             *)
SectsOf(ch) ==
    LET n == IF ch # <<>> /\ ch[Len(ch)] = 0 THEN Len(ch) - 1 ELSE Len(ch)
    IN  [i \in 1 .. n * ClusterSectors |->
           clst2sect(ch[1 + (i - 1) \div ClusterSectors])
             + ((i - 1) % ClusterSectors)]

BytesIn(m, ss) ==
    [i \in 1 .. Len(ss) * SectorBytes |->
       BytesOf(m[ss[1 + (i - 1) \div SectorBytes]])[1 + ((i - 1) % SectorBytes)]]

(* The sectors of the directory whose first cluster is c, 0 for the root.  *)
TableSects(m, c) ==
    IF c = 0 /\ FatType = 2
    THEN [i \in 1 .. DataBase - RootSect |-> RootSect + i - 1]
    ELSE SectsOf(ChainOf(m, IF c = 0 THEN RootClust ELSE c))

(* The object in slot i of sector s, the table's slot number k, as the     *)
(* files that are open have it.                                            *)
ObjectIn(m, fils, k, s, i) ==
    LET e == EntriesOf(m[s])[i]
        mine == {x \in fils : x.dsect = s /\ x.dptr = i}
        x == CHOOSE x \in mine : TRUE
    IN  [at |-> <<s, i>>, k |-> k, nm |-> e.nm, dir |-> e.dir,
         cl |-> IF mine = {} THEN e.cl ELSE x.sclust,
         sz |-> IF mine = {} THEN e.sz ELSE x.size]

(* The slots of the table in sectors ss, in order.                         *)
Slots(m, fils, ss) ==
    [k \in 1 .. Len(ss) * DirEntriesPerSector |->
       ObjectIn(m, fils, k, ss[1 + (k - 1) \div DirEntriesPerSector],
                (k - 1) % DirEntriesPerSector)]

(* The objects of a directory: the slots before the first free one that    *)
(* hold a name, dot entries left out.                                      *)
Objects(m, fils, c) ==
    With(With(TableSects(m, c), LAMBDA ss : Slots(m, fils, ss)), LAMBDA at :
      {at[k] : k \in {j \in DOMAIN at :
                        /\ at[j].nm \notin {Deleted, ".", ".."}
                        /\ \A i \in 1..j : at[i].nm # ""}})

(* All objects of the volume; directories are nested "depth" deep at most. *)
AllObjects(m, fils, depth) ==
    LET level[k \in 0..depth] ==     \* those k directories deep
          IF k = 0 THEN Objects(m, fils, 0)
          ELSE UNION {Objects(m, fils, e.cl) :
                         e \in {x \in level[k - 1] : x.dir}}
    IN  UNION {level[k] : k \in 0..depth}

(* The first of the objects of a table that has a name, if there is one.   *)
FirstNamed(objs, nm) ==
    {o \in objs : o.nm = nm /\ \A x \in objs : x.nm = nm => o.k <= x.k}

(* The object, if any, that a list of names leads to from the root.        *)
ObjectsAt(m, fils, names) ==
    LET found[k \in 1..Len(names)] ==
          IF k = 1 THEN FirstNamed(Objects(m, fils, 0), names[1])
          ELSE UNION {FirstNamed(Objects(m, fils, o.cl), names[k]) :
                         o \in {x \in found[k - 1] : x.dir}}
    IN  found[Len(names)]

-----------------------------------------------------------------------------
(* The contents of an object: <<"none">>, <<"dir">>, the bytes of a file,  *)
(* or <<"broken">> if its chain does not hold them.                        *)
Absent == <<"none">>
IsDir  == <<"dir">>
Broken == <<"broken">>

Covers(m, e) ==
    With(ChainOf(m, e.cl), LAMBDA ch :
      0 \notin SetOf(ch) /\ e.sz <= Len(ch) * ClusterBytes)
BytesOfFile(m, e) ==
    IF Covers(m, e)
    THEN SubSeq(BytesIn(m, SectsOf(ChainOf(m, e.cl))), 1, e.sz) ELSE Broken

Contents(m, fils, names) ==
    With(ObjectsAt(m, fils, names), LAMBDA found :
      IF found = {} THEN Absent
      ELSE With(CHOOSE o \in found : TRUE, LAMBDA o :
             IF o.dir THEN IsDir ELSE BytesOfFile(m, o)))

-----------------------------------------------------------------------------
(* The soundness of a volume.                                              *)
Allocated(m, fils, depth) == {o \in AllObjects(m, fils, depth) : o.cl # 0}
Heads(objs) == {o.cl : o \in objs}
                   \union (IF FatType = 3 THEN {RootClust} ELSE {})

(* A chain that ends well: no cluster of it is free or met twice.          *)
WellFormed(m, c) ==
    With(ChainOf(m, c), LAMBDA ch :
      /\ 0 \notin SetOf(ch)
      /\ Cardinality(SetOf(ch)) = Len(ch)
      /\ FatEntry(m, ch[Len(ch)]) >= NFatEnt)

(* No cluster is in two chains, or twice in one, and none is free; two     *)
(* slots share no first cluster.                                           *)
NoCrossLinks(m, fils, depth) ==
    \E objs \in {Allocated(m, fils, depth)} :
      \E chains \in {[c \in Heads(objs) |-> SetOf(ChainOf(m, c))]} :
        /\ \A a, b \in objs : a.cl = b.cl => a.at = b.at
        /\ \A c \in DOMAIN chains : WellFormed(m, c)
        /\ \A a, b \in DOMAIN chains : a # b => chains[a] \cap chains[b] = {}

(* Every cluster that is not free belongs to some object.                  *)
NoLostClusters(m, fils, depth) ==
    \E heads \in {Heads(Allocated(m, fils, depth))} :
      \A c \in 2 .. NFatEnt - 1 :
        FatEntry(m, c) # 0 => \E h \in heads : c \in SetOf(ChainOf(m, h))

(* Every file's chain is as long as its size says.                         *)
SizesCovered(m, fils, depth) ==
    \A e \in AllObjects(m, fils, depth) :
       e.dir \/ Covers(m, e)

(* No table shows bytes that nobody wrote as directory entries.            *)
NoJunkEntries(m, depth) ==
    \A e \in AllObjects(m, {}, depth) : e.nm # JUNK

(* The FAT and its copy are the same.                                      *)
FatCopiesSame(m) ==
    FatCopies = 2 =>
       \A s \in FatBase .. FatBase + FatSize - 1 : m[s] = m[s + FatSize]

FreeClusters(m) == Cardinality({c \in 2 .. NFatEnt - 1 : FatEntry(m, c) = 0})
=============================================================================

-------------------------------- MODULE MiFS --------------------------------
(***************************************************************************)
(* The FUSE file system "miFS": one directory, files that can be made,     *)
(* written and truncated, and no way to remove or to read one.  FUSE runs  *)
(* with the option -s, as in the example of its usage: one call at a time, *)
(* so every call is one action, with all the ways in which it can end.     *)
(* Every run formats the disk, so what is on it is never read back, except *)
(* the data of files.                                                      *)
(*                                                                         *)
(* Writing a block of data can fail, because the disk is a sparse file of  *)
(* the host; writing the structures is taken to work, and the code ignores *)
(* the result.  Where it fails while the size of a file changes, the call  *)
(* returns -EIO with the tables half changed, and the next calls work with *)
(* these: the file may refer to blocks that are free for others.  The      *)
(* model stops, in the status "lost", only where the code indexes with a   *)
(* number nobody wrote or runs past the end of an array.                   *)
(*                                                                         *)
(* FitsInHalf, TailKept, OffsetKept, LessTaken, NoMap, Reused and SameName *)
(* are plausible mistakes; nothing uses them.                              *)
(***************************************************************************)
EXTENDS Integers, Sequences, FiniteSets, FiniteSetsExt, Functions

CONSTANTS
    Name, LongName,  \* names of files, and those longer than 15 characters
    Bytes, Offset,   \* the bytes of one write; offsets and sizes of a call
    NumEntries,      \* MAX_ARCHIVOS_POR_DIRECTORIO
    NumNodes,        \* MAX_NODOSI
    NumBlocks,       \* tamDiscoEnBloques
    NumBits,         \* NUM_BITS
    Reserved,        \* the blocks of super block, map, directory and nodes
    MaxFileBlocks,   \* MAX_BLOQUES_POR_ARCHIVO
    BlockSize,       \* TAM_BLOQUE_BYTES
    Null, Junk       \* a null pointer or free entry; a byte nobody wrote

\* myMkfs returns -1 or -2 for a disk of any other size.
ASSUME MiFSAssumption ==
    /\ LongName \subseteq Name /\ Offset \subseteq Nat /\ Bytes \subseteq Seq(Nat)
    /\ NumEntries \in Nat \ {0} /\ NumNodes \in Nat \ {0}
    /\ BlockSize \in Nat \ {0} /\ MaxFileBlocks \in Nat
    /\ Reserved \in Nat /\ NumBlocks \in Nat /\ NumBits \in Nat
    /\ NumBlocks > Reserved /\ NumBits > NumBlocks

\* The values that stand for nothing are none of the others.
ASSUME NothingAssumption ==
    /\ Null \notin Nat \cup Seq(Nat) /\ Junk \notin Seq(Nat)
    /\ Null \notin [name : Name, node : Nat]
    /\ Null \notin [size : Nat, num : Nat, idx : [1 .. MaxFileBlocks -> Nat \cup {Null}]]

Entry == 0 .. NumEntries - 1
Inode == 0 .. NumNodes - 1
Block == 0 .. NumBits - 1

VARIABLES
    dir,        \* directorio.archivos: [name, node], or Null if libre
    numFiles,   \* directorio.numArchivos
    freeNodes,  \* numNodosLibres
    vol,        \* node: nodosI, each Null or [size, num, idx]: tamArchivo, numBloques
                \* and idxBloques, with Null for what nobody wrote;
                \* used: the bits that are set; free: numBloquesLibres;
                \* data: the bytes of each block
    disk,       \* the copies of the structures on the disk
    faults,     \* what has happened that the promise excludes
    status      \* "running" or "lost"

vars == <<dir, numFiles, freeNodes, vol, disk, faults, status>>

Quota(bits) == Cardinality((0 .. NumBlocks - 1) \ bits)

Zeros == [p \in 0 .. BlockSize - 1 |-> 0]

\* main, myMkfs, initSuperBloque, initNodosI
Init ==
    /\ dir = [e \in Entry |-> Null]
    /\ numFiles = 0
    /\ freeNodes = NumNodes
    /\ vol = [node |-> [i \in Inode |-> Null],
              used |-> 0 .. Reserved - 1,
              free |-> Quota(0 .. Reserved - 1),
              data |-> [b \in Block |-> [p \in 0 .. BlockSize - 1 |-> Junk]]]
    /\ disk = [dir |-> dir, numFiles |-> 0,
               node |-> vol.node, used |-> vol.used, free |-> vol.free]
    /\ faults = {}
    /\ status = "running"

\* buscaPosDirectorio, buscaPosDirLibre, buscaNodoLibre
Listed(n) == \E e \in Entry : dir[e] # Null /\ dir[e].name = n
Pos(n)    == Min({e \in Entry : dir[e] # Null /\ dir[e].name = n})
FreeEntries == {e \in Entry : dir[e] = Null}
FreeNodes   == {i \in Inode : vol.node[i] = Null}
-----------------------------------------------------------------------------
SameName(n) == n \notin LongName /\ freeNodes > 0 /\ numFiles < NumEntries

\* The four tests of my_mknod
MayCreate(n) ==
    /\ n \notin LongName           \* -ENAMETOOLONG
    /\ freeNodes > 0               \* -ENOSPC
    /\ numFiles < NumEntries       \* -ENOSPC
    /\ ~Listed(n)                  \* -EEXIST

\* my_mknod.  The super block is not written: it does not change.
Mknod(n) ==
    /\ status = "running" /\ MayCreate(n)
    /\ FreeNodes # {} /\ FreeEntries # {}
    /\ dir' = [dir EXCEPT ![Min(FreeEntries)] = [name |-> n, node |-> Min(FreeNodes)]]
    /\ numFiles' = numFiles + 1
    /\ freeNodes' = freeNodes - 1
    /\ vol' = [vol EXCEPT !.node[Min(FreeNodes)] = [size |-> 0, num |-> 0,
                                             idx |-> [j \in 1 .. MaxFileBlocks |-> Null]]]
    /\ disk' = [disk EXCEPT !.dir = dir', !.numFiles = numFiles', !.node = vol'.node]
    /\ UNCHANGED <<faults, status>>
-----------------------------------------------------------------------------
(* A call on node i ends in one of several ways: a record of the volume,   *)
(* and of res: "ok", "same" (nothing to do), "full", the fault that        *)
(* stopped it, or "lost".                                                  *)
End(v, r) == [vol |-> v, res |-> r]

FitsInHalf(size) == size \div BlockSize

NumBlocksOf(size) == (size + BlockSize - 1) \div BlockSize

TailKept(v, nd, size) == v

\* The growing file is filled up with zeros in its last block.
TailCleared(v, nd, size) ==
    LET first == nd.size % BlockSize IN
    [v EXCEPT !.data[nd.idx[nd.num]] = [p \in DOMAIN @ |->
        IF p \in first .. first + size - nd.size - 1 THEN 0 ELSE @[p]]]

\* newBloques can be negative, after a growth that failed.
RoomFor(v, more) == more <= v.free

Reused(v, n) == [k \in 1 .. n |-> Reserved + k - 1]

\* The blocks the scan of the map takes: the first n bits that are not set
FirstFit(v, n) ==
    LET f[k \in 0 .. n] ==
            IF k = 0 THEN <<>>
            ELSE Append(f[k - 1], Min(Block \ (v.used \cup Range(f[k - 1]))))
    IN  f[n]

LessTaken(v, i, num, bs) == v.free - Len(bs)

\* The count has already been lowered when the scan begins.
LessAsked(v, i, num, bs) == v.free - (num - v.node[i].num)

\* The scan has taken the blocks bs and erased the first n of them.
Grown(v, i, num, bs, n) ==
    LET was == v.node[i].num IN
    [v EXCEPT !.used = @ \cup Range(bs),
              !.free = LessAsked(v, i, num, bs),
              !.node[i].num = num,
              !.node[i].idx = [j \in DOMAIN @ |->
                                  IF j \in was + 1 .. was + Len(bs) THEN bs[j - was] ELSE @[j]],
              !.data = [b \in Block |->
                           IF b \in Range(SubSeq(bs, 1, n)) THEN Zeros ELSE @[b]]]

\* The scan when it takes more blocks, after the file was filled up
Take(v, i, size, more) ==
    LET num == v.node[i].num + more
        bs  == FirstFit(v, more)
    IN  {End([Grown(v, i, num, bs, more) EXCEPT !.node[i].size = size], "ok")} \cup
        {End(Grown(v, i, num, SubSeq(bs, 1, n), n - 1), "grow") : n \in 1 .. more}

\* The scan of the map has no bound: it ends when it has taken more blocks.
RunsOff(v, more) == more < 0 \/ more > Cardinality(Block \ v.used)

\* resizeInodo, when the file grows
Grow(v, i, size) ==
    LET nd   == v.node[i]
        more == NumBlocksOf(size) - nd.num
        half == nd.num > 0 /\ nd.size % BlockSize # 0
        w    == IF half THEN TailCleared(v, nd, size) ELSE v
    IN  IF half /\ nd.idx[nd.num] = Null THEN {End(v, "lost")}
        ELSE (IF half THEN {End(v, "data")} ELSE {}) \cup
             (IF more = 0 THEN {End([w EXCEPT !.node[i].size = size], "ok")}
              ELSE IF ~RoomFor(v, more) THEN {End(w, "full")}
              ELSE IF nd.num + more > MaxFileBlocks THEN {End(w, "large")}
              ELSE IF RunsOff(v, more) THEN {End(w, "lost")}
              ELSE Take(w, i, size, more))

Regained(v, i, keep) == v.free + v.node[i].num - keep

\* The last blocks of the file, from its end to block n, are free, and all
\* but the first m of these have been erased.
Cut(v, i, keep, n, m) ==
    LET idx == v.node[i].idx IN
    [v EXCEPT !.free = Regained(v, i, keep),
              !.used = @ \ {idx[j] : j \in n .. v.node[i].num},
              !.data = [b \in Block |->
                  IF \E j \in n + m .. v.node[i].num : idx[j] = b THEN Zeros ELSE @[b]]]

\* resizeInodo, when the file shrinks
Shrink(v, i, size) ==
    LET keep == NumBlocksOf(size)
        nd   == v.node[i]
    IN  IF \E j \in keep + 1 .. nd.num : nd.idx[j] = Null THEN {End(v, "lost")}
        ELSE
        {End([Cut(v, i, keep, keep + 1, 0) EXCEPT
                  !.node[i].num = keep, !.node[i].size = size], "ok")} \cup
        {End(Cut(v, i, keep, n, 1), "shrink") : n \in keep + 1 .. nd.num}

\* resizeInodo
Resize(v, i, size) ==
    IF size = v.node[i].size THEN {End(v, "same")}
    ELSE IF size > v.node[i].size THEN Grow(v, i, size) ELSE Shrink(v, i, size)
-----------------------------------------------------------------------------
OffsetKept(offset, k) == <<offset \div BlockSize, (offset + k) % BlockSize>>

(* Where the loop of my_write puts byte k of a write: the index in         *)
(* idxBloques, and the position in the block.  The loop adds to the offset *)
(* the position at which it stopped in the block, not the bytes it wrote,  *)
(* so every pass starts at the position in the block of the first one.     *)
Place(offset, k) ==
    LET first == offset % BlockSize
    IN  <<(offset \div BlockSize) + (k \div (BlockSize - first)),
          first + (k % (BlockSize - first))>>

\* A write that is not in one block and does not start at the start of one
Across(offset, bytes) ==
    offset % BlockSize # 0 /\ (offset % BlockSize) + Len(bytes) > BlockSize

\* A write into the middle of the file: the resize cuts off what follows it.
CutsOff(i, offset, bytes) == offset + Len(bytes) < vol.node[i].size

\* The loop of my_write has written the first n bytes, to the node nd.
Put(v, nd, offset, bytes, n) ==
    LET Here(b, p) == {k \in 0 .. n - 1 :
            nd.idx[Place(offset, k)[1] + 1] = b /\ Place(offset, k)[2] = p}
    IN  [v EXCEPT !.data = [b \in Block |-> [p \in 0 .. BlockSize - 1 |->
            IF Here(b, p) = {} THEN @[b][p] ELSE bytes[Max(Here(b, p)) + 1]]]]

\* my_write after the resize: the writing of a block can fail.
PutAll(v, i, offset, bytes) ==
    LET nd   == v.node[i]
        last == Place(offset, Len(bytes) - 1)[1]
        Before(c) == Cardinality({k \in 0 .. Len(bytes) - 1 : Place(offset, k)[1] < c})
    IN  IF \E j \in offset \div BlockSize .. last : j >= MaxFileBlocks \/ nd.idx[j + 1] = Null THEN {End(v, "lost")}
        ELSE {End(Put(v, nd, offset, bytes, Len(bytes)), "ok")} \cup
             {End(Put(v, nd, offset, bytes, Before(c)), "data") :
                 c \in offset \div BlockSize .. last}

NoMap(d, i) == [d EXCEPT !.free = vol'.free, !.node[i] = vol'.node[i]]

\* escribeSuperBloque, escribeMapaDeBits, escribeNodoI
Saved(d, i) == [d EXCEPT !.free = vol'.free, !.used = vol'.used, !.node[i] = vol'.node[i]]

\* What an end says of the disk: a write of it failed.  Bound: at most one
\* call fails in this way in a behaviour.
Refusals == {"grow", "shrink", "data"}

Finish(i, o, save, also) ==
    /\ o.res \in Refusals => Refusals \cap faults = {}
    /\ vol' = o.vol
    /\ disk' = IF save THEN Saved(disk, i) ELSE disk
    /\ faults' = faults \cup also \cup ({o.res} \cap (Refusals \cup {"large"}))
    /\ status' = IF o.res \in {"lost", "large"} THEN "lost" ELSE status
    /\ UNCHANGED <<dir, numFiles, freeNodes>>

\* my_truncate
Truncate(n, size) ==
    /\ status = "running" /\ Listed(n)
    /\ LET i == dir[Pos(n)].node IN
       \E o \in Resize(vol, i, size) : Finish(i, o, o.res = "ok", {})

\* my_write, on a file that my_open has found.  The first resize saves too:
\* only a fault or an end in the loop leaves that copy as the last one.
Write(n, offset, bytes) ==
    /\ status = "running" /\ Listed(n)
    /\ LET i == dir[Pos(n)].node IN
       \E o \in Resize(vol, i, offset + Len(bytes)) :
          IF o.res \notin {"ok", "same"} THEN Finish(i, o, FALSE, {})
          ELSE \E p \in PutAll(o.vol, i, offset, bytes) :
                  Finish(i, p, o.res = "ok" \/ p.res = "ok",
                         (IF Across(offset, bytes) THEN {"across"} ELSE {}) \cup
                         (IF CutsOff(i, offset, bytes) THEN {"cut"} ELSE {}))

Next == \E n \in Name :
    \/ Mknod(n)
    \/ \E s \in Offset : Truncate(n, s) \/ \E bytes \in Bytes : Write(n, s, bytes)

Spec == Init /\ [][Next]_vars
-----------------------------------------------------------------------------
\* The blocks a node refers to
Owned(i) == IF vol.node[i] = Null THEN {}
            ELSE {vol.node[i].idx[j] : j \in 1 .. vol.node[i].num} \ {Null}

TypeOK ==
    /\ \A e \in Entry : dir[e] = Null \/ dir[e] \in [name : Name \ LongName, node : Inode]
    /\ numFiles \in 0 .. NumEntries /\ freeNodes \in 0 .. NumNodes
    /\ \A i \in Inode : vol.node[i] # Null => vol.node[i] \in
           [size : Nat, num : 0 .. MaxFileBlocks, idx : [1 .. MaxFileBlocks -> Block \cup {Null}]]
    /\ vol.used \subseteq Block /\ vol.free \in Nat
    /\ faults \subseteq Refusals \cup {"large", "across", "cut"}
    /\ status \in {"running", "lost"}

(* Every name in the directory is there once and has a node of its own,    *)
(* and the two counters that my_mknod tests are exact.                     *)
DirectoryIsExact ==
    LET In == {e \in Entry : dir[e] # Null} IN
    /\ \A e, f \in In : e # f => dir[e].name # dir[f].name /\ dir[e].node # dir[f].node
    /\ {dir[e].node : e \in In} = Inode \ FreeNodes
    /\ numFiles = Cardinality(In)
    /\ freeNodes = Cardinality(FreeNodes)

\* No change of the size of a file has failed half way.
NoneHalfDone == {"grow", "shrink"} \cap faults = {}

(* No block is in two files or in one file twice, and the blocks of files  *)
(* are the ones marked, also after a write across blocks and after a call  *)
(* that failed while it wrote data.                                        *)
OneOwner == status = "running" /\ NoneHalfDone =>
    /\ \A i, j \in Inode : i # j => Owned(i) \cap Owned(j) = {}
    /\ \A i \in Inode \ FreeNodes : Cardinality(Owned(i)) = vol.node[i].num
    /\ vol.used = 0 .. Reserved - 1 \cup UNION {Owned(i) : i \in Inode}
    /\ \A i \in Inode : Owned(i) \cap 0 .. Reserved - 1 = {}

(* The count of free blocks, by which a file may grow, is the one of the   *)
(* map.  After a growth that failed, and whatever is done with that file   *)
(* and the others from then on, it may be too small, but not too large: as *)
(* long as the program runs, the scan for the blocks that the count allows *)
(* finds them.                                                             *)
FreeCountIsSafe == status = "running" =>
    /\ NoneHalfDone => vol.free = Quota(vol.used)
    /\ "shrink" \notin faults => vol.free <= Quota(vol.used)

(* Between calls the disk holds the structures of the memory, also after a *)
(* call that could not get the space it asked for or failed in the data.   *)
DiskIsCurrent == status = "running" /\ NoneHalfDone =>
    disk = [dir |-> dir, numFiles |-> numFiles,
            node |-> vol.node, used |-> vol.used, free |-> vol.free]

(* A call leaves the tables of the memory and of the disk in agreement.    *)
Structures == TypeOK /\ DirectoryIsExact /\ OneOwner /\ DiskIsCurrent

(* The tests before a change of size are enough: the program only follows  *)
(* an index that nobody wrote, or runs past the end of the map, after a    *)
(* change of size that failed, a write across blocks, or when a file gets  *)
(* more blocks than a node has room for, which nothing tests.              *)
LostOnlyAfterFault == status = "lost" => faults \ {"data", "cut"} # {}

Contents(nd) == [k \in 1 .. nd.size |->
    vol.data[nd.idx[((k - 1) \div BlockSize) + 1]][(k - 1) % BlockSize]]

Store == INSTANCE ByteStore WITH
    Absent <- Null, Unknown <- Junk,
    files <- [n \in Name |-> IF faults # {} THEN Junk
                             ELSE IF ~Listed(n) THEN Null
                             ELSE Contents(vol.node[dir[Pos(n)].node])]

\* Holes and grown files read as zeros and never as what another file left
\* in the block, and a write changes the bytes it says it does.  Nothing is
\* promised after a fault, a write that cuts a file off among them.
Refines == Store!Spec
=============================================================================

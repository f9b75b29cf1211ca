------------------------------ MODULE ImportFS ------------------------------
(***************************************************************************)
(* "MiSistemaDeFicheros": a file system in a file of the host, with a      *)
(* shell that imports, exports, lists and removes files.  Every command    *)
(* works on the structures in memory and writes the ones it changed to the *)
(* virtual disk; the disk is only read for the data of files, and every    *)
(* run of the program formats it.  A file is a sequence of bytes, and a    *)
(* block holds BlockSize of them.                                          *)
(*                                                                         *)
(* An access through a null or foreign pointer ends the program here.      *)
(* Writing to the virtual disk always works, and the files of the host can *)
(* be opened.                                                              *)
(*                                                                         *)
(* LastFree, MarkFirst, KeepBlocks, StaleMap, Remainder and EntryStays are *)
(* plausible mistakes; nothing uses them.                                  *)
(***************************************************************************)
EXTENDS Integers, Sequences, FiniteSets, SequencesExt

CONSTANTS
    Name, LongName,  \* names of files, and those longer than 15 characters
    File,            \* the files of the host
    NumEntries,      \* MAX_ARCHIVOS_POR_DIRECTORIO
    NumNodes,        \* MAX_NODOSI
    NumBlocks,       \* numBloques, of the size given to -mkfs
    NumBits,         \* NUM_BITS
    Reserved,        \* the blocks of super block, map, directory and nodes
    MaxFileBlocks,   \* MAX_BLOQUES_POR_ARCHIVO
    BlockSize,       \* TAM_BLOQUE_BYTES
    Null, Junk       \* a free entry of the directory; a byte nobody wrote

\* What a byte of a block may be
Byte == {Junk} \cup UNION {Range(f) : f \in File}

\* myMkfs returns 1 or 2 for a disk of any other size.
ASSUME ImportFSAssumption ==
    /\ LongName \subseteq Name /\ Null \notin Name
    /\ Null \notin [name : Name, node : 0 .. NumEntries - 1]
    /\ NumEntries \in Nat \ {0} /\ NumNodes \in Nat \ {0}
    /\ BlockSize \in Nat \ {0} /\ MaxFileBlocks \in Nat
    /\ File \subseteq Seq(Byte) /\ Null \notin Seq(Byte) /\ Junk \notin Seq(Byte)
    /\ {Reserved, NumBlocks, NumBits} \subseteq Nat
    /\ NumBlocks > Reserved /\ NumBits > NumBlocks

Entry == 0 .. NumEntries - 1
Inode == 0 .. NumNodes - 1
Block == 0 .. NumBits - 1

VARIABLES
    dir,         \* directorio.archivos: [name, node], or Null if libre
    numFiles,    \* directorio.numArchivos
    node,        \* nodosI: [libre, size, blocks], libre for a null pointer
    used,        \* the bits of mapaDeBits that are set
    freeBlocks,  \* superBloque.numBloquesLibres
    data,        \* the bytes of every block of the disk that belongs to files, and
                 \* <<>> for the others, until they are overwritten
    disk,        \* the copies of the structures on the disk
    out,         \* the file of the host that the last command, an export, wrote
    status       \* "running", "exited" or "crashed"

memory == <<dir, numFiles, node, used, freeBlocks>>
vars == <<memory, data, disk, out, status>>
-----------------------------------------------------------------------------
\* myQuota: the blocks of the disk whose bit is not set
Quota(bits) == Cardinality((0 .. NumBlocks - 1) \ bits)

FirstOf(S) == CHOOSE x \in S : \A y \in S : x <= y

Blank == [i \in 1 .. BlockSize |-> Junk]

NoFile == [libre |-> TRUE, size |-> 0, blocks |-> <<>>]

\* main, myMkfs, initSuperBloque, initNodosI
Init ==
    /\ dir = [e \in Entry |-> Null]
    /\ numFiles = 0
    /\ node = [i \in Inode |-> NoFile]
    /\ used = 0 .. Reserved - 1
    /\ freeBlocks = Quota(used)
    /\ data = [b \in Block |-> IF b < Reserved THEN <<>> ELSE Blank]
    /\ disk = [dir |-> dir, numFiles |-> 0, node |-> node, used |-> used,
               freeBlocks |-> freeBlocks]
    /\ out = <<>>
    /\ status = "running"

\* buscaPosDirectorio
Listed(n) == \E e \in Entry : dir[e] # Null /\ dir[e].name = n
Pos(n)    == FirstOf({e \in Entry : dir[e] # Null /\ dir[e].name = n})

LastFree == CHOOSE e \in Entry : dir[e] = Null /\ \A d \in Entry : dir[d] = Null => d <= e

\* The loop of myImport for entradaLibre, and buscaNodoLibre
FreeEntry == FirstOf({e \in Entry : dir[e] = Null})
FreeNodes == {i \in Inode : node[i].libre}

\* The count of free nodes that myImport tests is set when the program starts,
\* by main and initNodosI; neither myImport nor myRm changes it.
FreeNodeCount == NumNodes

NumBlocksOf(size) == (size + BlockSize - 1) \div BlockSize

\* reservaBloquesNodosI: the first bits that are not set
FirstFit(n) ==
    LET f[k \in 0 .. n] ==
            IF k = 0 THEN <<>>
            ELSE Append(f[k - 1], FirstOf(Block \ (used \cup Range(f[k - 1]))))
    IN  f[n]

MarkFirst(bs) == used \cup (IF bs = <<>> THEN {} ELSE {bs[1]})

Mark(bs) == used \cup Range(bs)

Remainder(size) == size % BlockSize

\* bytesRestantes: the bytes of the last block, for an empty file a whole block
LastBytes(size) == BlockSize - (NumBlocksOf(size) * BlockSize - size)

\* escribeDatos: the file f goes to the blocks bs.
Written(f, bs) ==
    [b \in Block |->
        IF b \notin Range(bs) THEN data[b]
        ELSE LET i == CHOOSE j \in DOMAIN bs : bs[j] = b
                 n == IF i = Len(bs) THEN LastBytes(Len(f)) ELSE BlockSize
             IN  [k \in 1 .. BlockSize |->
                     IF k <= n THEN f[(i - 1) * BlockSize + k] ELSE data[b][k]]]

\* An empty file has no block, but a block of the stack is written where an
\* index leads that nobody has set.
WrittenAt(b) == [data EXCEPT ![b] = Blank]
-----------------------------------------------------------------------------
\* What myImport tests before it changes anything: return codes 3 to 7
MayImport(f, n) ==
    /\ NumBlocksOf(Len(f)) <= freeBlocks
    /\ NumBlocksOf(Len(f)) <= MaxFileBlocks
    /\ n \notin LongName
    /\ ~Listed(n)
    /\ FreeNodeCount > 0

\* The entry is made and written to the disk first, with its own number as the
\* number of the node.
AddEntry(n) ==
    /\ numFiles < NumEntries              \* return code 8
    /\ numFiles' = numFiles + 1
    /\ dir' = [dir EXCEPT ![FreeEntry] = [name |-> n, node |-> FreeEntry]]

\* Return code 9: there is no node for the entry.
ImportWithoutNode(f, n) ==
    /\ status = "running" /\ MayImport(f, n) /\ AddEntry(n)
    /\ FreeNodes = {}
    /\ disk' = [disk EXCEPT !.dir = dir', !.numFiles = numFiles']
    /\ out' = <<>>
    /\ UNCHANGED <<node, used, freeBlocks, data, status>>

\* The node is the first free one.  What an empty file keeps as its first block
\* is only there for the export of it.
Import(f, n) ==
    /\ status = "running" /\ MayImport(f, n) /\ AddEntry(n)
    /\ FreeNodes # {}
    /\ LET bs == FirstFit(NumBlocksOf(Len(f))) IN
         /\ node' = [node EXCEPT ![FirstOf(FreeNodes)] =
                                    [libre |-> FALSE, size |-> Len(f), blocks |-> bs]]
         /\ used' = Mark(bs)
         /\ freeBlocks' = freeBlocks - Len(bs)
         /\ IF bs = <<>> THEN \E b \in Block : data' = WrittenAt(b)
                         ELSE data' = Written(f, bs)
    /\ disk' = [dir |-> dir', numFiles |-> numFiles', node |-> node', used |-> used',
                freeBlocks |-> freeBlocks']
    /\ out' = <<>> /\ status' = status

\* There is no node i: it is past the end of the table, or free.
NoNode(i) == i \in Inode => node[i].libre

\* A command follows the entry to a node that is not there.
Dangling(e) == NoNode(dir[e].node)

Crash == status' = "crashed" /\ out' = <<>> /\ UNCHANGED <<memory, data, disk>>

\* The loop of myExport over the blocks of node i
ReadOut(i) ==
    LET size == node[i].size  bs == node[i].blocks
    IN  [k \in 1 .. (Len(bs) - 1) * BlockSize + LastBytes(size) |->
            data[bs[((k - 1) \div BlockSize) + 1]][((k - 1) % BlockSize) + 1]]

\* myExport.  A file of the host that exists is neither refused nor truncated.
Export(n, old) ==
    /\ status = "running" /\ Listed(n)
    /\ IF Dangling(Pos(n)) THEN Crash
       ELSE /\ LET i == dir[Pos(n)].node IN
               \E bytes \in IF node[i].blocks # <<>> THEN {ReadOut(i)}
                            ELSE {Blank} \cup {data[b] : b \in Reserved .. NumBits - 1} :
                   out' = bytes \o SubSeq(old, Len(bytes) + 1, Len(old))
            /\ UNCHANGED <<memory, data, disk, status>>

KeepBlocks(i) == freeBlocks

\* The blocks of the node count as free again.
Regained(i) == freeBlocks + Len(node[i].blocks)

EntryStays(e) == dir

Cleared(e) == [dir EXCEPT ![e] = Null]

StaleMap(d) == [d EXCEPT !.dir = dir', !.numFiles = numFiles', !.node = node',
                         !.freeBlocks = freeBlocks']

\* escribeDirectorio, escribeNodoI, escribeSuperBloque, escribeMapaDeBits
WriteAll(d) == [d EXCEPT !.dir = dir', !.numFiles = numFiles', !.node = node',
                         !.freeBlocks = freeBlocks', !.used = used']

\* myRm
Rm(n) ==
    /\ status = "running" /\ Listed(n)
    /\ IF Dangling(Pos(n)) THEN Crash
       ELSE /\ LET i == dir[Pos(n)].node IN
                 /\ freeBlocks' = Regained(i)
                 /\ used' = used \ Range(node[i].blocks)
                 /\ node' = [node EXCEPT ![i] = NoFile]
            /\ dir' = Cleared(Pos(n))
            /\ numFiles' = numFiles - 1
            /\ disk' = WriteAll(disk)
            /\ out' = <<>> /\ UNCHANGED <<data, status>>

\* myLs prints the size from the node of the entry, and the time from the node
\* with the number of the entry.
Ls ==
    /\ status = "running"
    /\ \E e \in Entry : dir[e] # Null /\ (\E i \in {dir[e].node, e} : NoNode(i))
    /\ Crash

\* myExit: the memory goes with the process.
Exit ==
    /\ status = "running" /\ status' = "exited"
    /\ out' = <<>> /\ UNCHANGED <<memory, data, disk>>

Next ==
    \/ \E n \in Name, f \in File : Import(f, n) \/ ImportWithoutNode(f, n) \/ Export(n, f)
    \/ \E n \in Name : Rm(n)
    \/ Ls \/ Exit

Spec == Init /\ [][Next]_vars
-----------------------------------------------------------------------------
NodeType == [libre : BOOLEAN, size : Nat, blocks : Seq(Block)]

TypeOK ==
    /\ \A e \in Entry : dir[e] = Null \/ dir[e] \in [name : Name, node : Entry]
    /\ numFiles \in 0 .. NumEntries
    /\ node \in [Inode -> NodeType]
    /\ used \subseteq 0 .. NumBlocks - 1
    /\ freeBlocks \in 0 .. NumBlocks
    /\ status \in {"running", "exited", "crashed"}

(* myImport gives an entry its own number as the number of its node, and   *)
(* takes the first free node for the file.  They are the same one: in any  *)
(* history of imports and removals the entries and the nodes in use are    *)
(* the same, up to the entries for which there are no nodes at all.        *)
EntryOwnsItsNode ==
    /\ \A e \in Entry : dir[e] # Null => dir[e].node = e
    /\ \A i \in Inode \cap Entry : dir[i] = Null <=> node[i].libre

Owned(i) == Range(node[i].blocks)

(* A block belongs to the system or to one file, once, and exactly these   *)
(* blocks are marked in the map.                                           *)
OneOwner ==
    /\ \A i, j \in Inode : i # j => Owned(i) \cap Owned(j) = {}
    /\ \A i \in Inode : IsInjective(node[i].blocks)
    /\ used = 0 .. Reserved - 1 \cup UNION {Owned(i) : i \in Inode}
    /\ \A i \in Inode : Owned(i) \cap 0 .. Reserved - 1 = {}

(* The counters in the super block and the directory, by which myImport    *)
(* decides that there is room, are what the map and the directory say: the *)
(* loops that follow find the blocks and the entry.                        *)
CountersMatch ==
    /\ freeBlocks = Quota(used)
    /\ numFiles = Cardinality({e \in Entry : dir[e] # Null})

(* After every command the disk holds the structures of the memory, as     *)
(* long as no empty file was written over them.                            *)
DiskIsCurrent == (\A b \in 0 .. Reserved - 1 : data[b] # Blank) =>
    disk = [dir |-> dir, numFiles |-> numFiles, node |-> node, used |-> used,
            freeBlocks |-> freeBlocks]

(* All the tables agree with each other, in memory and on the disk.        *)
Accounts == TypeOK /\ OneOwner /\ CountersMatch /\ DiskIsCurrent

\* Entries that were made when there was no node left
Ghosts == {e \in Entry : dir[e] # Null /\ e \notin Inode}

(* The shell only dies of such an entry, but then of any list, and of      *)
(* every other use of it.                                                  *)
CrashOnlyOnGhost == status = "crashed" => Ghosts # {}

\* What an entry holds
Holds(n) ==
    IF ~Listed(n) THEN Null
    ELSE IF Dangling(Pos(n)) THEN Null
    ELSE IF node[dir[Pos(n)].node].size = 0 THEN Junk
    ELSE ReadOut(dir[Pos(n)].node)

Store == INSTANCE FileStore WITH
            files <- [n \in Name |-> Holds(n)],
            Absent <- Null, Rubbish <- Junk

\* An export gives back, byte for byte, what was imported, whatever was
\* imported and removed in between.
Refines == Store!Spec
=============================================================================

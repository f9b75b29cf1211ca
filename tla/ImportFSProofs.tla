--------------------------- MODULE ImportFSProofs ---------------------------
(***************************************************************************)
(* Proofs about the import/export file system, for tables of any size and  *)
(* any set of files: the number that myImport writes into an entry before  *)
(* it looks for a node is that of the node it finds, and the program dies  *)
(* of nothing but an entry for which there was none; the tables agree with *)
(* each other and with the disk; and an export gives back what was         *)
(* imported.                                                               *)
(***************************************************************************)
EXTENDS ImportFS, FiniteSetTheorems, SequenceTheorems, WellFoundedInduction, TLAPS

EntryType == [name : Name, node : Entry]

Used == {e \in Entry : dir[e] # Null}

\* The count of the directory is part of the invariant: it is what myImport
\* tests before it looks for an entry, and its loop finds one if it is right.
EntryInv ==
    /\ dir \in [Entry -> EntryType \cup {Null}]
    /\ node = [i \in Inode |-> node[i]] /\ \A i \in Inode : node[i].libre \in BOOLEAN
    /\ numFiles = Cardinality(Used)
    /\ EntryOwnsItsNode
    /\ CrashOnlyOnGhost

LEMMA FirstExists ==
  ASSUME NEW S, S \subseteq Nat, S # {}
  PROVE  FirstOf(S) \in S /\ \A y \in S : FirstOf(S) <= y
<1>1. PICK x \in S : \A y \in S : <<y, x>> \notin OpToRel(<, Nat)
  BY NatLessThanWellFounded, WFMin
<1>2. ASSUME NEW y \in S, y < x PROVE <<y, x>> \in OpToRel(<, Nat)
  <2>1. <<y, x>> \in Nat \X Nat /\ <<y, x>>[1] < <<y, x>>[2]
    BY <1>2
  <2> QED BY <2>1, Zenon DEF OpToRel
<1>3. \A y \in S : ~(y < x)
  BY <1>1, <1>2
<1>4. x \in S /\ \A y \in S : x <= y
  <2>1. ASSUME NEW y \in S PROVE x <= y
    <3>1. x \in Nat /\ y \in Nat /\ ~(y < x)
      BY <1>1, <1>3
    <3> QED BY <3>1
  <2> QED BY <1>1, <2>1
<1> QED BY <1>4 DEF FirstOf

LEMMA UsedFinite == IsFiniteSet(Entry) /\ Cardinality(Entry) = NumEntries
                    /\ IsFiniteSet(Used) /\ Cardinality(Used) \in Nat
<1>1. IsFiniteSet(Entry) /\ Cardinality(Entry) = NumEntries
  <2>1. NumEntries - 1 \in Int /\ 0 \in Int /\ ~(0 > NumEntries - 1)
    BY ImportFSAssumption
  <2>2. /\ IsFiniteSet(0 .. NumEntries - 1)
        /\ Cardinality(0 .. NumEntries - 1) = NumEntries - 1 - 0 + 1
    BY <2>1, FS_Interval
  <2> QED BY <2>2, ImportFSAssumption DEF Entry
<1>2. Used \in SUBSET Entry
  BY DEF Used
<1> QED BY <1>1, <1>2, FS_Subset, FS_CardinalityType

\* While the count is below the size of the table the loop finds a free entry.
LEMMA FreeEntryExists ==
  ASSUME EntryInv, numFiles < NumEntries
  PROVE  /\ FreeEntry \in Entry /\ dir[FreeEntry] = Null
         /\ \A e \in Entry : dir[e] = Null => FreeEntry <= e
<1> DEFINE S == {e \in Entry : dir[e] = Null}
<1>1. Used # Entry
  BY UsedFinite, ImportFSAssumption DEF EntryInv
<1>2. S \subseteq Nat /\ S # {}
  BY <1>1, ImportFSAssumption DEF Used, Entry
<1>3. FirstOf(S) \in S /\ \A y \in S : FirstOf(S) <= y
  BY <1>2, FirstExists
<1> QED BY <1>3 DEF FreeEntry

\* The first free node is the one with the number of the first free entry.
LEMMA SameNumber ==
  ASSUME EntryInv, numFiles < NumEntries
  PROVE  /\ FreeNodes = {} <=> FreeEntry \notin Inode
         /\ FreeNodes # {} => FirstOf(FreeNodes) = FreeEntry
<1>1. /\ FreeEntry \in Entry /\ dir[FreeEntry] = Null
      /\ \A e \in Entry : dir[e] = Null => FreeEntry <= e
  BY FreeEntryExists
<1>2. \A i \in Inode \cap Entry : dir[i] = Null <=> i \in FreeNodes
  BY DEF EntryInv, EntryOwnsItsNode, FreeNodes
<1>3. CASE FreeEntry \in Inode
  <2>1. FreeEntry \in FreeNodes /\ FreeNodes \subseteq Nat
    BY <1>1, <1>2, <1>3, ImportFSAssumption DEF FreeNodes, Inode
  <2>2. /\ FirstOf(FreeNodes) \in FreeNodes
        /\ FirstOf(FreeNodes) <= FreeEntry
    BY <2>1, FirstExists
  <2>3. FirstOf(FreeNodes) \in Inode /\ FirstOf(FreeNodes) \in Entry
    BY <1>1, <2>1, <2>2, ImportFSAssumption DEF FreeNodes, Inode, Entry
  <2>4. FreeEntry <= FirstOf(FreeNodes)
    BY <1>1, <1>2, <2>2, <2>3
  <2> QED BY <1>1, <1>3, <2>1, <2>2, <2>3, <2>4, ImportFSAssumption DEF Entry, Inode
<1>4. CASE FreeEntry \notin Inode
  <2>1. \A i \in Inode : i \in Entry /\ i < FreeEntry
    BY <1>1, <1>4, ImportFSAssumption DEF Inode, Entry
  <2>2. \A i \in Inode : dir[i] # Null
    BY <1>1, <2>1, ImportFSAssumption DEF Entry
  <2>3. FreeNodes = {}
    BY <1>2, <2>1, <2>2 DEF FreeNodes
  <2> QED BY <1>4, <2>3
<1> QED BY <1>3, <1>4

\* The entry that a command works on is one with that name.
LEMMA PosIsListed ==
  ASSUME NEW n \in Name, Listed(n)
  PROVE  Pos(n) \in Entry /\ dir[Pos(n)] # Null
<1> DEFINE S == {e \in Entry : dir[e] # Null /\ dir[e].name = n}
<1>1. S \subseteq Nat /\ S # {}
  BY ImportFSAssumption DEF Listed, Entry
<1>2. FirstOf(S) \in S
  BY <1>1, FirstExists
<1> QED BY <1>2 DEF Pos

\* A command that dies has followed an entry without a node.
LEMMA DanglingIsGhost ==
  ASSUME EntryInv, NEW e \in Entry, dir[e] # Null,
         NoNode(e) \/ NoNode(dir[e].node)
  PROVE  Ghosts # {}
<1>1. dir[e].node = e
  BY DEF EntryInv, EntryOwnsItsNode
<1>2. e \notin Inode
  BY <1>1 DEF EntryInv, EntryOwnsItsNode, NoNode
<1> QED BY <1>2 DEF Ghosts

\* AddEntry fills the free entry, and counts it.
LEMMA EntryAdded ==
  ASSUME EntryInv, NEW n \in Name, AddEntry(n)
  PROVE  /\ dir' \in [Entry -> EntryType \cup {Null}]
         /\ dir'[FreeEntry] # Null /\ dir'[FreeEntry].node = FreeEntry
         /\ \A e \in Entry \ {FreeEntry} : dir'[e] = dir[e]
         /\ numFiles' = Cardinality(Used')
<1>1. FreeEntry \in Entry /\ dir[FreeEntry] = Null
  BY FreeEntryExists DEF AddEntry
<1> DEFINE r == [name |-> n, node |-> FreeEntry]
<1>2. r \in EntryType /\ r # Null /\ r.node = FreeEntry
  BY <1>1, ImportFSAssumption DEF EntryType, Entry
<1> HIDE DEF r
<1>3. dir' = [dir EXCEPT ![FreeEntry] = r]
  BY DEF AddEntry, r
<1>4. /\ dir' \in [Entry -> EntryType \cup {Null}] /\ dir'[FreeEntry] = r
      /\ \A e \in Entry \ {FreeEntry} : dir'[e] = dir[e]
  BY <1>1, <1>2, <1>3 DEF EntryInv
<1>5. Used' = Used \cup {FreeEntry} /\ FreeEntry \notin Used
  BY <1>1, <1>2, <1>4 DEF Used
<1>6. Cardinality(Used') = Cardinality(Used) + 1
  BY <1>5, UsedFinite, FS_AddElement
<1> QED BY <1>2, <1>4, <1>6 DEF AddEntry, EntryInv

LEMMA EntryInit == Init => EntryInv
<1> SUFFICES ASSUME Init PROVE EntryInv
  OBVIOUS
<1>1. Used = {} /\ Cardinality(Used) = 0
  BY FS_EmptySet DEF Init, Used
<1>2. NoFile.libre = TRUE
  BY DEF NoFile
<1> QED
  BY <1>1, <1>2 DEF Init, EntryInv, EntryOwnsItsNode, CrashOnlyOnGhost

LEMMA ImportInv ==
  ASSUME EntryInv, NEW n \in Name, NEW f \in File, Import(f, n)
  PROVE  EntryInv'
<1>1. /\ AddEntry(n) /\ FreeNodes # {} /\ status = "running" /\ status' = status
      /\ \E r : r.libre = FALSE /\ node' = [node EXCEPT ![FirstOf(FreeNodes)] = r]
  <2>1. \A s, b : [libre |-> FALSE, size |-> s, blocks |-> b].libre = FALSE
    OBVIOUS
  <2> QED BY <2>1 DEF Import
<1>2. numFiles < NumEntries
  BY <1>1 DEF AddEntry
<1>3. FirstOf(FreeNodes) = FreeEntry /\ FreeEntry \in Inode /\ FreeEntry \in Entry
  BY <1>1, <1>2, SameNumber, FreeEntryExists
<1>4. /\ node' = [i \in Inode |-> node'[i]] /\ node'[FreeEntry].libre = FALSE
      /\ \A i \in Inode \ {FreeEntry} : node'[i] = node[i]
  BY <1>1, <1>3 DEF EntryInv
<1>5. CrashOnlyOnGhost'
  BY <1>1 DEF CrashOnlyOnGhost
<1>6. EntryOwnsItsNode'
  BY <1>1, <1>3, <1>4, EntryAdded DEF EntryInv, EntryOwnsItsNode
<1>7. \A i \in Inode : node'[i].libre \in BOOLEAN
  BY <1>4 DEF EntryInv
<1> QED
  BY <1>1, <1>4, <1>5, <1>6, <1>7, EntryAdded DEF EntryInv

LEMMA ImportWithoutNodeInv ==
  ASSUME EntryInv, NEW n \in Name, NEW f \in File, ImportWithoutNode(f, n)
  PROVE  EntryInv'
<1>1. /\ AddEntry(n) /\ FreeNodes = {} /\ status = "running" /\ status' = status
      /\ node' = node
  BY DEF ImportWithoutNode
<1>2. FreeEntry \notin Inode
  BY <1>1, SameNumber DEF AddEntry
<1>3. CrashOnlyOnGhost'
  BY <1>1 DEF CrashOnlyOnGhost
<1>4. EntryOwnsItsNode'
  BY <1>1, <1>2, EntryAdded DEF EntryInv, EntryOwnsItsNode
<1> QED
  BY <1>1, <1>3, <1>4, EntryAdded DEF EntryInv

\* A command that dies leaves everything as it was.
LEMMA CrashInv ==
  ASSUME EntryInv, Crash, Ghosts # {}
  PROVE  EntryInv'
BY DEF EntryInv, EntryOwnsItsNode, CrashOnlyOnGhost, Ghosts, Used, Crash, memory

LEMMA RmInv ==
  ASSUME EntryInv, NEW n \in Name, Rm(n)
  PROVE  EntryInv'
<1> DEFINE e == Pos(n)
<1>1. e \in Entry /\ dir[e] # Null
  BY PosIsListed DEF Rm
<1>2. CASE Dangling(e)
  <2>1. Ghosts # {}
    BY <1>1, <1>2, DanglingIsGhost DEF Dangling
  <2> QED BY <1>2, <2>1, CrashInv DEF Rm
<1>3. CASE ~Dangling(e)
  <2>1. dir[e].node = e /\ e \in Inode
    BY <1>1, <1>3 DEF EntryInv, EntryOwnsItsNode, Dangling, NoNode
  <2>2. /\ node' = [node EXCEPT ![dir[e].node] = NoFile]
        /\ dir' = [dir EXCEPT ![e] = Null] /\ numFiles' = numFiles - 1
        /\ status = "running" /\ status' = "running"
    BY <1>3 DEF Rm, Cleared
  <2> HIDE DEF e
  <2>3. /\ node' = [i \in Inode |-> node'[i]] /\ node'[e].libre = TRUE
        /\ \A i \in Inode \ {e} : node'[i] = node[i]
        /\ \A i \in Inode : node'[i].libre \in BOOLEAN
    BY <2>1, <2>2 DEF EntryInv, NoFile
  <2>4. /\ dir' \in [Entry -> EntryType \cup {Null}] /\ dir'[e] = Null
        /\ \A d \in Entry \ {e} : dir'[d] = dir[d]
    BY <1>1, <2>2 DEF EntryInv
  <2>5. Used' = Used \ {e} /\ e \in Used
    BY <1>1, <2>4 DEF Used
  <2>6. numFiles' = Cardinality(Used')
    BY <2>2, <2>5, UsedFinite, FS_RemoveElement DEF EntryInv
  <2>7. EntryOwnsItsNode'
    BY <1>1, <2>1, <2>3, <2>4 DEF EntryInv, EntryOwnsItsNode
  <2> QED BY <2>2, <2>3, <2>4, <2>6, <2>7 DEF EntryInv, CrashOnlyOnGhost
<1> QED BY <1>2, <1>3

LEMMA EntryNext == EntryInv /\ [Next]_vars => EntryInv'
<1> SUFFICES ASSUME EntryInv, [Next]_vars PROVE EntryInv'
  OBVIOUS
<1>1. ASSUME UNCHANGED memory, status' = status \/ status' = "exited"
      PROVE  EntryInv'
  BY <1>1 DEF EntryInv, EntryOwnsItsNode, CrashOnlyOnGhost, Ghosts, Used, memory
<1>2. ASSUME NEW n \in Name, NEW f \in File, Export(n, f) PROVE EntryInv'
  <2>1. CASE Dangling(Pos(n))
    <3>1. Crash /\ Pos(n) \in Entry /\ dir[Pos(n)] # Null
      BY <1>2, <2>1, PosIsListed DEF Export
    <3> QED BY <2>1, <3>1, DanglingIsGhost, CrashInv DEF Dangling
  <2>2. CASE ~Dangling(Pos(n))
    BY <1>1, <1>2, <2>2 DEF Export
  <2> QED BY <2>1, <2>2
<1>3. CASE Ls
  BY <1>3, DanglingIsGhost, CrashInv DEF Ls
<1>4. CASE Exit
  BY <1>1, <1>4 DEF Exit
<1>5. CASE UNCHANGED vars
  BY <1>1, <1>5 DEF vars
<1> QED
  BY <1>2, <1>3, <1>4, <1>5, ImportInv, ImportWithoutNodeInv, RmInv DEF Next

LEMMA Invariance == Spec => []EntryInv
BY EntryInit, EntryNext, PTL DEF Spec

(* The entry and the node that an import takes have the same number, for   *)
(* any sizes of the tables and in any history of commands: the number that *)
(* myImport writes into the entry before it looks for a node, and myLs     *)
(* uses in its place, is right (util.c:144-176, 285-286).                  *)
THEOREM NumbersAgree == Spec => []EntryOwnsItsNode
BY Invariance, PTL DEF EntryInv

(* The shell only dies of an entry that was made when there was no node    *)
(* left, for any sizes of the tables (util.c:144-168, 195-297).            *)
THEOREM OnlyGhostsCrash == Spec => []CrashOnlyOnGhost
BY Invariance, PTL DEF EntryInv

(* If there are at least as many nodes as entries, the shell never dies of *)
(* a missing node.  The program has 100 entries, and 45 nodes in its five  *)
(* blocks (common.h:15-17, 49-50).                                         *)
THEOREM EnoughNodes == NumNodes >= NumEntries /\ Spec => [](status # "crashed")
<1> SUFFICES ASSUME NumNodes >= NumEntries PROVE Spec => [](status # "crashed")
  OBVIOUS
<1>1. EntryInv => status # "crashed"
  BY ImportFSAssumption DEF EntryInv, CrashOnlyOnGhost, Ghosts, Entry, Inode
<1> QED
  BY <1>1, Invariance, PTL
-----------------------------------------------------------------------------
\* The blocks of the disk that are free
Free == (0 .. NumBlocks - 1) \ used

\* n distinct free blocks
Fits(bs, n) ==
    /\ bs \in Seq(Block) /\ Len(bs) = n
    /\ IsInjective(bs) /\ Range(bs) \subseteq Free

\* Induction over the natural numbers, for a set of them
LEMMA NatSet ==
  ASSUME NEW S, 0 \in S, \A n \in Nat : n \in S => n + 1 \in S
  PROVE  \A n \in Nat : n \in S
<1> SUFFICES ASSUME NEW n \in Nat, n \notin S PROVE FALSE
  OBVIOUS
<1> DEFINE T == Nat \ S
           x == FirstOf(T)
<1>1. x \in T /\ \A y \in T : x <= y
  <2>1. T \subseteq Nat /\ T # {}
    OBVIOUS
  <2> QED BY <2>1, FirstExists
<1> HIDE DEF x
<1>2. x # 0 /\ x - 1 \in Nat
  BY <1>1
<1>3. x - 1 \in S
  BY <1>1, <1>2
<1>4. (x - 1) + 1 \in S /\ (x - 1) + 1 = x
  BY <1>1, <1>2, <1>3
<1> QED BY <1>1, <1>4

\* A sequence without repetitions has as many elements as its length.
LEMMA RangeSize ==
  ASSUME NEW S, NEW q \in Seq(S), IsInjective(q)
  PROVE  IsFiniteSet(Range(q)) /\ Cardinality(Range(q)) = Len(q)
<1>1. Len(q) \in Nat /\ DOMAIN q = 1 .. Len(q) /\ q = [i \in 1 .. Len(q) |-> q[i]]
  OBVIOUS
<1>2. q \in [1 .. Len(q) -> Range(q)]
  BY <1>1 DEF Range
<1>3. q \in Bijection(1 .. Len(q), Range(q))
  BY <1>1, <1>2 DEF Bijection, Injection, Surjection, IsInjective, Range
<1>4. ExistsBijection(1 .. Len(q), Range(q))
  BY <1>3 DEF ExistsBijection
<1>5. IsFiniteSet(1 .. Len(q)) /\ Cardinality(1 .. Len(q)) = Len(q)
  <2>1. 1 \in Int /\ Len(q) \in Int
    BY <1>1
  <2>2. /\ IsFiniteSet(1 .. Len(q))
        /\ Cardinality(1 .. Len(q)) = IF 1 > Len(q) THEN 0 ELSE Len(q) - 1 + 1
    BY <2>1, FS_Interval
  <2> QED BY <1>1, <2>2
<1> QED BY <1>4, <1>5, FS_Bijection

\* The function by which reservaBloquesNodosI takes its blocks exists.
LEMMA FitFunction ==
  ASSUME NEW n \in Nat
  PROVE  \E f : /\ FirstFit(n) = f[n]
                /\ f[0] = <<>>
                /\ \A k \in 1 .. n : f[k] =
                      Append(f[k - 1], FirstOf(Block \ (used \cup Range(f[k - 1]))))
<1> DEFINE Add(q) == Append(q, FirstOf(Block \ (used \cup Range(q))))
           G == {m \in Nat : \E g : g = [k \in 0 .. m |-> IF k = 0 THEN <<>> ELSE Add(g[k - 1])]}
           f == CHOOSE g : g = [k \in 0 .. n |-> IF k = 0 THEN <<>> ELSE Add(g[k - 1])]
<1>1. FirstFit(n) = f[n]
  BY DEF FirstFit
<1> HIDE DEF Add
<1>2. 0 \in G
  <2> DEFINE g == [k \in 0 .. 0 |-> <<>>]
  <2>1. g = [k \in 0 .. 0 |-> IF k = 0 THEN <<>> ELSE Add(g[k - 1])]
    OBVIOUS
  <2> QED BY <2>1
<1>3. \A m \in Nat : m \in G => m + 1 \in G
  <2> SUFFICES ASSUME NEW m \in Nat, m \in G PROVE m + 1 \in G
    OBVIOUS
  <2> PICK g : g = [k \in 0 .. m |-> IF k = 0 THEN <<>> ELSE Add(g[k - 1])]
    OBVIOUS
  <2> DEFINE h == [k \in 0 .. m + 1 |-> IF k = m + 1 THEN Add(g[m]) ELSE g[k]]
  <2>0. ASSUME NEW k \in 0 .. m
        PROVE  g[k] = IF k = 0 THEN <<>> ELSE Add(g[k - 1])
    <3> DEFINE b == [x \in 0 .. m |-> IF x = 0 THEN <<>> ELSE Add(g[x - 1])]
    <3>1. g = b
      OBVIOUS
    <3>2. b[k] = IF k = 0 THEN <<>> ELSE Add(g[k - 1])
      OBVIOUS
    <3> HIDE DEF b
    <3> QED BY <3>1, <3>2
  <2>1. \A k \in 0 .. m : h[k] = g[k] /\ g[k] = IF k = 0 THEN <<>> ELSE Add(g[k - 1])
    <3>1. \A k \in 0 .. m : k \in 0 .. m + 1 /\ k # m + 1
      OBVIOUS
    <3> QED BY <2>0, <3>1, Zenon
  <2>2. ASSUME NEW k \in 0 .. m + 1
        PROVE  h[k] = IF k = 0 THEN <<>> ELSE Add(h[k - 1])
    <3>1. CASE k = 0
      BY <2>1, <3>1
    <3>2. CASE k \in 1 .. m
      <4>1. k - 1 \in 0 .. m /\ k \in 0 .. m
        BY <3>2
      <4> QED BY <2>1, <3>2, <4>1
    <3>3. CASE k = m + 1
      <4>1. h[k] = Add(g[m]) /\ h[m] = g[m] /\ k - 1 = m
        BY <2>1, <3>3
      <4> QED BY <3>3, <4>1
    <3> QED BY <3>1, <3>2, <3>3
  <2>3. h = [k \in 0 .. m + 1 |-> IF k = 0 THEN <<>> ELSE Add(h[k - 1])]
    <3> DEFINE b == [k \in 0 .. m + 1 |-> IF k = 0 THEN <<>> ELSE Add(h[k - 1])]
    <3>1. \A k \in 0 .. m + 1 : h[k] = b[k]
      BY <2>2
    <3>2. DOMAIN h = 0 .. m + 1 /\ DOMAIN b = 0 .. m + 1
      OBVIOUS
    <3> HIDE DEF b
    <3> QED BY <3>1, <3>2 DEF b
  <2> HIDE DEF h
  <2> QED BY <2>3
<1>4. n \in G
  BY <1>2, <1>3, NatSet
<1>5. f = [k \in 0 .. n |-> IF k = 0 THEN <<>> ELSE Add(f[k - 1])]
  BY <1>4
<1> HIDE DEF f
<1>6. f[0] = <<>> /\ \A k \in 1 .. n : f[k] = Add(f[k - 1])
  BY <1>5
<1> QED BY <1>1, <1>6 DEF Add

\* myQuota counts the free blocks.
LEMMA FreeFinite == IsFiniteSet(Free) /\ Cardinality(Free) = Quota(used)
                    /\ Quota(used) \in 0 .. NumBlocks
<1>1. IsFiniteSet(0 .. NumBlocks - 1) /\ Cardinality(0 .. NumBlocks - 1) = NumBlocks
  <2>1. NumBlocks - 1 \in Int /\ 0 \in Int /\ ~(0 > NumBlocks - 1)
    BY ImportFSAssumption
  <2>2. /\ IsFiniteSet(0 .. NumBlocks - 1)
        /\ Cardinality(0 .. NumBlocks - 1) = NumBlocks - 1 - 0 + 1
    BY <2>1, FS_Interval
  <2> QED BY <2>2, ImportFSAssumption
<1>2. Free \in SUBSET (0 .. NumBlocks - 1)
  BY DEF Free
<1>3. IsFiniteSet(Free) /\ Cardinality(Free) <= NumBlocks /\ Cardinality(Free) \in Nat
  BY <1>1, <1>2, FS_Subset, FS_CardinalityType
<1> QED BY <1>3, ImportFSAssumption DEF Free, Quota

\* As long as myQuota has enough, the loop of reservaBloquesNodosI finds n
\* distinct blocks of the disk that are free, although the map has more bits.
LEMMA FirstFitResult ==
  ASSUME NEW n \in Nat, n <= Quota(used)
  PROVE  Fits(FirstFit(n), n)
<1>1. PICK f : /\ FirstFit(n) = f[n]
               /\ f[0] = <<>>
               /\ \A k \in 1 .. n : f[k] =
                     Append(f[k - 1], FirstOf(Block \ (used \cup Range(f[k - 1]))))
  BY FitFunction
<1> DEFINE S == {k \in Nat : k <= n => Fits(f[k], k)}
<1>2. 0 \in S
  <2>1. Fits(<<>>, 0)
    BY DEF Fits, IsInjective, Range
  <2> QED BY <1>1, <2>1
<1>3. ASSUME NEW k \in Nat, k \in S PROVE k + 1 \in S
  <2> SUFFICES ASSUME k + 1 <= n PROVE Fits(f[k + 1], k + 1)
    OBVIOUS
  <2>0. k <= n /\ k + 1 \in 1 .. n /\ (k + 1) - 1 = k
    OBVIOUS
  <2>1. Fits(f[k], k)
    BY <1>3, <2>0
  <2> DEFINE q == f[k]
             x == FirstOf(Block \ (used \cup Range(q)))
  <2>2. f[k + 1] = Append(q, x)
    BY <1>1, <2>0
  <2>3. q \in Seq(Block) /\ Len(q) = k /\ IsInjective(q) /\ Range(q) \subseteq Free
    BY <2>1 DEF Fits
  <2> HIDE DEF q
  <2>4. Cardinality(Range(q)) = k /\ IsFiniteSet(Range(q))
    BY <2>3, RangeSize
  <2>5. PICK y \in Free : y \notin Range(q)
    <3>1. Cardinality(Free) >= k + 1 /\ Cardinality(Free) \in Nat
      BY FreeFinite, ImportFSAssumption
    <3>2. Free # Range(q)
      BY <2>4, <3>1
    <3> QED BY <2>3, <3>2
  <2>6. x \in Block \ (used \cup Range(q)) /\ x <= y
    <3>1. y \in Block \ (used \cup Range(q)) /\ Block \subseteq Nat
      BY <2>5, ImportFSAssumption DEF Free, Block
    <3> QED BY <3>1, FirstExists
  <2> HIDE DEF x
  <2>7. x \in Free /\ x \notin Range(q) /\ x \in Block
    BY <2>5, <2>6, ImportFSAssumption DEF Free, Block
  <2>8. /\ Append(q, x) \in Seq(Block) /\ Len(Append(q, x)) = k + 1
        /\ DOMAIN Append(q, x) = 1 .. k + 1
        /\ \A i \in 1 .. k : Append(q, x)[i] = q[i]
        /\ Append(q, x)[k + 1] = x
    BY <2>3, <2>7
  <2>9. DOMAIN q = 1 .. k /\ \A i \in 1 .. k : q[i] \in Range(q)
    BY <2>3 DEF Range
  <2> DEFINE r == Append(q, x)
  <2> HIDE DEF r
  <2>10. IsInjective(r)
    <3> SUFFICES ASSUME NEW i \in 1 .. k + 1, NEW j \in 1 .. k + 1, r[i] = r[j] PROVE i = j
      BY <2>8 DEF IsInjective, r
    <3>1. CASE i \in 1 .. k /\ j \in 1 .. k
      BY <2>3, <2>8, <2>9, <3>1 DEF IsInjective, r
    <3>2. CASE i = k + 1 /\ j # k + 1
      <4>1. j \in 1 .. k /\ r[j] = q[j] /\ r[i] = x
        BY <2>8, <3>2 DEF r
      <4> QED BY <2>7, <2>9, <4>1
    <3>3. CASE i # k + 1 /\ j = k + 1
      <4>1. i \in 1 .. k /\ r[i] = q[i] /\ r[j] = x
        BY <2>8, <3>3 DEF r
      <4> QED BY <2>7, <2>9, <4>1
    <3> QED BY <3>1, <3>2, <3>3
  <2>11. Range(r) \subseteq Free
    <3>1. \A i \in 1 .. k + 1 : r[i] \in Free
      <4> TAKE i \in 1 .. k + 1
      <4>1. CASE i = k + 1
        BY <2>7, <2>8, <4>1 DEF r
      <4>2. CASE i # k + 1
        <5>1. i \in 1 .. k
          BY <4>2
        <5> QED BY <2>3, <2>8, <2>9, <5>1 DEF r
      <4> QED BY <4>1, <4>2
    <3> QED BY <2>8, <3>1 DEF Range, r
  <2> QED BY <2>2, <2>8, <2>10, <2>11 DEF Fits, r
<1>4. n \in S
  BY <1>2, <1>3, NatSet
<1> QED BY <1>1, <1>4

\* The tables of the blocks; that a free node keeps no blocks is what makes the
\* statement about their owners survive an import.
BlockInv ==
    /\ node \in [Inode -> NodeType]
    /\ \A i \in Inode : node[i].libre => node[i].blocks = <<>>
    /\ used \subseteq 0 .. NumBlocks - 1
    /\ freeBlocks = Quota(used)
    /\ status \in {"running", "exited", "crashed"}
    /\ OneOwner
    /\ DiskIsCurrent

\* A file has as many blocks as its node says, and they are marked.
LEMMA OwnedFinite ==
  ASSUME BlockInv, NEW i \in Inode
  PROVE  /\ IsFiniteSet(Owned(i)) /\ Cardinality(Owned(i)) = Len(node[i].blocks)
         /\ Owned(i) \subseteq used
<1>1. node[i].blocks \in Seq(Block) /\ IsInjective(node[i].blocks)
  BY DEF BlockInv, NodeType, OneOwner
<1>2. Owned(i) \subseteq used
  BY DEF BlockInv, OneOwner
<1> QED BY <1>1, <1>2, RangeSize DEF Owned

\* A disk that has just been formatted
LEMMA BlockInit == Init => BlockInv
<1> SUFFICES ASSUME Init PROVE BlockInv
  OBVIOUS
<1>1. NoFile \in NodeType /\ NoFile.blocks = <<>> /\ Range(NoFile.blocks) = {}
      /\ IsInjective(NoFile.blocks)
  BY DEF NoFile, NodeType, Range, IsInjective
<1>2. \A i \in Inode : node[i] = NoFile
  BY DEF Init
<1>3. \A i \in Inode : Owned(i) = {}
  BY <1>1, <1>2 DEF Owned
<1>4. used = 0 .. Reserved - 1 /\ used \subseteq 0 .. NumBlocks - 1
  BY ImportFSAssumption DEF Init
<1>5. OneOwner
  BY <1>1, <1>2, <1>3, <1>4 DEF OneOwner
<1>6. DiskIsCurrent
  BY DEF Init, DiskIsCurrent
<1>7. node \in [Inode -> NodeType]
  BY <1>1 DEF Init
<1>8. freeBlocks = Quota(used) /\ status = "running"
  BY DEF Init
<1> QED BY <1>1, <1>2, <1>4, <1>5, <1>6, <1>7, <1>8 DEF BlockInv

\* What a command leaves alone, it leaves right.
LEMMA SameBlocks ==
  ASSUME BlockInv, UNCHANGED <<memory, disk>>, data' = data,
         status' \in {"running", "exited", "crashed"}
  PROVE  BlockInv'
BY DEF BlockInv, memory, OneOwner, Owned, DiskIsCurrent, Quota

\* myImport asks for no more blocks than there are.
LEMMA ImportFits ==
  ASSUME BlockInv, NEW n \in Name, NEW f \in File, MayImport(f, n)
  PROVE  /\ NumBlocksOf(Len(f)) \in Nat /\ Len(f) \in Nat
         /\ Fits(FirstFit(NumBlocksOf(Len(f))), NumBlocksOf(Len(f)))
<1>1. Len(f) \in Nat
  BY ImportFSAssumption
<1>2. NumBlocksOf(Len(f)) \in Nat
  <2>1. /\ Len(f) + BlockSize - 1 \in Nat
        /\ BlockSize \in Nat \ {0}
    BY <1>1, ImportFSAssumption
  <2>2. \A x \in Nat, y \in Nat \ {0} : x \div y \in Nat
    OBVIOUS
  <2> QED BY <2>1, <2>2 DEF NumBlocksOf
<1>3. NumBlocksOf(Len(f)) <= Quota(used)
  BY DEF MayImport, BlockInv
<1> QED BY <1>1, <1>2, <1>3, FirstFitResult

\* The blocks of a new file were free, and nobody else's.
LEMMA ImportBlocks ==
  ASSUME EntryInv, BlockInv, NEW n \in Name, NEW f \in File, Import(f, n)
  PROVE  BlockInv'
<1> PICK e : e = FirstOf(FreeNodes)
  OBVIOUS
<1> DEFINE bs == FirstFit(NumBlocksOf(Len(f)))
           r == [libre |-> FALSE, size |-> Len(f), blocks |-> bs]
<1>1. /\ MayImport(f, n) /\ AddEntry(n) /\ FreeNodes # {}
      /\ node' = [node EXCEPT ![e] = r]
      /\ used' = used \cup Range(bs) /\ freeBlocks' = freeBlocks - Len(bs)
      /\ disk' = [dir |-> dir', numFiles |-> numFiles', node |-> node', used |-> used',
                  freeBlocks |-> freeBlocks']
      /\ status' = status
  BY DEF Import, Mark
<1>2. Fits(bs, NumBlocksOf(Len(f))) /\ NumBlocksOf(Len(f)) \in Nat /\ Len(f) \in Nat
  BY <1>1, ImportFits
<1>3. e \in Inode /\ node[e].libre
  <2>1. FreeNodes \subseteq Nat
    BY ImportFSAssumption DEF FreeNodes, Inode
  <2> QED BY <1>1, <2>1, FirstExists DEF FreeNodes
<1>4. r \in NodeType /\ r.blocks = bs /\ r.libre = FALSE
  BY <1>2 DEF NodeType, Fits
<1> HIDE DEF bs, r
<1>5. /\ node' \in [Inode -> NodeType] /\ node'[e] = r
      /\ \A i \in Inode \ {e} : node'[i] = node[i]
  BY <1>1, <1>3, <1>4 DEF BlockInv
<1>6. /\ Owned(e)' = Range(bs) /\ Owned(e) = {}
      /\ \A i \in Inode \ {e} : Owned(i)' = Owned(i)
  <2>1. node[e].blocks = <<>> /\ Range(<<>>) = {}
    BY <1>3 DEF BlockInv, Range
  <2> QED BY <1>4, <1>5, <2>1 DEF Owned
<1>7. Range(bs) \cap used = {} /\ Range(bs) \subseteq 0 .. NumBlocks - 1
  BY <1>2 DEF Fits, Free
<1>8. /\ used = 0 .. Reserved - 1 \cup UNION {Owned(i) : i \in Inode}
      /\ \A i \in Inode : Owned(i) \subseteq used
      /\ 0 .. Reserved - 1 \subseteq used
  BY DEF BlockInv, OneOwner
<1>9. OneOwner'
  <2>1. ASSUME NEW i \in Inode, NEW j \in Inode, i # j
        PROVE  Owned(i)' \cap Owned(j)' = {}
    <3>1. CASE i = e
      BY <1>6, <1>7, <1>8, <2>1, <3>1
    <3>2. CASE j = e
      BY <1>6, <1>7, <1>8, <2>1, <3>2
    <3>3. CASE i # e /\ j # e
      BY <1>6, <2>1, <3>3 DEF BlockInv, OneOwner
    <3> QED BY <3>1, <3>2, <3>3
  <2>2. ASSUME NEW i \in Inode PROVE IsInjective(node'[i].blocks)
    BY <1>2, <1>4, <1>5 DEF BlockInv, OneOwner, Fits
  <2>3. used' = 0 .. Reserved - 1 \cup UNION {Owned(i)' : i \in Inode}
    BY <1>1, <1>3, <1>6, <1>8
  <2>4. \A i \in Inode : Owned(i)' \cap 0 .. Reserved - 1 = {}
    BY <1>6, <1>7, <1>8 DEF BlockInv, OneOwner
  <2> QED BY <2>1, <2>2, <2>3, <2>4 DEF OneOwner
<1>10. freeBlocks' = Quota(used')
  <2>1. Free' = Free \ Range(bs) /\ Free = Free' \cup Range(bs) /\ Free' \cap Range(bs) = {}
    BY <1>1, <1>2 DEF Free, Fits
  <2>2. IsFiniteSet(Free) /\ Cardinality(Free) = freeBlocks
    BY FreeFinite DEF BlockInv
  <2>3. IsFiniteSet(Range(bs)) /\ Cardinality(Range(bs)) = Len(bs) /\ Len(bs) \in Nat
    BY <1>2, RangeSize DEF Fits
  <2>4. IsFiniteSet(Free') /\ Cardinality(Free') \in Nat
    BY <2>1, <2>2, FS_Subset, FS_CardinalityType
  <2>5. Cardinality(Free' \cup Range(bs)) = Cardinality(Free') + Cardinality(Range(bs))
                                           - Cardinality(Free' \cap Range(bs))
    BY <2>3, <2>4, FS_Union
  <2>6. Cardinality(Free' \cap Range(bs)) = 0
    BY <2>1, FS_EmptySet
  <2>7. Cardinality(Free) = Cardinality(Free') + Len(bs)
    <3>1. Cardinality(Free) = Cardinality(Free' \cup Range(bs))
      BY <2>1
    <3> QED BY <2>3, <2>4, <2>5, <2>6, <3>1
  <2>8. Cardinality(Free') = freeBlocks - Len(bs)
    BY <2>2, <2>3, <2>4, <2>7
  <2> QED BY <1>1, <2>8 DEF Free, Quota
<1>11. DiskIsCurrent'
  BY <1>1 DEF DiskIsCurrent
<1>12. used' \subseteq 0 .. NumBlocks - 1
  BY <1>1, <1>7 DEF BlockInv
<1>13. \A i \in Inode : node'[i].libre => node'[i].blocks = <<>>
  BY <1>4, <1>5 DEF BlockInv
<1> QED BY <1>1, <1>5, <1>9, <1>10, <1>11, <1>12, <1>13 DEF BlockInv

\* An entry without a node has no blocks.
LEMMA ImportWithoutNodeBlocks ==
  ASSUME BlockInv, NEW n \in Name, NEW f \in File, ImportWithoutNode(f, n)
  PROVE  BlockInv'
<1>1. /\ UNCHANGED <<node, used, freeBlocks, data, status>>
      /\ disk' = [disk EXCEPT !.dir = dir', !.numFiles = numFiles']
  BY DEF ImportWithoutNode
<1>2. DiskIsCurrent'
  <2> SUFFICES ASSUME \A b \in 0 .. Reserved - 1 : data[b] # Blank
               PROVE  disk' = [dir |-> dir', numFiles |-> numFiles', node |-> node',
                               used |-> used', freeBlocks |-> freeBlocks']
    BY <1>1 DEF DiskIsCurrent
  <2>1. disk = [dir |-> dir, numFiles |-> numFiles, node |-> node, used |-> used,
                freeBlocks |-> freeBlocks]
    BY DEF BlockInv, DiskIsCurrent
  <2> QED BY <1>1, <2>1
<1> QED BY <1>1, <1>2 DEF BlockInv, OneOwner, Owned, Quota

\* The blocks of a removed file are nobody else's, and free again.
LEMMA RmBlocks ==
  ASSUME EntryInv, BlockInv, NEW n \in Name, Rm(n)
  PROVE  BlockInv'
<1> PICK e : e = Pos(n)
  OBVIOUS
<1>1. e \in Entry /\ dir[e] # Null
  BY PosIsListed DEF Rm
<1>2. CASE Dangling(e)
  BY <1>2, SameBlocks DEF Rm, Crash
<1>3. CASE ~Dangling(e)
  <2>1. dir[e].node = e /\ e \in Inode
    BY <1>1, <1>3 DEF EntryInv, EntryOwnsItsNode, Dangling, NoNode
  <2>2. /\ node' = [node EXCEPT ![e] = NoFile]
        /\ used' = used \ Range(node[e].blocks)
        /\ freeBlocks' = freeBlocks + Len(node[e].blocks)
        /\ disk' = WriteAll(disk)
        /\ UNCHANGED <<data, status>>
    BY <1>3, <2>1 DEF Rm, Regained
  <2>3. NoFile \in NodeType /\ NoFile.blocks = <<>> /\ Range(NoFile.blocks) = {}
        /\ IsInjective(NoFile.blocks)
    BY DEF NoFile, NodeType, Range, IsInjective
  <2>4. /\ node' \in [Inode -> NodeType] /\ node'[e] = NoFile
        /\ \A i \in Inode \ {e} : node'[i] = node[i]
    BY <2>1, <2>2, <2>3 DEF BlockInv
  <2>5. /\ Owned(e)' = {} /\ used' = used \ Owned(e)
        /\ \A i \in Inode \ {e} : Owned(i)' = Owned(i)
    BY <2>2, <2>3, <2>4 DEF Owned
  <2>6. /\ used = 0 .. Reserved - 1 \cup UNION {Owned(i) : i \in Inode}
        /\ \A i, j \in Inode : i # j => Owned(i) \cap Owned(j) = {}
        /\ \A i \in Inode : Owned(i) \cap 0 .. Reserved - 1 = {}
    BY DEF BlockInv, OneOwner
  <2>7. OneOwner'
    <3>1. used' = 0 .. Reserved - 1 \cup UNION {Owned(i)' : i \in Inode}
      <4>1. ASSUME NEW b \in used' PROVE b \in 0 .. Reserved - 1 \cup UNION {Owned(i)' : i \in Inode}
        <5>1. CASE b \in 0 .. Reserved - 1
          BY <5>1
        <5>2. CASE b \notin 0 .. Reserved - 1
          <6>1. PICK i \in Inode : b \in Owned(i)
            BY <2>5, <2>6, <4>1, <5>2
          <6>2. i # e
            BY <2>5, <4>1, <6>1
          <6> QED BY <2>5, <6>1, <6>2
        <5> QED BY <5>1, <5>2
      <4>2. 0 .. Reserved - 1 \subseteq used'
        BY <2>1, <2>5, <2>6
      <4>3. ASSUME NEW i \in Inode PROVE Owned(i)' \subseteq used'
        <5>1. CASE i = e
          BY <2>5, <5>1
        <5>2. CASE i # e
          <6>1. Owned(i) \subseteq used /\ Owned(i) \cap Owned(e) = {}
            BY <2>1, <2>6, <5>2
          <6> QED BY <2>5, <5>2, <6>1
        <5> QED BY <5>1, <5>2
      <4> QED BY <4>1, <4>2, <4>3
    <3>2. \A i, j \in Inode : i # j => Owned(i)' \cap Owned(j)' = {}
      <4> TAKE i, j \in Inode
      <4>1. (i = e \/ Owned(i)' = Owned(i)) /\ (j = e \/ Owned(j)' = Owned(j))
        BY <2>5
      <4> QED BY <2>5, <2>6, <4>1
    <3>3. \A i \in Inode : Owned(i)' \cap 0 .. Reserved - 1 = {}
      BY <2>5, <2>6
    <3>4. \A i \in Inode : IsInjective(node'[i].blocks)
      BY <2>3, <2>4 DEF BlockInv, OneOwner
    <3> QED BY <3>1, <3>2, <3>3, <3>4 DEF OneOwner
  <2>8. freeBlocks' = Quota(used')
    <3>1. Owned(e) \subseteq 0 .. NumBlocks - 1 /\ IsFiniteSet(Owned(e))
          /\ Owned(e) \subseteq used /\ Cardinality(Owned(e)) = Len(node[e].blocks)
      BY <2>1, OwnedFinite DEF BlockInv
    <3>2. Free' = Free \cup Owned(e) /\ Free \cap Owned(e) = {}
      BY <2>5, <3>1 DEF Free
    <3>3. IsFiniteSet(Free) /\ Cardinality(Free) = freeBlocks /\ freeBlocks \in Nat
      BY FreeFinite, ImportFSAssumption DEF BlockInv
    <3>4. Cardinality(Free \cup Owned(e)) = Cardinality(Free) + Cardinality(Owned(e))
                                            - Cardinality(Free \cap Owned(e))
      BY <3>1, <3>3, FS_Union
    <3>5. Cardinality(Free \cap Owned(e)) = 0
      BY <3>2, FS_EmptySet
    <3>6. Len(node[e].blocks) \in Nat
      BY <2>1 DEF BlockInv, NodeType
    <3>7. Cardinality(Free') = freeBlocks + Len(node[e].blocks)
      BY <3>1, <3>2, <3>3, <3>4, <3>5, <3>6
    <3> QED BY <2>2, <3>7 DEF Free, Quota
  <2>9. DiskIsCurrent'
    BY <2>2 DEF BlockInv, DiskIsCurrent, WriteAll
  <2>10. \A i \in Inode : node'[i].libre => node'[i].blocks = <<>>
    BY <2>3, <2>4 DEF BlockInv
  <2>11. used' \subseteq 0 .. NumBlocks - 1
    BY <2>5 DEF BlockInv
  <2> QED BY <2>2, <2>4, <2>7, <2>8, <2>9, <2>10, <2>11 DEF BlockInv
<1> QED BY <1>2, <1>3

\* Every command keeps the tables of the blocks.
LEMMA BlockNext == EntryInv /\ BlockInv /\ [Next]_vars => BlockInv'
<1> SUFFICES ASSUME EntryInv, BlockInv, [Next]_vars PROVE BlockInv'
  OBVIOUS
<1>1. status \in {"running", "exited", "crashed"}
  BY DEF BlockInv
<1>2. ASSUME NEW n \in Name, NEW f \in File, Export(n, f) PROVE BlockInv'
  BY <1>1, <1>2, SameBlocks DEF Export, Crash
<1>3. CASE Ls
  BY <1>3, SameBlocks DEF Ls, Crash
<1>4. CASE Exit
  BY <1>4, SameBlocks DEF Exit
<1>5. CASE UNCHANGED vars
  BY <1>1, <1>5, SameBlocks DEF vars
<1> QED
  BY <1>2, <1>3, <1>4, <1>5, ImportBlocks, ImportWithoutNodeBlocks, RmBlocks DEF Next

\* The two invariants say more than Accounts.
LEMMA AccountsAre == EntryInv /\ BlockInv => Accounts
<1> SUFFICES ASSUME EntryInv, BlockInv PROVE Accounts
  OBVIOUS
<1>1. numFiles \in 0 .. NumEntries
  <2>1. Cardinality(Used) <= NumEntries /\ Cardinality(Used) \in Nat
    BY UsedFinite, FS_Subset DEF Used
  <2> QED BY <2>1, ImportFSAssumption DEF EntryInv
<1>2. freeBlocks \in 0 .. NumBlocks
  BY FreeFinite DEF BlockInv
<1>3. TypeOK
  BY <1>1, <1>2 DEF TypeOK, EntryInv, EntryType, BlockInv
<1>4. CountersMatch
  BY DEF CountersMatch, EntryInv, Used, BlockInv
<1> QED BY <1>3, <1>4 DEF Accounts, BlockInv

\* The entries and the blocks, in every state
LEMMA BlockInvariance == Spec => [](EntryInv /\ BlockInv)
BY EntryInit, EntryNext, BlockInit, BlockNext, PTL DEF Spec

(* In any history of commands, for tables and disks of any size and any    *)
(* files, a block belongs to the system or to one file, once; the map      *)
(* marks these blocks and no other; the counters of the super block and of *)
(* the directory, by which myImport decides that there is room, agree with *)
(* the map and the directory; and the disk holds what the memory holds, as *)
(* long as no empty file was written over it.                              *)
THEOREM AccountsAgree == Spec => []Accounts
BY BlockInvariance, AccountsAre, PTL

\* Division with remainder
LEMMA Divide ==
  ASSUME NEW a \in Nat, NEW b \in Nat \ {0}
  PROVE  /\ a \div b \in Nat /\ a % b \in 0 .. b - 1
         /\ a = b * (a \div b) + (a % b)
OBVIOUS

\* A common factor is cancelled.
LEMMA LessTimes ==
  ASSUME NEW b \in Nat \ {0}, NEW x \in Int, NEW y \in Int, b * x < b * y
  PROVE  x < y
OBVIOUS

\* The blocks of a file that is not empty hold it, the last one not quite.
LEMMA Division ==
  ASSUME NEW size \in Nat \ {0}
  PROVE  /\ NumBlocksOf(size) \in Nat \ {0} /\ LastBytes(size) \in 1 .. BlockSize
         /\ (NumBlocksOf(size) - 1) * BlockSize + LastBytes(size) = size
<1> DEFINE B == BlockSize
           a == size + B - 1
           N == a \div B
           r == a % B
<1>1. B \in Nat \ {0} /\ a \in Nat
  BY ImportFSAssumption
<1>2. N \in Nat /\ r \in 0 .. B - 1 /\ a = B * N + r
  BY <1>1, Divide
<1>3. NumBlocksOf(size) = N /\ LastBytes(size) = B - (N * B - size)
  BY DEF NumBlocksOf, LastBytes
<1> HIDE DEF N, r
<1>4. N # 0
  BY <1>1, <1>2
<1>5. N * B \in Nat /\ N * B = B * N /\ (N - 1) * B = N * B - B
  BY <1>1, <1>2
<1>6. N * B - size = B - 1 - r
  BY <1>1, <1>2, <1>5
<1> HIDE DEF a
<1>7. B - (N * B - size) = r + 1 /\ (N - 1) * B + (r + 1) = size
  BY <1>1, <1>2, <1>5, <1>6
<1> QED BY <1>1, <1>2, <1>3, <1>4, <1>7

\* Byte k of a file is byte (k - 1) % BlockSize + 1 of one of its blocks.
LEMMA Place ==
  ASSUME NEW size \in Nat \ {0}, NEW k \in 1 .. size
  PROVE  LET i == ((k - 1) \div BlockSize) + 1
             j == ((k - 1) % BlockSize) + 1
         IN  /\ i \in 1 .. NumBlocksOf(size) /\ j \in 1 .. BlockSize
             /\ (i - 1) * BlockSize + j = k
             /\ i = NumBlocksOf(size) => j <= LastBytes(size)
<1> DEFINE B == BlockSize
           q == (k - 1) \div B
           r == (k - 1) % B
           N == NumBlocksOf(size)
           L == LastBytes(size)
<1>1. B \in Nat \ {0} /\ k - 1 \in Nat
  BY ImportFSAssumption
<1>2. q \in Nat /\ r \in 0 .. B - 1 /\ k - 1 = B * q + r
  BY <1>1, Divide
<1>3. N \in Nat \ {0} /\ L \in 1 .. B /\ (N - 1) * B + L = size
  BY Division
<1> HIDE DEF q, r, N, L
<1>4. (N - 1) * B = B * N - B /\ B * N \in Nat /\ B * q \in Nat /\ q * B = B * q
  BY <1>1, <1>2, <1>3
<1>5. B * q < B * N
  BY <1>1, <1>2, <1>3, <1>4
<1>6. q < N
  BY <1>1, <1>2, <1>3, <1>5, LessTimes
<1>7. q + 1 \in 1 .. N /\ r + 1 \in 1 .. B /\ (q + 1) - 1 = q
  BY <1>1, <1>2, <1>3, <1>6
<1>8. q * B + (r + 1) = k
  BY <1>1, <1>2, <1>4
<1>9. q + 1 = N => r + 1 <= L
  <2> SUFFICES ASSUME q + 1 = N PROVE r + 1 <= L
    OBVIOUS
  <2>1. N - 1 = q
    BY <1>2, <1>3
  <2>2. q * B + L = size
    BY <1>3, <2>1
  <2> QED BY <1>1, <1>2, <1>3, <1>4, <1>8, <2>2
<1> QED BY <1>7, <1>8, <1>9 DEF q, r, N, L

\* What escribeDatos writes to the blocks of a file, the loop of myExport reads.
LEMMA ReadBack ==
  ASSUME NEW f \in File, f # <<>>, NEW bs, Fits(bs, NumBlocksOf(Len(f)))
  PROVE  [k \in 1 .. (Len(bs) - 1) * BlockSize + LastBytes(Len(f)) |->
            Written(f, bs)[bs[((k - 1) \div BlockSize) + 1]][((k - 1) % BlockSize) + 1]] = f
<1> DEFINE W == Written(f, bs)
           N == NumBlocksOf(Len(f))
           I(k) == ((k - 1) \div BlockSize) + 1
           J(k) == ((k - 1) % BlockSize) + 1
<1>1. f \in Seq(Byte) /\ Len(f) \in Nat \ {0} /\ f = [k \in 1 .. Len(f) |-> f[k]]
  BY ImportFSAssumption
<1>2. /\ bs \in Seq(Block) /\ Len(bs) = N /\ IsInjective(bs) /\ DOMAIN bs = 1 .. N
      /\ N \in Nat \ {0}
  BY <1>1, Division DEF Fits
<1>3. (Len(bs) - 1) * BlockSize + LastBytes(Len(f)) = Len(f)
  BY <1>1, <1>2, Division
<1>4. ASSUME NEW k \in 1 .. Len(f) PROVE W[bs[I(k)]][J(k)] = f[k]
  <2> DEFINE i == I(k)
             j == J(k)
  <2>1. /\ i \in 1 .. N /\ j \in 1 .. BlockSize /\ (i - 1) * BlockSize + j = k
        /\ i = N => j <= LastBytes(Len(f))
    BY <1>1, Place
  <2> HIDE DEF i, j
  <2>2. bs[i] \in Range(bs) /\ bs[i] \in Block
    BY <1>2, <2>1 DEF Range
  <2> DEFINE c == CHOOSE m \in DOMAIN bs : bs[m] = bs[i]
  <2>3. c = i
    BY <1>2, <2>1 DEF IsInjective
  <2> HIDE DEF c
  <2> DEFINE n == IF c = Len(bs) THEN LastBytes(Len(f)) ELSE BlockSize
  <2>4. W[bs[i]] = [m \in 1 .. BlockSize |->
                      IF m <= n THEN f[(c - 1) * BlockSize + m] ELSE data[bs[i]][m]]
    BY <2>2 DEF Written, c
  <2>5. j <= n
    BY <1>2, <2>1, <2>3
  <2> HIDE DEF n, W
  <2>6. W[bs[i]][j] = f[(c - 1) * BlockSize + j]
    BY <2>1, <2>4, <2>5
  <2>7. W[bs[i]][j] = f[k]
    BY <2>1, <2>3, <2>6
  <2> QED BY <2>7 DEF i, j
<1> HIDE DEF W
<1>5. \A k \in 1 .. Len(f) : W[bs[((k - 1) \div BlockSize) + 1]][((k - 1) % BlockSize) + 1] = f[k]
  BY <1>4
<1> DEFINE g == [k \in 1 .. Len(f) |->
                   W[bs[((k - 1) \div BlockSize) + 1]][((k - 1) % BlockSize) + 1]]
<1>6. g = f
  BY <1>1, <1>5
<1> QED BY <1>3, <1>6 DEF W
-----------------------------------------------------------------------------
\* A name has one entry, a file as many blocks as its size needs, and a block of
\* a file BlockSize bytes.
ContentInv ==
    /\ \A d, e \in Entry :
          dir[d] # Null /\ dir[e] # Null /\ dir[d].name = dir[e].name => d = e
    /\ \A i \in Inode : ~node[i].libre => Len(node[i].blocks) = NumBlocksOf(node[i].size)
    /\ data = [b \in Block |-> data[b]]
    /\ \A b \in Block \ (0 .. Reserved - 1) : data[b] \in [1 .. BlockSize -> Byte]

\* Everything that the refinement needs to know of a state
FullInv == EntryInv /\ BlockInv /\ ContentInv

\* The contents of a block that nobody wrote
BlankByte == Blank \in [1 .. BlockSize -> Byte]

\* They are bytes as well.
LEMMA BlankType == BlankByte
BY DEF Blank, Byte, BlankByte

\* A disk that has just been formatted
LEMMA ContentInit == Init => ContentInv
<1> SUFFICES ASSUME Init PROVE ContentInv
  OBVIOUS
<1>1. \A b \in Block \ (0 .. Reserved - 1) : data[b] \in [1 .. BlockSize -> Byte]
  <2> TAKE b \in Block \ (0 .. Reserved - 1)
  <2>1. ~(b < Reserved) /\ data[b] = IF b < Reserved THEN <<>> ELSE Blank
    BY ImportFSAssumption DEF Init, Block
  <2> QED BY <2>1, BlankType DEF BlankByte
<1>2. data = [b \in Block |-> data[b]]
  BY DEF Init
<1>3. (\A e \in Entry : dir[e] = Null) /\ \A i \in Inode : node[i].libre
  BY DEF Init, NoFile
<1> QED BY <1>1, <1>2, <1>3 DEF ContentInv

\* escribeDatos leaves the blocks of other files alone, and writes bytes.
LEMMA WrittenType ==
  ASSUME ContentInv, NEW f \in File, f # <<>>, NEW bs, Fits(bs, NumBlocksOf(Len(f)))
  PROVE  /\ Written(f, bs) = [b \in Block |-> Written(f, bs)[b]]
         /\ \A b \in Block \ Range(bs) : Written(f, bs)[b] = data[b]
         /\ \A b \in Block \ (0 .. Reserved - 1) : Written(f, bs)[b] \in [1 .. BlockSize -> Byte]
<1> DEFINE W == Written(f, bs)
           N == NumBlocksOf(Len(f))
<1>1. /\ f \in Seq(Byte) /\ Len(f) \in Nat \ {0}
      /\ \A k \in 1 .. Len(f) : f[k] \in Byte
  BY ImportFSAssumption
<1>2. /\ bs \in Seq(Block) /\ Len(bs) = N /\ IsInjective(bs) /\ DOMAIN bs = 1 .. N
      /\ N \in Nat \ {0}
  BY <1>1, Division DEF Fits
<1>3. W = [b \in Block |-> W[b]] /\ \A b \in Block \ Range(bs) : W[b] = data[b]
  BY DEF Written
<1>4. ASSUME NEW b \in Block \ (0 .. Reserved - 1) PROVE W[b] \in [1 .. BlockSize -> Byte]
  <2>0. data[b] \in [1 .. BlockSize -> Byte]
    BY DEF ContentInv
  <2>1. CASE b \notin Range(bs)
    BY <1>3, <2>0, <2>1
  <2>2. CASE b \in Range(bs)
    <3> DEFINE i == CHOOSE m \in DOMAIN bs : bs[m] = b
               n == IF i = Len(bs) THEN LastBytes(Len(f)) ELSE BlockSize
    <3>1. i \in 1 .. N
      BY <1>2, <2>2 DEF Range
    <3>2. W[b] = [k \in 1 .. BlockSize |->
                    IF k <= n THEN f[(i - 1) * BlockSize + k] ELSE data[b][k]]
      BY <2>2 DEF Written
    <3> HIDE DEF i, W
    <3>3. ASSUME NEW k \in 1 .. BlockSize, k <= n PROVE (i - 1) * BlockSize + k \in 1 .. Len(f)
      <4> DEFINE B == BlockSize
                 L == LastBytes(Len(f))
      <4>1. /\ L \in 1 .. B /\ (N - 1) * B + L = Len(f)
            /\ B \in Nat \ {0}
        BY <1>1, Division, ImportFSAssumption
      <4> HIDE DEF N, L
      <4>2. CASE i = N
        <5>1. k <= L
          BY <1>2, <3>3, <4>2 DEF L
        <5>2. (N - 1) * B \in Nat
          BY <1>2, <4>1
        <5> QED BY <4>1, <4>2, <5>1, <5>2
      <4>3. CASE i # N
        <5>1. i <= N - 1 /\ i \in Nat /\ N - 1 \in Nat
          BY <1>2, <3>1, <4>3
        <5>2. i * B <= (N - 1) * B /\ (i - 1) * B = i * B - B /\ (i - 1) * B \in Nat
          BY <3>1, <4>1, <5>1
        <5>3. i * B \in Nat /\ (N - 1) * B \in Nat
          BY <4>1, <5>1
        <5> QED BY <1>1, <4>1, <5>2, <5>3
      <4> QED BY <4>2, <4>3
    <3> HIDE DEF n
    <3> QED BY <1>1, <2>0, <3>2, <3>3
  <2> QED BY <2>1, <2>2
<1> QED BY <1>3, <1>4

\* The import of an empty file writes one block.
LEMMA WrittenAtType ==
  ASSUME ContentInv, NEW c \in Block
  PROVE  /\ WrittenAt(c) = [b \in Block |-> WrittenAt(c)[b]]
         /\ \A b \in Block \ {c} : WrittenAt(c)[b] = data[b]
         /\ \A b \in Block \ (0 .. Reserved - 1) : WrittenAt(c)[b] \in [1 .. BlockSize -> Byte]
<1>1. WrittenAt(c) = [b \in Block |-> IF b = c THEN Blank ELSE data[b]]
  BY DEF ContentInv, WrittenAt
<1> QED BY <1>1, BlankType DEF ContentInv, BlankByte

\* The new entry is the only one with its name.
LEMMA NameAdded ==
  ASSUME EntryInv, ContentInv, NEW n \in Name, AddEntry(n), ~Listed(n)
  PROVE  /\ FreeEntry \in Entry /\ dir[FreeEntry] = Null
         /\ dir'[FreeEntry] # Null /\ dir'[FreeEntry].name = n
         /\ \A e \in Entry \ {FreeEntry} : dir'[e] = dir[e]
         /\ \A e \in Entry \ {FreeEntry} : dir[e] # Null => dir[e].name # n
         /\ \A d, e \in Entry :
               dir'[d] # Null /\ dir'[e] # Null /\ dir'[d].name = dir'[e].name => d = e
<1>1. FreeEntry \in Entry /\ dir[FreeEntry] = Null
  BY FreeEntryExists DEF AddEntry
<1>2. dir'[FreeEntry] # Null /\ \A e \in Entry \ {FreeEntry} : dir'[e] = dir[e]
  BY EntryAdded
<1>3. dir'[FreeEntry].name = n
  <2>1. dir' = [dir EXCEPT ![FreeEntry] = [name |-> n, node |-> FreeEntry]]
    BY DEF AddEntry
  <2>2. dir'[FreeEntry] = [name |-> n, node |-> FreeEntry]
    BY <1>1, <2>1 DEF EntryInv
  <2> QED BY <2>2
<1>4. \A e \in Entry : dir[e] # Null => dir[e].name # n
  BY DEF Listed
<1>5. ASSUME NEW d \in Entry, NEW e \in Entry, dir'[d] # Null, dir'[e] # Null,
             dir'[d].name = dir'[e].name
      PROVE  d = e
  <2>1. CASE d = FreeEntry \/ e = FreeEntry
    BY <1>2, <1>3, <1>4, <1>5, <2>1
  <2>2. CASE d # FreeEntry /\ e # FreeEntry
    BY <1>2, <1>5, <2>2 DEF ContentInv
  <2> QED BY <2>1, <2>2
<1> QED BY <1>1, <1>2, <1>3, <1>4, <1>5

\* What an import does to the nodes and to the data
Imported(f, e, bs) ==
    /\ e = FreeEntry /\ bs = FirstFit(NumBlocksOf(Len(f)))
    /\ Fits(bs, NumBlocksOf(Len(f)))
    /\ node'[e] = [libre |-> FALSE, size |-> Len(f), blocks |-> bs]
    /\ \A i \in Inode \ {e} : node'[i] = node[i]
    /\ (bs = <<>>) <=> (f = <<>>)
    /\ IF bs = <<>> THEN \E b \in Block : data' = WrittenAt(b) ELSE data' = Written(f, bs)

\* An import takes the node with the number of the entry, and fresh blocks.
LEMMA ImportResult ==
  ASSUME EntryInv, BlockInv, ContentInv, NEW n \in Name, NEW f \in File, Import(f, n)
  PROVE  \E e \in Inode \cap Entry, bs \in Seq(Block) : Imported(f, e, bs)
<1> PICK bs : bs = FirstFit(NumBlocksOf(Len(f)))
  OBVIOUS
<1>1. /\ MayImport(f, n) /\ AddEntry(n) /\ FreeNodes # {}
      /\ node' = [node EXCEPT ![FirstOf(FreeNodes)] =
                                 [libre |-> FALSE, size |-> Len(f), blocks |-> bs]]
      /\ IF bs = <<>> THEN \E b \in Block : data' = WrittenAt(b) ELSE data' = Written(f, bs)
  BY DEF Import
<1>2. Fits(bs, NumBlocksOf(Len(f))) /\ NumBlocksOf(Len(f)) \in Nat /\ Len(f) \in Nat
  BY <1>1, ImportFits
<1>3. FirstOf(FreeNodes) = FreeEntry /\ FreeEntry \in Inode /\ FreeEntry \in Entry
  BY <1>1, SameNumber, FreeEntryExists DEF AddEntry
<1>4. bs = <<>> <=> f = <<>>
  <2>1. f \in Seq(Byte) /\ bs \in Seq(Block) /\ Len(bs) = NumBlocksOf(Len(f))
    BY <1>2, ImportFSAssumption DEF Fits
  <2>2. (Len(f) = 0 <=> f = <<>>) /\ (Len(bs) = 0 <=> bs = <<>>)
    BY <2>1
  <2>3. Len(f) = 0 => NumBlocksOf(Len(f)) = 0
    <3>1. \A B \in Nat \ {0} : (0 + B - 1) \div B = 0
      OBVIOUS
    <3> QED BY <3>1, ImportFSAssumption DEF NumBlocksOf
  <2>4. Len(f) # 0 => NumBlocksOf(Len(f)) # 0
    BY <1>2, Division
  <2> QED BY <2>1, <2>2, <2>3, <2>4
<1>5. /\ node'[FreeEntry] = [libre |-> FALSE, size |-> Len(f), blocks |-> bs]
      /\ \A i \in Inode \ {FreeEntry} : node'[i] = node[i]
  BY <1>1, <1>3 DEF BlockInv
<1>6. Imported(f, FreeEntry, bs) /\ bs \in Seq(Block)
  BY <1>1, <1>2, <1>4, <1>5 DEF Imported, Fits
<1> QED BY <1>3, <1>6

\* An import that finds a node
LEMMA ImportContent ==
  ASSUME EntryInv, BlockInv, ContentInv, NEW n \in Name, NEW f \in File, Import(f, n)
  PROVE  ContentInv'
<1>0. PICK e \in Inode \cap Entry, bs \in Seq(Block) : Imported(f, e, bs)
  BY ImportResult
<1>1. /\ e = FreeEntry /\ bs = FirstFit(NumBlocksOf(Len(f)))
      /\ Fits(bs, NumBlocksOf(Len(f)))
      /\ node'[e] = [libre |-> FALSE, size |-> Len(f), blocks |-> bs]
      /\ \A i \in Inode \ {e} : node'[i] = node[i]
      /\ (bs = <<>>) <=> (f = <<>>)
      /\ IF bs = <<>> THEN \E b \in Block : data' = WrittenAt(b) ELSE data' = Written(f, bs)
  BY <1>0 DEF Imported
<1>2. \A i \in Inode : ~node'[i].libre => Len(node'[i].blocks) = NumBlocksOf(node'[i].size)
  BY <1>1 DEF ContentInv, Fits
<1>3. \A d, c \in Entry :
         dir'[d] # Null /\ dir'[c] # Null /\ dir'[d].name = dir'[c].name => d = c
  BY NameAdded DEF Import, MayImport
<1>4. /\ data' = [b \in Block |-> data'[b]]
      /\ \A b \in Block \ (0 .. Reserved - 1) : data'[b] \in [1 .. BlockSize -> Byte]
  BY <1>1, WrittenType, WrittenAtType
<1> QED BY <1>2, <1>3, <1>4 DEF ContentInv

\* An import that finds none
LEMMA ImportWithoutNodeContent ==
  ASSUME EntryInv, ContentInv, NEW n \in Name, NEW f \in File, ImportWithoutNode(f, n)
  PROVE  ContentInv'
<1>1. ~Listed(n) /\ AddEntry(n) /\ UNCHANGED <<node, data>>
  BY DEF ImportWithoutNode, MayImport
<1>2. \A d, c \in Entry :
         dir'[d] # Null /\ dir'[c] # Null /\ dir'[d].name = dir'[c].name => d = c
  BY <1>1, NameAdded
<1> QED BY <1>1, <1>2 DEF ContentInv

\* What a removal does to the entry and to the node
LEMMA RmResult ==
  ASSUME EntryInv, BlockInv, NEW n \in Name, Rm(n), ~Dangling(Pos(n))
  PROVE  \E e \in Inode \cap Entry :
            /\ dir[e] # Null /\ dir[e].name = n
            /\ dir'[e] = Null /\ node'[e] = NoFile
            /\ \A d \in Entry \ {e} : dir'[d] = dir[d]
            /\ \A i \in Inode \ {e} : node'[i] = node[i]
            /\ data' = data /\ out' = <<>>
<1> PICK e : e = Pos(n)
  OBVIOUS
<1>1. e \in Entry /\ dir[e] # Null /\ dir[e].name = n
  <2> DEFINE S == {d \in Entry : dir[d] # Null /\ dir[d].name = n}
  <2>1. S \subseteq Nat /\ S # {}
    BY ImportFSAssumption DEF Rm, Listed, Entry
  <2>2. FirstOf(S) \in S
    BY <2>1, FirstExists
  <2> QED BY <2>2 DEF Pos
<1>2. dir[e].node = e /\ e \in Inode
  BY <1>1 DEF EntryInv, EntryOwnsItsNode, Dangling, NoNode
<1>3. /\ node' = [node EXCEPT ![e] = NoFile] /\ dir' = [dir EXCEPT ![e] = Null]
      /\ data' = data /\ out' = <<>>
  BY <1>2 DEF Rm, Cleared
<1> QED BY <1>1, <1>2, <1>3 DEF EntryInv, BlockInv

\* A removal, or the end of the program in it
LEMMA RmContent ==
  ASSUME EntryInv, BlockInv, ContentInv, NEW n \in Name, Rm(n)
  PROVE  ContentInv'
<1>1. CASE Dangling(Pos(n))
  BY <1>1 DEF Rm, Crash, ContentInv, memory
<1>2. CASE ~Dangling(Pos(n))
  <2>1. PICK e \in Inode \cap Entry :
            /\ dir[e] # Null /\ dir[e].name = n
            /\ dir'[e] = Null /\ node'[e] = NoFile
            /\ \A d \in Entry \ {e} : dir'[d] = dir[d]
            /\ \A i \in Inode \ {e} : node'[i] = node[i]
            /\ data' = data /\ out' = <<>>
    BY <1>2, RmResult
  <2>2. NoFile.libre
    BY DEF NoFile
  <2> QED BY <2>1, <2>2 DEF ContentInv
<1> QED BY <1>1, <1>2

\* Every command keeps names, sizes and data in order.
LEMMA ContentNext == EntryInv /\ BlockInv /\ ContentInv /\ [Next]_vars => ContentInv'
<1> SUFFICES ASSUME EntryInv, BlockInv, ContentInv, [Next]_vars PROVE ContentInv'
  OBVIOUS
<1>1. ASSUME UNCHANGED <<memory, data>> PROVE ContentInv'
  BY <1>1 DEF ContentInv, memory
<1>2. ASSUME NEW n \in Name, NEW f \in File, Export(n, f) PROVE ContentInv'
  BY <1>1, <1>2 DEF Export, Crash
<1>3. CASE Ls
  BY <1>1, <1>3 DEF Ls, Crash
<1>4. CASE Exit
  BY <1>1, <1>4 DEF Exit
<1>5. CASE UNCHANGED vars
  BY <1>1, <1>5 DEF vars
<1> QED
  BY <1>2, <1>3, <1>4, <1>5, ImportContent, ImportWithoutNodeContent, RmContent DEF Next

\* The whole invariant, in every state
LEMMA FullInvariance == Spec => []FullInv
BY EntryInit, EntryNext, BlockInit, BlockNext, ContentInit, ContentNext, PTL DEF Spec, FullInv
-----------------------------------------------------------------------------
\* What an entry that is in use holds
EntryHolds(e) ==
    IF e \notin Inode THEN Null ELSE IF node[e].size = 0 THEN Junk ELSE ReadOut(e)

\* What a name holds, said of its entry and not of the search for it
HoldsFacts == \A n \in Name :
    /\ ~Listed(n) => Holds(n) = Null
    /\ \A e \in Entry : dir[e] # Null /\ dir[e].name = n => Holds(n) = EntryHolds(e)

\* The search for a name finds its only entry.
LEMMA HoldsAre == FullInv => HoldsFacts
<1> SUFFICES ASSUME FullInv, NEW n \in Name
             PROVE  /\ ~Listed(n) => Holds(n) = Null
                    /\ \A e \in Entry : dir[e] # Null /\ dir[e].name = n => Holds(n) = EntryHolds(e)
  BY DEF HoldsFacts
<1>1. ~Listed(n) => Holds(n) = Null
  BY DEF Holds
<1>2. ASSUME NEW e \in Entry, dir[e] # Null, dir[e].name = n PROVE Holds(n) = EntryHolds(e)
  <2> DEFINE S == {d \in Entry : dir[d] # Null /\ dir[d].name = n}
  <2>1. S = {e}
    BY <1>2 DEF FullInv, ContentInv
  <2>2. FirstOf(S) \in S
    <3>1. S \subseteq Nat
      BY ImportFSAssumption DEF Entry
    <3> QED BY <2>1, <3>1, FirstExists
  <2>3. Pos(n) = e /\ Listed(n)
    BY <1>2, <2>1, <2>2 DEF Pos, Listed
  <2>4. dir[e].node = e /\ (Dangling(e) <=> e \notin Inode)
    BY <1>2 DEF FullInv, EntryInv, EntryOwnsItsNode, Dangling, NoNode
  <2> QED BY <2>3, <2>4 DEF Holds, EntryHolds
<1> QED BY <1>1, <1>2

\* What a file holds depends on its node and on its blocks alone.
LEMMA ReadOutSame ==
  ASSUME FullInv, NEW e \in Inode, ~node[e].libre, node[e].size # 0
  PROVE  /\ ReadOut(e) \in Seq(Byte)
         /\ node'[e] = node[e] /\ (\A b \in Owned(e) : data'[b] = data[b])
              => ReadOut(e)' = ReadOut(e)
<1> DEFINE size == node[e].size
           bs == node[e].blocks
           i(k) == ((k - 1) \div BlockSize) + 1
           j(k) == ((k - 1) % BlockSize) + 1
<1>1. /\ size \in Nat \ {0} /\ bs \in Seq(Block) /\ Len(bs) = NumBlocksOf(size)
      /\ Owned(e) = Range(bs) /\ Owned(e) \cap 0 .. Reserved - 1 = {}
  BY DEF FullInv, BlockInv, NodeType, ContentInv, Owned, OneOwner
<1>2. (Len(bs) - 1) * BlockSize + LastBytes(size) = size
  BY <1>1, Division
<1>3. ASSUME NEW k \in 1 .. size
      PROVE  bs[i(k)] \in Owned(e) /\ data[bs[i(k)]][j(k)] \in Byte
  <2>1. i(k) \in 1 .. Len(bs) /\ j(k) \in 1 .. BlockSize
    BY <1>1, Place
  <2> HIDE DEF i, j
  <2>2. bs[i(k)] \in Owned(e) /\ bs[i(k)] \in Block
    BY <1>1, <2>1 DEF Range
  <2>3. data[bs[i(k)]] \in [1 .. BlockSize -> Byte]
    BY <1>1, <2>2 DEF FullInv, ContentInv
  <2> QED BY <2>1, <2>2, <2>3
<1>4. ReadOut(e) = [k \in 1 .. size |-> data[bs[i(k)]][j(k)]]
  BY <1>2 DEF ReadOut
<1> DEFINE r == [k \in 1 .. size |-> data[bs[i(k)]][j(k)]]
<1>5. r \in [1 .. size -> Byte]
  <2> HIDE DEF i, j
  <2> QED BY <1>3
<1>6. r \in Seq(Byte)
  BY <1>1, <1>5, SeqDef
<1>7. ASSUME node'[e] = node[e], \A b \in Owned(e) : data'[b] = data[b]
      PROVE  ReadOut(e)' = ReadOut(e)
  <2>1. ReadOut(e)' = [k \in 1 .. size |-> data'[bs[i(k)]][j(k)]]
    BY <1>2, <1>7 DEF ReadOut
  <2> HIDE DEF i, j
  <2>2. \A k \in 1 .. size : data'[bs[i(k)]][j(k)] = data[bs[i(k)]][j(k)]
    BY <1>3, <1>7
  <2> QED BY <1>4, <2>1, <2>2
<1> QED BY <1>4, <1>6, <1>7

\* A name whose entry, node and blocks a command leaves alone holds what it held.
LEMMA SameHolds ==
  ASSUME FullInv, HoldsFacts, HoldsFacts', NEW m \in Name,
         \A e \in Entry : dir'[e] # Null /\ dir'[e].name = m => dir[e] = dir'[e],
         \A e \in Entry : dir[e] # Null /\ dir[e].name = m =>
            /\ dir'[e] = dir[e]
            /\ e \in Inode => /\ node'[e] = node[e]
                              /\ \A b \in Owned(e) : data'[b] = data[b]
  PROVE  Holds(m)' = Holds(m)
<1>1. CASE ~Listed(m)
  <2>1. ~Listed(m)'
    BY <1>1 DEF Listed
  <2> QED BY <1>1, <2>1 DEF HoldsFacts
<1>2. CASE Listed(m)
  <2>1. PICK e \in Entry : dir[e] # Null /\ dir[e].name = m
    BY <1>2 DEF Listed
  <2>2. dir'[e] # Null /\ dir'[e].name = m
    BY <2>1
  <2>3. Holds(m) = EntryHolds(e) /\ Holds(m)' = EntryHolds(e)'
    BY <2>1, <2>2 DEF HoldsFacts
  <2>4. CASE e \notin Inode
    BY <2>3, <2>4 DEF EntryHolds
  <2>5. CASE e \in Inode
    <3>1. ~node[e].libre /\ node'[e] = node[e]
      BY <2>1, <2>5 DEF FullInv, EntryInv, EntryOwnsItsNode
    <3>2. node[e].size # 0 => ReadOut(e)' = ReadOut(e)
      BY <2>1, <2>5, <3>1, ReadOutSame
    <3> QED BY <2>3, <2>5, <3>1, <3>2 DEF EntryHolds
  <2> QED BY <2>4, <2>5
<1> QED BY <1>1, <1>2

\* The state of the abstract store
Contents == [n \in Name |-> Holds(n)]

\* A command that changes neither tables nor data changes no file.
LEMMA SameContents ==
  ASSUME UNCHANGED <<memory, data>>
  PROVE  Contents' = Contents
BY DEF Contents, Holds, Listed, Pos, Dangling, NoNode, ReadOut, memory

\* An import stores the file; an empty one may spoil one other file.
LEMMA StoreImport ==
  ASSUME FullInv, HoldsFacts, HoldsFacts', NEW n \in Name, NEW f \in File, Import(f, n)
  PROVE  Store!Next
<1>0. PICK e \in Inode \cap Entry, bs \in Seq(Block) : Imported(f, e, bs)
  BY ImportResult DEF FullInv
<1>1. /\ e = FreeEntry /\ bs = FirstFit(NumBlocksOf(Len(f)))
      /\ Fits(bs, NumBlocksOf(Len(f)))
      /\ node'[e] = [libre |-> FALSE, size |-> Len(f), blocks |-> bs]
      /\ \A i \in Inode \ {e} : node'[i] = node[i]
      /\ (bs = <<>>) <=> (f = <<>>)
      /\ IF bs = <<>> THEN \E b \in Block : data' = WrittenAt(b) ELSE data' = Written(f, bs)
  BY <1>0 DEF Imported
<1>2. /\ dir[e] = Null /\ dir'[e] # Null /\ dir'[e].name = n
      /\ \A d \in Entry \ {e} : dir'[d] = dir[d]
      /\ \A d \in Entry \ {e} : dir[d] # Null => dir[d].name # n
  BY <1>1, NameAdded DEF Import, MayImport, FullInv
<1>3. Holds(n) = Null /\ out' = <<>>
  BY DEF HoldsFacts, Import, MayImport
<1>4. Holds(n)' = EntryHolds(e)'
  BY <1>1, <1>2 DEF HoldsFacts
<1>5. ASSUME NEW m \in Name, m # n,
             \A d \in Entry \cap Inode : dir[d] # Null /\ dir[d].name = m =>
                \A b \in Owned(d) : data'[b] = data[b]
      PROVE  Holds(m)' = Holds(m)
  <2>1. \A d \in Entry : dir'[d] # Null /\ dir'[d].name = m => dir[d] = dir'[d]
    BY <1>2, <1>5
  <2>2. \A d \in Entry : dir[d] # Null /\ dir[d].name = m => d # e
    BY <1>2
  <2>3. \A d \in Entry : dir[d] # Null /\ dir[d].name = m =>
            /\ dir'[d] = dir[d]
            /\ d \in Inode => /\ node'[d] = node[d]
                              /\ \A b \in Owned(d) : data'[b] = data[b]
    BY <1>1, <1>2, <1>5, <2>2
  <2> QED BY <2>1, <2>3, SameHolds
<1>6. \A i, j \in Inode : i # j => Owned(i) \cap Owned(j) = {}
  BY DEF FullInv, BlockInv, OneOwner
<1>7. CASE f # <<>>
  <2>1. data' = Written(f, bs) /\ bs # <<>> /\ Len(f) # 0
    <3>1. f \in Seq(Byte)
      BY ImportFSAssumption
    <3> QED BY <1>1, <1>7, <3>1
  <2>2. EntryHolds(e)' = f
    <3>1. ReadOut(e)' =
             [k \in 1 .. (Len(bs) - 1) * BlockSize + LastBytes(Len(f)) |->
                data'[bs[((k - 1) \div BlockSize) + 1]][((k - 1) % BlockSize) + 1]]
      BY <1>1 DEF ReadOut
    <3>2. ReadOut(e)' = f
      BY <1>1, <1>7, <2>1, <3>1, ReadBack
    <3>3. node'[e].size = Len(f)
      BY <1>1
    <3> QED BY <1>1, <2>1, <3>2, <3>3 DEF EntryHolds
  <2>3. ASSUME NEW m \in Name, m # n PROVE Holds(m)' = Holds(m)
    <3>1. \A d \in Inode : \A b \in Owned(d) : data'[b] = data[b]
      <4> TAKE d \in Inode
      <4> TAKE b \in Owned(d)
      <4>1. b \in used /\ Range(bs) \cap used = {} /\ b \in Block
        <5>1. Owned(d) \subseteq used
          BY OwnedFinite DEF FullInv
        <5>2. Range(bs) \cap used = {}
          BY <1>1 DEF Fits, Free
        <5>3. used \subseteq Block
          BY ImportFSAssumption DEF FullInv, BlockInv, Block
        <5> QED BY <5>1, <5>2, <5>3
      <4> QED BY <1>1, <1>7, <2>1, <4>1, WrittenType DEF FullInv
    <3> QED BY <1>5, <2>3, <3>1
  <2>4. Contents' = [Contents EXCEPT ![n] = f] /\ Contents[n] = Null
    BY <1>3, <1>4, <2>2, <2>3 DEF Contents
  <2>5. Store!Import(n, f)
    BY <1>3, <1>7, <2>4 DEF Contents, Store!Import
  <2> QED BY <2>5 DEF Store!Next
<1>8. CASE f = <<>>
  <2>1. PICK b \in Block : data' = WrittenAt(b)
    BY <1>1, <1>8
  <2>2. \A c \in Block \ {b} : data'[c] = data[c]
    BY <2>1, WrittenAtType DEF FullInv
  <2>3. EntryHolds(e)' = Junk
    BY <1>1, <1>8 DEF EntryHolds
  <2>4. \A d \in Inode : Owned(d) \subseteq Block
    BY ImportFSAssumption DEF FullInv, BlockInv, NodeType, Owned, Range
  <2>5. \E m \in Name : \A k \in Name \ {n, m} : Holds(k)' = Holds(k)
    <3>1. CASE \E d \in Entry \cap Inode : dir[d] # Null /\ b \in Owned(d)
      <4>1. PICK d \in Entry \cap Inode : dir[d] # Null /\ b \in Owned(d)
        BY <3>1
      <4>2. dir[d].name \in Name
        BY <4>1 DEF FullInv, EntryInv, EntryType
      <4>3. ASSUME NEW k \in Name \ {n, dir[d].name} PROVE Holds(k)' = Holds(k)
        <5>1. ASSUME NEW c \in Entry \cap Inode, dir[c].name = k, NEW x \in Owned(c)
              PROVE  data'[x] = data[x]
          <6>1. c # d /\ x # b /\ x \in Block
            BY <1>6, <2>4, <4>1, <4>3, <5>1
          <6> QED BY <2>2, <6>1
        <5> QED BY <1>5, <4>3, <5>1
      <4> QED BY <4>2, <4>3
    <3>2. CASE ~ \E d \in Entry \cap Inode : dir[d] # Null /\ b \in Owned(d)
      <4>1. ASSUME NEW k \in Name \ {n} PROVE Holds(k)' = Holds(k)
        <5>1. ASSUME NEW c \in Entry \cap Inode, dir[c] # Null, NEW x \in Owned(c)
              PROVE  data'[x] = data[x]
          <6>1. x # b /\ x \in Block
            BY <2>4, <3>2, <5>1
          <6> QED BY <2>2, <6>1
        <5> QED BY <1>5, <4>1, <5>1
      <4> QED BY <4>1
    <3> QED BY <3>1, <3>2
  <2>6. Contents[n] = Null /\ Contents'[n] = Junk /\ DOMAIN Contents' = Name
        /\ \E m \in Name : \A k \in Name \ {n, m} : Contents'[k] = Contents[k]
    BY <1>3, <1>4, <2>3, <2>5 DEF Contents
  <2>7. Store!ImportEmpty(n)
    BY <1>3, <2>6 DEF Contents, Store!ImportEmpty
  <2> QED BY <2>7 DEF Store!Next
<1> QED BY <1>7, <1>8

\* An import without a node stores nothing.
LEMMA StoreImportWithoutNode ==
  ASSUME FullInv, HoldsFacts, HoldsFacts', NEW n \in Name, NEW f \in File,
         ImportWithoutNode(f, n)
  PROVE  Store!Next
<1> PICK e : e = FreeEntry
  OBVIOUS
<1>1. ~Listed(n) /\ AddEntry(n) /\ FreeNodes = {} /\ UNCHANGED <<node, data>> /\ out' = <<>>
  BY DEF ImportWithoutNode, MayImport
<1>2. /\ e \in Entry /\ dir'[e] # Null /\ dir'[e].name = n
      /\ \A d \in Entry \ {e} : dir'[d] = dir[d]
      /\ \A d \in Entry \ {e} : dir[d] # Null => dir[d].name # n
      /\ dir[e] = Null
  BY <1>1, NameAdded DEF FullInv
<1>3. e \notin Inode
  BY <1>1, SameNumber DEF FullInv, AddEntry
<1>4. Holds(n) = Null /\ Holds(n)' = Null
  BY <1>1, <1>2, <1>3 DEF HoldsFacts, EntryHolds
<1>5. ASSUME NEW m \in Name, m # n PROVE Holds(m)' = Holds(m)
  <2>1. \A d \in Entry : dir'[d] # Null /\ dir'[d].name = m => dir[d] = dir'[d]
    BY <1>2, <1>5
  <2>2. \A d \in Entry : dir[d] # Null /\ dir[d].name = m =>
            /\ dir'[d] = dir[d]
            /\ d \in Inode => /\ node'[d] = node[d]
                              /\ \A b \in Owned(d) : data'[b] = data[b]
    BY <1>1, <1>2
  <2> QED BY <2>1, <2>2, SameHolds
<1>6. Contents' = Contents
  BY <1>4, <1>5 DEF Contents
<1> QED BY <1>1, <1>6 DEF Contents, Store!Next, Store!Nothing

\* A removal takes one file away.
LEMMA StoreRm ==
  ASSUME FullInv, HoldsFacts, HoldsFacts', NEW n \in Name, Rm(n)
  PROVE  Store!Next
<1>1. CASE Dangling(Pos(n))
  <2>1. Contents' = Contents /\ out' = <<>>
    BY <1>1, SameContents DEF Rm, Crash
  <2> QED BY <2>1 DEF Contents, Store!Next, Store!Nothing
<1>2. CASE ~Dangling(Pos(n))
  <2>1. PICK e \in Inode \cap Entry :
            /\ dir[e] # Null /\ dir[e].name = n
            /\ dir'[e] = Null /\ node'[e] = NoFile
            /\ \A d \in Entry \ {e} : dir'[d] = dir[d]
            /\ \A i \in Inode \ {e} : node'[i] = node[i]
            /\ data' = data /\ out' = <<>>
    BY <1>2, RmResult DEF FullInv
  <2>2. \A d \in Entry : dir[d] # Null /\ dir[d].name = n => d = e
    BY <2>1 DEF FullInv, ContentInv
  <2>3. Holds(n)' = Null
    <3>1. ~Listed(n)'
      BY <2>1, <2>2 DEF Listed
    <3> QED BY <3>1 DEF HoldsFacts
  <2>4. ASSUME NEW m \in Name, m # n PROVE Holds(m)' = Holds(m)
    <3>1. \A d \in Entry : dir'[d] # Null /\ dir'[d].name = m => dir[d] = dir'[d]
      BY <2>1
    <3>2. \A d \in Entry : dir[d] # Null /\ dir[d].name = m =>
              /\ dir'[d] = dir[d]
              /\ d \in Inode => /\ node'[d] = node[d]
                                /\ \A b \in Owned(d) : data'[b] = data[b]
      BY <2>1, <2>4
    <3> QED BY <3>1, <3>2, SameHolds
  <2>5. Contents' = [Contents EXCEPT ![n] = Null]
    BY <2>3, <2>4 DEF Contents
  <2> QED BY <2>1, <2>5 DEF Contents, Store!Next, Store!Rm
<1> QED BY <1>1, <1>2

\* An export is what the name holds.
LEMMA StoreExport ==
  ASSUME FullInv, HoldsFacts, NEW n \in Name, NEW f \in File, Export(n, f)
  PROVE  Store!Next
<1>0. Contents' = Contents
  BY SameContents DEF Export, Crash
<1>1. CASE Dangling(Pos(n))
  BY <1>0, <1>1 DEF Export, Crash, Contents, Store!Next, Store!Nothing
<1>2. CASE ~Dangling(Pos(n))
  <2> PICK e : e = Pos(n)
    OBVIOUS
  <2>1. e \in Entry /\ dir[e] # Null /\ dir[e].name = n
    <3> DEFINE S == {d \in Entry : dir[d] # Null /\ dir[d].name = n}
    <3>1. S \subseteq Nat /\ S # {}
      BY ImportFSAssumption DEF Export, Listed, Entry
    <3>2. FirstOf(S) \in S
      BY <3>1, FirstExists
    <3> QED BY <3>2 DEF Pos
  <2>2. dir[e].node = e /\ e \in Inode /\ ~node[e].libre
    BY <1>2, <2>1 DEF FullInv, EntryInv, EntryOwnsItsNode, Dangling, NoNode
  <2>3. Holds(n) = IF node[e].size = 0 THEN Junk ELSE ReadOut(e)
    BY <2>1, <2>2 DEF HoldsFacts, EntryHolds
  <2>4. CASE node[e].size = 0
    <3>1. Store!ExportEmpty(n)
      BY <1>0, <2>3, <2>4 DEF Contents, Store!ExportEmpty
    <3> QED BY <3>1 DEF Store!Next
  <2>5. CASE node[e].size # 0
    <3>1. ReadOut(e) \in Seq(Byte)
      BY <2>2, <2>5, ReadOutSame
    <3>2. node[e].blocks # <<>>
      <4>1. /\ node[e].size \in Nat \ {0} /\ node[e].blocks \in Seq(Block)
            /\ Len(node[e].blocks) = NumBlocksOf(node[e].size)
        BY <2>2, <2>5 DEF FullInv, BlockInv, NodeType, ContentInv
      <4> QED BY <4>1, Division
    <3>3. out' = ReadOut(e) \o SubSeq(f, Len(ReadOut(e)) + 1, Len(f))
      BY <1>2, <2>2, <3>2 DEF Export
    <3>4. Contents[n] = ReadOut(e) /\ Contents[n] \notin {Null, Junk}
      BY <2>3, <2>5, <3>1, ImportFSAssumption DEF Contents
    <3>5. Store!Export(n, f)
      BY <1>0, <3>3, <3>4 DEF Contents, Store!Export
    <3> QED BY <3>5 DEF Store!Next
  <2> QED BY <2>4, <2>5
<1> QED BY <1>1, <1>2

\* At the start there are no files.
LEMMA StoreInit == Init => Store!Init
<1> SUFFICES ASSUME Init PROVE Store!Init
  OBVIOUS
<1>1. \A n \in Name : Holds(n) = Null
  BY DEF Init, Holds, Listed
<1> QED BY <1>1 DEF Init, Store!Init

\* Every command is a step of the store, or none.
LEMMA StoreNext ==
  FullInv /\ HoldsFacts /\ HoldsFacts' /\ [Next]_vars => [Store!Next]_<<Contents, out>>
<1> SUFFICES ASSUME FullInv, HoldsFacts, HoldsFacts', [Next]_vars
             PROVE  Store!Next \/ UNCHANGED <<Contents, out>>
  OBVIOUS
<1>1. CASE Ls
  <2>1. Contents' = Contents /\ out' = <<>>
    BY <1>1, SameContents DEF Ls, Crash
  <2> QED BY <2>1 DEF Contents, Store!Next, Store!Nothing
<1>2. CASE Exit
  <2>1. Contents' = Contents /\ out' = <<>>
    BY <1>2, SameContents DEF Exit
  <2> QED BY <2>1 DEF Contents, Store!Next, Store!Nothing
<1>3. CASE UNCHANGED vars
  BY <1>3, SameContents DEF vars
<1> QED
  BY <1>1, <1>2, <1>3, StoreImport, StoreImportWithoutNode, StoreRm, StoreExport DEF Next

(* An export gives back, byte for byte, the file that was imported under   *)
(* the name, whatever was imported and removed in between, for tables,     *)
(* blocks and files of any size: every command is a step of the store of   *)
(* files, or changes nothing of it (util.c:84-275, common.c:73-104).       *)
THEOREM Refinement == Spec => Refines
<1>1. FullInv /\ FullInv' /\ [Next]_vars => [Store!Next]_<<Contents, out>>
  <2>1. FullInv => HoldsFacts
    BY HoldsAre
  <2>2. FullInv' => HoldsFacts'
    BY HoldsAre, PTL
  <2> QED BY <2>1, <2>2, StoreNext
<1>2. [Store!Next]_<<Contents, out>> <=> [Store!Next]_(Store!vars)
  BY DEF Contents, Store!vars
<1> QED
  BY <1>1, <1>2, StoreInit, FullInvariance, PTL DEF Spec, Refines, Store!Spec
=============================================================================

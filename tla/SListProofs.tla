---------------------------- MODULE SListProofs ----------------------------
(***************************************************************************)
(* Proofs about the lists of schedsim, for any number of elements and of   *)
(* lists, of any length: after any operations the links of a heap make     *)
(* sequences that share no element, and each operation does to the         *)
(* sequences what it says it does to the list.                             *)
(*                                                                         *)
(* A heap has a Shape: a sequence for each list, through which its links   *)
(* lead and back (Ring). The first half is about the assignments that link *)
(* one element in or take it out, and the loops over a list; then          *)
(* sort_slist, pass by pass; then the operations, the inductive invariant  *)
(* SInv, the refinement of SeqStore and the order of sorted lists.         *)
(***************************************************************************)
EXTENDS SList, FiniteSetsExt, Functions, FiniteSetTheorems, SequenceTheorems,
        WellFoundedInduction, TLAPS

\* A set of natural numbers that is not empty has a least element.
LEMMA Least ==
  ASSUME NEW S, S \subseteq Nat, S # {}
  PROVE  \E x \in S : \A y \in S : x <= y
<1>1. PICK x \in S : \A y \in S : <<y, x>> \notin OpToRel(<, Nat)
  BY NatLessThanWellFounded, WFMin
<1>2. ASSUME NEW y \in S, y < x PROVE <<y, x>> \in OpToRel(<, Nat)
  <2>1. <<y, x>> \in Nat \X Nat /\ <<y, x>>[1] < <<y, x>>[2]
    BY <1>2
  <2> QED BY <2>1, Zenon DEF OpToRel
<1>3. \A y \in S : ~(y < x)
  BY <1>1, <1>2
<1>4. ASSUME NEW y \in S PROVE x <= y
  <2>1. x \in Nat /\ y \in Nat /\ ~(y < x)
    BY <1>1, <1>3
  <2> QED BY <2>1
<1> QED BY <1>1, <1>4

\* Induction over the natural numbers, for a set of them
LEMMA NatSet ==
  ASSUME NEW S, 0 \in S, \A n \in Nat : n \in S => n + 1 \in S
  PROVE  \A n \in Nat : n \in S
<1> SUFFICES ASSUME NEW n \in Nat, n \notin S PROVE FALSE
  OBVIOUS
<1>1. PICK x \in Nat \ S : \A y \in Nat \ S : x <= y
  <2>1. Nat \ S \subseteq Nat /\ Nat \ S # {}
    OBVIOUS
  <2> QED BY <2>1, Least
<1>2. x # 0 /\ x - 1 \in Nat
  BY <1>1
<1>3. x - 1 \in S
  BY <1>1, <1>2
<1>4. (x - 1) + 1 \in S /\ (x - 1) + 1 = x
  BY <1>1, <1>2, <1>3
<1> QED BY <1>1, <1>4

\* The first position with a property
LEMMA FirstOne ==
  ASSUME NEW n \in Nat, NEW S, S \subseteq 1 .. n, S # {}
  PROVE  \E k \in S : \A j \in 1 .. k - 1 : j \notin S
<1>1. PICK x \in S : \A y \in S : x <= y
  <2>1. S \subseteq Nat
    OBVIOUS
  <2> QED BY <2>1, Least
<1> QED BY <1>1

\* Elements and lists are different things.
LEMMA Kinds ==
  /\ \A e \in Elem : e \notin List /\ e # Null /\ e \in Node
  /\ \A l \in List : l \notin Elem /\ l # Null /\ l \in Node
BY SListAssumption DEF Node, List
-----------------------------------------------------------------------------
\* No element is twice in s.
Distinct(s) == \A i, j \in 1 .. Len(s) : s[i] = s[j] => i = j

\* A sequence without repetitions is not longer than the set of the elements.
LEMMA NotLonger ==
  ASSUME NEW s \in Seq(Elem), Distinct(s)
  PROVE  Cardinality(Elem) \in Nat /\ Len(s) <= Cardinality(Elem)
<1>1. Len(s) \in Nat /\ DOMAIN s = 1 .. Len(s) /\ s = [i \in 1 .. Len(s) |-> s[i]]
  OBVIOUS
<1>2. s \in [1 .. Len(s) -> Range(s)]
  BY <1>1 DEF Range
<1>3. s \in Bijection(1 .. Len(s), Range(s))
  BY <1>1, <1>2 DEF Bijection, Injection, Surjection, IsInjective, Range, Distinct
<1>4. ExistsBijection(1 .. Len(s), Range(s))
  BY <1>3 DEF ExistsBijection
<1>5. IsFiniteSet(1 .. Len(s)) /\ Cardinality(1 .. Len(s)) = Len(s)
  <2>1. 1 \in Int /\ Len(s) \in Int
    BY <1>1
  <2>2. /\ IsFiniteSet(1 .. Len(s))
        /\ Cardinality(1 .. Len(s)) = IF 1 > Len(s) THEN 0 ELSE Len(s) - 1 + 1
    BY <2>1, FS_Interval
  <2> QED BY <1>1, <2>2
<1>6. IsFiniteSet(Range(s)) /\ Cardinality(Range(s)) = Len(s)
  BY <1>4, <1>5, FS_Bijection
<1>7. Range(s) \subseteq Elem
  BY <1>1 DEF Range
<1> QED BY <1>6, <1>7, FS_Subset, FS_CardinalityType, SListAssumption

\* The node before, in or behind a list: its head closes the ring.
At(l, s, k) == IF k \in 1 .. Len(s) THEN s[k] ELSE l

\* The links of the list l lead through s and back, in both directions.
Ring(h, l, s) ==
    /\ s \in Seq(Elem) /\ Distinct(s)
    /\ \A k \in 0 .. Len(s) : /\ h.next[At(l, s, k)] = At(l, s, k + 1)
                              /\ h.prev[At(l, s, k + 1)] = At(l, s, k)

\* q is the sequence s from position i on.
Rest(s, i, q) ==
    /\ q \in Seq(Elem) /\ Len(q) = Len(s) - i + 1
    /\ \A k \in 1 .. Len(q) : q[k] = s[k + i - 1]

\* What the loop comes to at last: NULL behind the last element
Passes(h, l, start, at) ==
    \A k \in 1 .. Cardinality(Elem) + 1 : at[k] =
        IF k = 1 THEN start
        ELSE IF at[k - 1] = Null THEN Null ELSE NextOf(h, l, at[k - 1])

\* The pass that comes to NULL, among those numbered D
Stops(at, k) ==
    \/ at[k] = Null /\ \A j \in 1 .. k - 1 : at[j] # Null
    \/ k = Cardinality(Elem) + 1 /\ \A j \in 1 .. k : at[j] # Null
\* The number of the pass where the loop of From ends, among those numbered D
End(at, D) == CHOOSE k \in D : Stops(at, k)

\* w has a value for every pass.
Passed(w) == w = [k \in 1 .. Cardinality(Elem) + 1 |-> w[k]]

\* at is what the loop comes to, and From what it comes to before NULL.
Loop(h, l, start, at) ==
    /\ Passes(h, l, start, at)
    /\ From(h, l, start) = [k \in 1 .. End(at, 1 .. Cardinality(Elem) + 1) - 1 |-> at[k]]

\* From is the passes of its loop before the one that comes to NULL.
LEMMA FromPasses ==
  ASSUME NEW h, NEW l, NEW start, NEW w, Passed(w), Passes(h, l, start, w)
  PROVE  \E at : Loop(h, l, start, at)
<1> DEFINE N == Cardinality(Elem) + 1
           Go(g) == [k \in 1 .. N |-> IF k = 1 THEN start
                       ELSE IF g[k - 1] = Null THEN Null ELSE NextOf(h, l, g[k - 1])]
           f == CHOOSE g : g = Go(g)
<1>1. From(h, l, start) = [k \in 1 .. End(f, DOMAIN f) - 1 |-> f[k]]
  BY DEF From, End, Stops
<1>2. w = Go(w)
  <2>1. \A k \in 1 .. N : w[k] = Go(w)[k]
    BY DEF Passes
  <2> QED BY <2>1 DEF Passed
<1>3. f = Go(f)
  BY <1>2
<1>4. DOMAIN f = 1 .. N
  <2>1. DOMAIN Go(f) = 1 .. N
    OBVIOUS
  <2> HIDE DEF f
  <2> QED BY <1>3, <2>1
<1> HIDE DEF f
<1>5. Passes(h, l, start, f)
  BY <1>3 DEF Passes
<1> QED BY <1>1, <1>4, <1>5 DEF Loop

\* The loop over the rest of a list comes to its elements, in order.
LEMMA Walk ==
  ASSUME NEW h, NEW l \in List, NEW s, Ring(h, l, s), NEW i \in 1 .. Len(s) + 1,
         NEW start, start = ToObject(l, At(l, s, i))
  PROVE  Rest(s, i, From(h, l, start))
<1>1. s \in Seq(Elem) /\ Len(s) \in Nat /\ \A k \in 1 .. Len(s) : s[k] \in Elem
  BY DEF Ring
<1>2. PICK N \in Nat : N = Cardinality(Elem) /\ Len(s) <= N
  BY NotLonger DEF Ring
<1>3. PICK m \in Nat : m = Len(s) - i + 1
  BY <1>1
<1> DEFINE w == [k \in 1 .. N + 1 |-> IF k <= m THEN s[k + i - 1] ELSE Null]
<1>4. ASSUME NEW k \in 1 .. N + 1
      PROVE  w[k] = IF k = 1 THEN start
                    ELSE IF w[k - 1] = Null THEN Null ELSE NextOf(h, l, w[k - 1])
  <2>1. w[k] = IF k <= m THEN s[k + i - 1] ELSE Null
    OBVIOUS
  <2>2. k # 1 => w[k - 1] = IF k - 1 <= m THEN s[k - 1 + i - 1] ELSE Null
    OBVIOUS
  <2> HIDE DEF w
  <2>3. CASE k = 1
    <3>1. i \in 1 .. Len(s) <=> 1 <= m
      BY <1>1, <1>3
    <3>2. start = IF i \in 1 .. Len(s) THEN s[i] ELSE Null
      BY <1>1, Kinds DEF At, ToObject
    <3> QED BY <2>1, <2>3, <3>1, <3>2
  <2>4. CASE k # 1 /\ k - 1 > m
    BY <1>3, <2>1, <2>2, <2>4
  <2>5. CASE k # 1 /\ k - 1 <= m
    <3>1. PICK j : j = k + i - 2 /\ j \in 1 .. Len(s) /\ (k <= m <=> j + 1 <= Len(s))
      BY <1>1, <1>3, <2>5
    <3>2. w[k - 1] = s[j] /\ s[j] # Null /\ At(l, s, j) = s[j]
      <4>1. k - 1 + i - 1 = j
        BY <1>1, <3>1
      <4> QED BY <1>1, <2>2, <2>5, <3>1, <4>1, Kinds DEF At
    <3>3. h.next[s[j]] = At(l, s, j + 1)
      <4>1. j \in 0 .. Len(s)
        BY <3>1
      <4> QED BY <3>2, <4>1 DEF Ring
    <3>4. w[k] = IF j + 1 <= Len(s) THEN s[j + 1] ELSE Null
      <4>1. k + i - 1 = j + 1
        BY <1>1, <3>1
      <4> QED BY <2>1, <3>1, <4>1
    <3>5. NextOf(h, l, s[j]) = IF j + 1 <= Len(s) THEN s[j + 1] ELSE Null
      <4>1. CASE j + 1 <= Len(s)
        <5>1. j + 1 \in 1 .. Len(s)
          BY <1>1, <3>1, <4>1
        <5> QED BY <1>1, <3>3, <4>1, <5>1, Kinds DEF NextOf, ToObject, At
      <4>2. CASE ~(j + 1 <= Len(s))
        <5>1. j + 1 \notin 1 .. Len(s)
          BY <4>2
        <5> QED BY <3>3, <4>2, <5>1 DEF NextOf, ToObject, At
      <4> QED BY <4>1, <4>2
    <3> QED BY <2>5, <3>2, <3>4, <3>5
  <2> QED BY <2>3, <2>4, <2>5, <1>3
<1>5. \A k \in 1 .. N + 1 : w[k] = IF k <= m THEN s[k + i - 1] ELSE Null
  OBVIOUS
<1>6. Passed(w)
  BY <1>2 DEF Passed
<1> HIDE DEF w
<1>7. Passes(h, l, start, w)
  BY <1>2, <1>4 DEF Passes
<1>8. PICK at : Loop(h, l, start, at)
  BY <1>6, <1>7, FromPasses
<1>9. \A k \in 1 .. N + 1 : at[k] = w[k]
  <2> DEFINE S == {n \in Nat : n + 1 \in 1 .. N + 1 => at[n + 1] = w[n + 1]}
  <2>1. 0 \in S
    BY <1>2, <1>4, <1>8 DEF Passes, Loop
  <2>2. ASSUME NEW n \in Nat, n \in S PROVE n + 1 \in S
    <3>1. SUFFICES ASSUME n + 2 \in 1 .. N + 1 PROVE at[n + 2] = w[n + 2]
      OBVIOUS
    <3>2. n + 1 \in 1 .. N + 1 /\ at[n + 1] = w[n + 1] /\ n + 2 # 1 /\ (n + 2) - 1 = n + 1
      BY <2>2, <3>1
    <3>3. at[n + 2] = IF at[n + 1] = Null THEN Null ELSE NextOf(h, l, at[n + 1])
      BY <1>2, <1>8, <3>1, <3>2 DEF Passes, Loop
    <3>4. w[n + 2] = IF w[n + 1] = Null THEN Null ELSE NextOf(h, l, w[n + 1])
      BY <1>4, <3>1, <3>2
    <3> QED BY <3>2, <3>3, <3>4
  <2>3. \A n \in Nat : n \in S
    <3> HIDE DEF S
    <3> QED BY <2>1, <2>2, NatSet
  <2>4. ASSUME NEW k \in 1 .. N + 1 PROVE at[k] = w[k]
    <3>1. k - 1 \in Nat /\ (k - 1) + 1 = k
      OBVIOUS
    <3>2. k - 1 \in S
      BY <2>3, <3>1
    <3> QED BY <3>1, <3>2
  <2> QED BY <2>4
<1>10. ASSUME NEW k \in 1 .. m PROVE w[k] = s[k + i - 1] /\ s[k + i - 1] \in Elem /\ w[k] # Null
  <2>1. k + i - 1 \in 1 .. Len(s) /\ k \in 1 .. N + 1 /\ k <= m
    BY <1>1, <1>2, <1>3
  <2> QED BY <1>1, <1>5, <2>1, Kinds
<1>11. m + 1 \in 1 .. N + 1 /\ at[m + 1] = Null
  <2>1. m + 1 \in 1 .. N + 1 /\ ~(m + 1 <= m)
    BY <1>1, <1>2, <1>3
  <2> QED BY <1>5, <1>9, <2>1
<1>12. Stops(at, m + 1)
  <2>1. \A j \in 1 .. (m + 1) - 1 : j \in 1 .. m /\ j \in 1 .. N + 1
    BY <1>11
  <2> QED BY <1>9, <1>10, <1>11, <2>1 DEF Stops
<1>13. ASSUME NEW k \in 1 .. N + 1, Stops(at, k) PROVE k = m + 1
  <2>1. CASE k < m + 1
    <3>1. k \in 1 .. m
      BY <2>1
    <3>2. at[k] # Null
      BY <1>9, <1>10, <3>1
    <3>3. k # N + 1
      BY <1>11, <2>1
    <3> QED BY <1>2, <1>13, <3>2, <3>3 DEF Stops
  <2>2. CASE k > m + 1
    <3>1. m + 1 \in 1 .. k - 1 /\ m + 1 \in 1 .. k
      BY <1>3, <2>2
    <3> QED BY <1>11, <1>13, <3>1 DEF Stops
  <2> QED BY <2>1, <2>2, <1>3
<1>14. End(at, 1 .. N + 1) = m + 1
  BY <1>11, <1>12, <1>13 DEF End
<1>15. PICK q : q = From(h, l, start)
  OBVIOUS
<1>16. q = [k \in 1 .. m |-> at[k]]
  BY <1>2, <1>8, <1>14, <1>15 DEF Loop
<1>17. \A k \in 1 .. m : at[k] = s[k + i - 1] /\ at[k] \in Elem
  <2>1. \A k \in 1 .. m : k \in 1 .. N + 1
    BY <1>11
  <2> QED BY <1>9, <1>10, <2>1
<1>18. q \in Seq(Elem) /\ Len(q) = m /\ \A k \in 1 .. m : q[k] = s[k + i - 1]
  BY <1>16, <1>17
<1> QED BY <1>3, <1>15, <1>18 DEF Rest
-----------------------------------------------------------------------------
\* The links of the nodes, which lead to nodes or nowhere
HeapType(h) ==
    /\ h = [next |-> h.next, prev |-> h.prev]
    /\ h.next \in [Node -> Node \cup {Null}] /\ h.prev \in [Node -> Node \cup {Null}]

\* x is an element of the list s.
Occurs(s, x) == \E k \in 1 .. Len(s) : s[k] = x

\* The list l was destroyed, or its links lead through s.
Line(h, l, s) ==
    \/ s = <<>> /\ h.next[l] = Null /\ h.prev[l] = Null
    \/ Ring(h, l, s)

\* The lists of f share no element.
Apart(f) == \A l, m \in List, x \in Elem : Occurs(f[l], x) /\ Occurs(f[m], x) => l = m

\* x is in no list.
Alone(f, x) == \A l \in List : ~Occurs(f[l], x)

\* A node that was taken out: list_sol_remove_node sets both links to NULL.
Unlinked(h, x) == h.next[x] = Null /\ h.prev[x] = Null

\* The links of h make the lists f, and no other link is there.
Shape(h, f) ==
    /\ HeapType(h) /\ f = [l \in List |-> f[l]]
    /\ \A l \in List : Line(h, l, f[l])
    /\ Apart(f)
    /\ \A x \in Elem : Alone(f, x) => Unlinked(h, x)

\* g has the links of x that h has.
SameLinks(h, g, x) == g.next[x] = h.next[x] /\ g.prev[x] = h.prev[x]

\* A list is a sequence of elements.
LEMMA LineType ==
  ASSUME NEW h, NEW l, NEW s, Line(h, l, s)
  PROVE  /\ s \in Seq(Elem) /\ Len(s) \in Nat /\ Distinct(s)
         /\ \A k \in 1 .. Len(s) : s[k] \in Elem
         /\ \A x : Occurs(s, x) => x \in Elem
<1>1. CASE s = <<>>
  <2>1. s \in Seq(Elem) /\ Len(s) = 0
    BY <1>1
  <2> QED BY <2>1 DEF Distinct, Occurs
<1>2. CASE Ring(h, l, s)
  BY <1>2 DEF Ring, Occurs
<1> QED BY <1>1, <1>2 DEF Line

\* A ring only depends on the links of its own nodes.
LEMMA RingSame ==
  ASSUME NEW h, NEW g, NEW l, NEW s, Line(h, l, s), SameLinks(h, g, l),
         \A x : Occurs(s, x) => SameLinks(h, g, x)
  PROVE  Line(g, l, s)
<1>1. CASE s = <<>> /\ h.next[l] = Null /\ h.prev[l] = Null
  BY <1>1 DEF Line, SameLinks
<1>2. CASE Ring(h, l, s)
  <2>1. \A k : SameLinks(h, g, At(l, s, k))
    BY DEF At, Occurs
  <2>2. Ring(g, l, s)
    BY <1>2, <2>1 DEF Ring, SameLinks
  <2> QED BY <2>2 DEF Line
<1> QED BY <1>1, <1>2 DEF Line

\* Only the lists of K are changed.
OnlyThese(h, g, f, f2, K) ==
    \A x \in Node : x \notin K /\ (\A l \in K : ~Occurs(f[l], x) /\ ~Occurs(f2[l], x))
                      => SameLinks(h, g, x)

\* An element that left the lists of K has no links.
Left(g, f, f2, K) ==
    \A x \in Elem : Alone(f2, x) /\ (\E l \in K : Occurs(f[l], x)) => Unlinked(g, x)

\* The lists of K are changed, and the others left alone.
LEMMA ShapeKept ==
  ASSUME NEW h, NEW f, Shape(h, f), NEW g, HeapType(g), NEW f2, f2 = [l \in List |-> f2[l]],
         NEW K, K \subseteq List, \A l \in K : Line(g, l, f2[l]),
         \A l \in List \ K : f2[l] = f[l], Apart(f2),
         OnlyThese(h, g, f, f2, K), Left(g, f, f2, K)
  PROVE  Shape(g, f2)
<1>1. ASSUME NEW l \in List PROVE Line(h, l, f[l])
  BY DEF Shape
<1>2. ASSUME NEW l \in List \ K PROVE Line(g, l, f2[l])
  <2>1. Line(h, l, f[l]) /\ f2[l] = f[l]
    BY <1>1
  <2>2. SameLinks(h, g, l)
    <3>1. l \in Node /\ l \notin Elem
      BY Kinds
    <3>2. \A m \in K : ~Occurs(f[m], l) /\ ~Occurs(f2[m], l)
      BY <1>1, <3>1, LineType
    <3> QED BY <3>1, <3>2 DEF OnlyThese
  <2>3. ASSUME NEW x, Occurs(f[l], x) PROVE SameLinks(h, g, x)
    <3>1. x \in Elem /\ x \in Node /\ x \notin List
      BY <2>1, <2>3, LineType, Kinds
    <3>2. \A m \in K : ~Occurs(f[m], x) /\ ~Occurs(f2[m], x)
      BY <2>1, <2>3, <3>1 DEF Shape, Apart
    <3> QED BY <3>1, <3>2 DEF OnlyThese
  <2> QED BY <2>1, <2>2, <2>3, RingSame
<1>3. ASSUME NEW x \in Elem, Alone(f2, x) PROVE Unlinked(g, x)
  <2>1. CASE \E l \in K : Occurs(f[l], x)
    BY <1>3, <2>1 DEF Left
  <2>2. CASE \A l \in K : ~Occurs(f[l], x)
    <3>1. Alone(f, x)
      BY <1>3, <2>2 DEF Alone
    <3>2. Unlinked(h, x)
      BY <3>1 DEF Shape
    <3>3. \A l \in K : ~Occurs(f[l], x) /\ ~Occurs(f2[l], x)
      BY <1>3, <2>2 DEF Alone
    <3>4. SameLinks(h, g, x)
      BY <3>3, Kinds DEF OnlyThese
    <3> QED BY <3>2, <3>4 DEF Unlinked, SameLinks
  <2> QED BY <2>1, <2>2
<1> QED BY <1>2, <1>3 DEF Shape

\* The list l becomes t.
With(f, l, t) == [f EXCEPT ![l] = t]

\* Only the list l changes.
LEMMA WithIs ==
  ASSUME NEW f, f = [l \in List |-> f[l]], NEW l \in List, NEW t
  PROVE  /\ With(f, l, t) = [m \in List |-> With(f, l, t)[m]]
         /\ With(f, l, t)[l] = t /\ \A m \in List \ {l} : With(f, l, t)[m] = f[m]
BY DEF With

\* One list is changed: its elements were in it before or in no list, and those
\* that are not in it any more have no links.
LEMMA ShapeOne ==
  ASSUME NEW h, NEW f, Shape(h, f), NEW g, HeapType(g), NEW l \in List, NEW t, Line(g, l, t),
         NEW s, s = f[l],
         \A x \in Elem : Occurs(t, x) => Occurs(s, x) \/ Alone(f, x),
         \A x \in Node : x # l /\ ~Occurs(s, x) /\ ~Occurs(t, x) => SameLinks(h, g, x),
         \A x \in Elem : Occurs(s, x) /\ ~Occurs(t, x) => Unlinked(g, x)
  PROVE  Shape(g, With(f, l, t))
<1>1. PICK f2 : f2 = With(f, l, t)
  OBVIOUS
<1>2. f2 = [m \in List |-> f2[m]] /\ f2[l] = t /\ \A m \in List \ {l} : f2[m] = f[m]
  BY <1>1, WithIs DEF Shape
<1>3. Apart(f2)
  <2> SUFFICES ASSUME NEW m \in List, NEW n \in List, NEW x \in Elem,
                      Occurs(f2[m], x), Occurs(f2[n], x), m # n
               PROVE  FALSE
    BY DEF Apart
  <2>1. ASSUME NEW k \in List, k # l, Occurs(f2[k], x), Occurs(t, x) PROVE FALSE
    <3>1. Occurs(f[k], x)
      BY <1>2, <2>1
    <3>2. Occurs(f[l], x)
      BY <2>1, <3>1 DEF Alone
    <3> QED BY <2>1, <3>1, <3>2 DEF Shape, Apart
  <2>2. CASE m = l \/ n = l
    BY <1>2, <2>1, <2>2
  <2>3. CASE m # l /\ n # l
    BY <1>2, <2>3 DEF Shape, Apart
  <2> QED BY <2>2, <2>3
<1>4. OnlyThese(h, g, f, f2, {l})
  BY <1>2 DEF OnlyThese
<1>5. Left(g, f, f2, {l})
  BY <1>2 DEF Left, Alone
<1>6. \A k \in {l} : Line(g, k, f2[k])
  BY <1>2
<1>7. {l} \subseteq List
  OBVIOUS
<1>8. Shape(g, f2)
  BY <1>2, <1>3, <1>4, <1>5, <1>6, <1>7, ShapeKept
<1> QED BY <1>1, <1>8
-----------------------------------------------------------------------------
\* A node of a list is at one position: the head is before and behind it.
LEMMA AtOnce ==
  ASSUME NEW h, NEW l \in List, NEW s, Ring(h, l, s)
  PROVE  /\ \A j, k \in 0 .. Len(s) : At(l, s, j) = At(l, s, k) => j = k
         /\ \A j, k \in 1 .. Len(s) + 1 : At(l, s, j) = At(l, s, k) => j = k
         /\ \A k \in 0 .. Len(s) + 1 : At(l, s, k) \in Node /\ At(l, s, k) # Null
<1>1. Len(s) \in Nat /\ (\A k \in 1 .. Len(s) : s[k] \in Elem) /\ Distinct(s)
  BY DEF Ring
<1>2. \A k \in 1 .. Len(s) : s[k] # l
  BY <1>1, Kinds
<1>3. \A j, k \in 0 .. Len(s) : At(l, s, j) = At(l, s, k) => j = k
  BY <1>1, <1>2 DEF At, Distinct
<1>4. \A j, k \in 1 .. Len(s) + 1 : At(l, s, j) = At(l, s, k) => j = k
  BY <1>1, <1>2 DEF At, Distinct
<1>5. \A k \in 0 .. Len(s) + 1 : At(l, s, k) \in Node /\ At(l, s, k) # Null
  BY <1>1, Kinds DEF At
<1> QED BY <1>3, <1>4, <1>5

\* e is linked in between a and b.
Spliced(h, a, e, b, g) ==
    /\ HeapType(g)
    /\ g.next[e] = b /\ g.next[a] = e /\ \A x \in Node \ {e, a} : g.next[x] = h.next[x]
    /\ g.prev[e] = a /\ g.prev[b] = e /\ \A x \in Node \ {e, b} : g.prev[x] = h.prev[x]

\* list_sol_insert_after_node links its node in.
LEMMA AfterSplices ==
  ASSUME NEW h, HeapType(h), NEW a \in Node, NEW b \in Node, NEW e \in Node,
         h.next[a] = b, e # a, e # b
  PROVE  Spliced(h, a, e, b, AfterNode(h, a, e))
<1>1. PICK g : g = AfterNode(h, a, e)
  OBVIOUS
<1>2. /\ g = [next |-> g.next, prev |-> g.prev]
      /\ g.next = [h.next EXCEPT ![e] = b, ![a] = e]
      /\ g.prev = [h.prev EXCEPT ![e] = a, ![b] = e]
  BY <1>1 DEF AfterNode
<1>3. g.next \in [Node -> Node \cup {Null}] /\ g.prev \in [Node -> Node \cup {Null}]
  BY <1>2 DEF HeapType
<1>4. g.next[e] = b /\ g.next[a] = e /\ \A x \in Node \ {e, a} : g.next[x] = h.next[x]
  BY <1>2 DEF HeapType
<1>5. g.prev[e] = a /\ g.prev[b] = e /\ \A x \in Node \ {e, b} : g.prev[x] = h.prev[x]
  BY <1>2 DEF HeapType
<1> QED BY <1>1, <1>2, <1>3, <1>4, <1>5 DEF Spliced, HeapType

\* list_sol_insert_before_node too.
LEMMA BeforeSplices ==
  ASSUME NEW h, HeapType(h), NEW a \in Node, NEW b \in Node, NEW e \in Node,
         h.prev[b] = a, e # a, e # b
  PROVE  Spliced(h, a, e, b, BeforeNode(h, b, e))
<1>1. PICK g : g = BeforeNode(h, b, e)
  OBVIOUS
<1>2. /\ g = [next |-> g.next, prev |-> g.prev]
      /\ g.next = [h.next EXCEPT ![e] = b, ![a] = e]
      /\ g.prev = [h.prev EXCEPT ![e] = a, ![b] = e]
  BY <1>1 DEF BeforeNode
<1>3. g.next \in [Node -> Node \cup {Null}] /\ g.prev \in [Node -> Node \cup {Null}]
  BY <1>2 DEF HeapType
<1>4. g.next[e] = b /\ g.next[a] = e /\ \A x \in Node \ {e, a} : g.next[x] = h.next[x]
  BY <1>2 DEF HeapType
<1>5. g.prev[e] = a /\ g.prev[b] = e /\ \A x \in Node \ {e, b} : g.prev[x] = h.prev[x]
  BY <1>2 DEF HeapType
<1> QED BY <1>1, <1>2, <1>3, <1>4, <1>5 DEF Spliced, HeapType

\* t is s with e at position i.
Inserted(s, i, e, t) ==
    /\ t \in Seq(Elem) /\ Len(t) = Len(s) + 1
    /\ \A k \in 1 .. Len(t) : t[k] = IF k < i THEN s[k] ELSE IF k = i THEN e ELSE s[k - 1]

\* Linking a node in puts it into the list.
LEMMA InsertRing ==
  ASSUME NEW h, NEW l \in List, NEW s, Ring(h, l, s), NEW i \in 1 .. Len(s) + 1,
         NEW e \in Elem, ~Occurs(s, e), NEW t, Inserted(s, i, e, t),
         NEW g, Spliced(h, At(l, s, i - 1), e, At(l, s, i), g)
  PROVE  Ring(g, l, t)
<1>1. s \in Seq(Elem) /\ Len(s) \in Nat /\ Distinct(s) /\ e # l
  BY Kinds DEF Ring
<1>2. t \in Seq(Elem) /\ Len(t) = Len(s) + 1
  BY DEF Inserted
<1>3. Distinct(t)
  <2> SUFFICES ASSUME NEW j \in 1 .. Len(t), NEW k \in 1 .. Len(t), t[j] = t[k], j < k
               PROVE  FALSE
    BY <1>1, <1>2 DEF Distinct
  <2>1. \A n \in 1 .. Len(s) : s[n] # e
    BY DEF Occurs
  <2>2. \A m, n \in 1 .. Len(s) : s[m] = s[n] => m = n
    BY <1>1 DEF Distinct
  <2>3. CASE j < i
    <3>1. t[j] = s[j] /\ j \in 1 .. Len(s)
      BY <1>1, <1>2, <2>3 DEF Inserted
    <3>2. CASE k < i
      <4>1. t[k] = s[k] /\ k \in 1 .. Len(s) /\ k # j
        BY <1>1, <1>2, <3>2 DEF Inserted
      <4> QED BY <2>2, <3>1, <4>1
    <3>3. CASE k = i
      <4>1. t[k] = e
        BY <1>1, <1>2, <3>3 DEF Inserted
      <4> QED BY <2>1, <3>1, <4>1
    <3>4. CASE k > i
      <4>1. t[k] = s[k - 1] /\ k - 1 \in 1 .. Len(s) /\ k - 1 # j
        BY <1>1, <1>2, <2>3, <3>4 DEF Inserted
      <4> QED BY <2>2, <3>1, <4>1
    <3> QED BY <3>2, <3>3, <3>4, <1>1
  <2>4. CASE ~(j < i)
    <3>1. t[k] = s[k - 1] /\ k - 1 \in 1 .. Len(s)
      BY <1>1, <1>2, <2>4 DEF Inserted
    <3>2. CASE j = i
      BY <1>1, <1>2, <2>1, <3>1, <3>2 DEF Inserted
    <3>3. CASE j # i
      <4>1. t[j] = s[j - 1] /\ j - 1 \in 1 .. Len(s) /\ k - 1 # j - 1
        BY <1>1, <1>2, <2>4, <3>3 DEF Inserted
      <4> QED BY <2>2, <3>1, <4>1
    <3> QED BY <3>2, <3>3
  <2> QED BY <2>3, <2>4
<1>4. ASSUME NEW k \in 0 .. Len(t) + 1
      PROVE  At(l, t, k) = IF k < i THEN At(l, s, k) ELSE IF k = i THEN e ELSE At(l, s, k - 1)
  BY <1>1, <1>2 DEF At, Inserted
<1>5. \A k \in 0 .. Len(s) + 1 : At(l, s, k) # e /\ At(l, s, k) \in Node
  BY <1>1, AtOnce DEF At, Occurs
<1>6. PICK a, b : a = At(l, s, i - 1) /\ b = At(l, s, i) /\ a # e /\ b # e
  <2>1. i - 1 \in 0 .. Len(s) + 1 /\ i \in 0 .. Len(s) + 1
    BY <1>1
  <2> QED BY <1>5, <2>1
<1>7. Spliced(h, a, e, b, g)
  BY <1>6
<1>8. ASSUME NEW k \in 0 .. Len(t) PROVE g.next[At(l, t, k)] = At(l, t, k + 1)
  <2>0. k \in 0 .. Len(t) + 1 /\ k + 1 \in 0 .. Len(t) + 1
    BY <1>1, <1>2
  <2>1. CASE k < i - 1
    <3>1. At(l, t, k) = At(l, s, k) /\ At(l, t, k + 1) = At(l, s, k + 1) /\ k \in 0 .. Len(s)
      BY <1>1, <1>4, <2>0, <2>1
    <3>2. At(l, s, k) # a
      <4>1. i - 1 \in 0 .. Len(s) /\ k # i - 1
        BY <1>1, <2>1
      <4> QED BY <1>6, <3>1, <4>1, AtOnce
    <3>3. At(l, s, k) \in Node \ {e, a}
      BY <1>1, <1>5, <3>1, <3>2
    <3> QED BY <1>7, <3>1, <3>3 DEF Spliced, Ring
  <2>2. CASE k = i - 1
    BY <1>1, <1>4, <1>6, <1>7, <2>0, <2>2 DEF Spliced
  <2>3. CASE k = i
    BY <1>1, <1>4, <1>6, <1>7, <2>0, <2>3 DEF Spliced
  <2>4. CASE k > i
    <3>1. At(l, t, k) = At(l, s, k - 1) /\ At(l, t, k + 1) = At(l, s, k) /\ k - 1 \in 0 .. Len(s)
      BY <1>1, <1>2, <1>4, <2>0, <2>4
    <3>2. At(l, s, k - 1) # a
      <4>1. i - 1 \in 0 .. Len(s) /\ k - 1 # i - 1
        BY <1>1, <2>4
      <4> QED BY <1>6, <3>1, <4>1, AtOnce
    <3>3. At(l, s, k - 1) \in Node \ {e, a}
      BY <1>1, <1>5, <3>1, <3>2
    <3>4. h.next[At(l, s, k - 1)] = At(l, s, (k - 1) + 1) /\ (k - 1) + 1 = k
      BY <3>1 DEF Ring
    <3> QED BY <1>7, <3>1, <3>3, <3>4 DEF Spliced
  <2> QED BY <2>1, <2>2, <2>3, <2>4, <1>1
<1>9. ASSUME NEW k \in 0 .. Len(t) PROVE g.prev[At(l, t, k + 1)] = At(l, t, k)
  <2>0. k \in 0 .. Len(t) + 1 /\ k + 1 \in 0 .. Len(t) + 1 /\ (k + 1) - 1 = k
    BY <1>1, <1>2
  <2>1. CASE k < i - 1
    <3>1. At(l, t, k) = At(l, s, k) /\ At(l, t, k + 1) = At(l, s, k + 1) /\ k \in 0 .. Len(s)
      BY <1>1, <1>4, <2>0, <2>1
    <3>2. At(l, s, k + 1) # b
      <4>1. i \in 1 .. Len(s) + 1 /\ k + 1 # i /\ k + 1 \in 1 .. Len(s) + 1
        BY <1>1, <2>1, <3>1
      <4> QED BY <1>6, <4>1, AtOnce
    <3>3. At(l, s, k + 1) \in Node \ {e, b}
      <4>1. k + 1 \in 0 .. Len(s) + 1
        BY <3>1
      <4> QED BY <1>1, <1>5, <3>2, <4>1
    <3> QED BY <1>7, <3>1, <3>3 DEF Spliced, Ring
  <2>2. CASE k = i - 1
    BY <1>1, <1>4, <1>6, <1>7, <2>0, <2>2 DEF Spliced
  <2>3. CASE k = i
    BY <1>1, <1>4, <1>6, <1>7, <2>0, <2>3 DEF Spliced
  <2>4. CASE k > i
    <3>1. At(l, t, k) = At(l, s, k - 1) /\ At(l, t, k + 1) = At(l, s, k) /\ k - 1 \in 0 .. Len(s)
      BY <1>1, <1>2, <1>4, <2>0, <2>4
    <3>2. At(l, s, k) # b
      <4>1. k \in 1 .. Len(s) + 1 /\ k # i
        BY <1>1, <2>4, <3>1
      <4> QED BY <1>6, <4>1, AtOnce
    <3>3. At(l, s, k) \in Node \ {e, b}
      <4>1. k \in 0 .. Len(s) + 1
        BY <3>1
      <4> QED BY <1>1, <1>5, <3>2, <4>1
    <3>4. h.prev[At(l, s, (k - 1) + 1)] = At(l, s, k - 1) /\ (k - 1) + 1 = k
      BY <3>1 DEF Ring
    <3> QED BY <1>7, <3>1, <3>3, <3>4 DEF Spliced
  <2> QED BY <2>1, <2>2, <2>3, <2>4, <1>1
<1> QED BY <1>2, <1>3, <1>8, <1>9 DEF Ring
-----------------------------------------------------------------------------
\* e is taken out between a and b.
Unspliced(h, a, e, b, g) ==
    /\ HeapType(g) /\ Unlinked(g, e)
    /\ g.next[a] = b /\ \A x \in Node \ {e, a} : g.next[x] = h.next[x]
    /\ g.prev[b] = a /\ \A x \in Node \ {e, b} : g.prev[x] = h.prev[x]

\* list_sol_remove_node takes its node out.
LEMMA RemoveUnsplices ==
  ASSUME NEW h, HeapType(h), NEW a \in Node, NEW b \in Node, NEW e \in Node,
         h.prev[e] = a, h.next[e] = b, e # a, e # b
  PROVE  Unspliced(h, a, e, b, RemoveNode(h, e))
<1>1. PICK g : g = RemoveNode(h, e)
  OBVIOUS
<1>2. /\ g = [next |-> g.next, prev |-> g.prev]
      /\ g.next = [h.next EXCEPT ![a] = b, ![e] = Null]
      /\ g.prev = [h.prev EXCEPT ![b] = a, ![e] = Null]
  BY <1>1 DEF RemoveNode
<1>3. g.next \in [Node -> Node \cup {Null}] /\ g.prev \in [Node -> Node \cup {Null}]
  BY <1>2 DEF HeapType
<1>4. g.next[e] = Null /\ g.next[a] = b /\ \A x \in Node \ {e, a} : g.next[x] = h.next[x]
  BY <1>2 DEF HeapType
<1>5. g.prev[e] = Null /\ g.prev[b] = a /\ \A x \in Node \ {e, b} : g.prev[x] = h.prev[x]
  BY <1>2 DEF HeapType
<1> QED BY <1>1, <1>2, <1>3, <1>4, <1>5 DEF Unspliced, Unlinked, HeapType

\* t is s without its element number i.
Removed(s, i, t) ==
    /\ t \in Seq(Elem) /\ Len(t) = Len(s) - 1
    /\ \A k \in 1 .. Len(t) : t[k] = IF k < i THEN s[k] ELSE s[k + 1]

\* Taking a node out takes it from the list.
LEMMA RemoveRing ==
  ASSUME NEW h, NEW l \in List, NEW s, Ring(h, l, s), NEW i \in 1 .. Len(s),
         NEW e, e = s[i], NEW t, Removed(s, i, t),
         NEW g, Unspliced(h, At(l, s, i - 1), e, At(l, s, i + 1), g)
  PROVE  Ring(g, l, t)
<1>1. s \in Seq(Elem) /\ Len(s) \in Nat /\ Distinct(s) /\ e \in Elem /\ e # l
  BY Kinds DEF Ring
<1>2. t \in Seq(Elem) /\ Len(t) = Len(s) - 1
  BY DEF Removed
<1>3. Distinct(t)
  <2> SUFFICES ASSUME NEW j \in 1 .. Len(t), NEW k \in 1 .. Len(t), t[j] = t[k], j < k
               PROVE  FALSE
    BY <1>1, <1>2 DEF Distinct
  <2>1. \A m, n \in 1 .. Len(s) : s[m] = s[n] => m = n
    BY <1>1 DEF Distinct
  <2>2. PICK m \in 1 .. Len(s) : t[j] = s[m] /\ m = IF j < i THEN j ELSE j + 1
    BY <1>1, <1>2 DEF Removed
  <2>3. PICK n \in 1 .. Len(s) : t[k] = s[n] /\ n = IF k < i THEN k ELSE k + 1
    BY <1>1, <1>2 DEF Removed
  <2>4. m # n
    BY <1>1, <1>2, <2>2, <2>3
  <2> QED BY <2>1, <2>2, <2>3, <2>4
<1>4. ASSUME NEW k \in 0 .. Len(t) + 1
      PROVE  At(l, t, k) = IF k < i THEN At(l, s, k) ELSE At(l, s, k + 1)
  BY <1>1, <1>2 DEF At, Removed
<1>5. i \in 0 .. Len(s) /\ At(l, s, i) = e
  BY <1>1 DEF At
<1>6. PICK a, b : a = At(l, s, i - 1) /\ b = At(l, s, i + 1)
  OBVIOUS
<1>7. Unspliced(h, a, e, b, g)
  BY <1>6
<1>8. ASSUME NEW k \in 0 .. Len(t) PROVE g.next[At(l, t, k)] = At(l, t, k + 1)
  <2>0. k \in 0 .. Len(t) + 1 /\ k + 1 \in 0 .. Len(t) + 1
    BY <1>1, <1>2
  <2>1. CASE k < i - 1
    <3>1. At(l, t, k) = At(l, s, k) /\ At(l, t, k + 1) = At(l, s, k + 1) /\ k \in 0 .. Len(s)
      BY <1>1, <1>4, <2>0, <2>1
    <3>2. At(l, s, k) # a /\ At(l, s, k) # e
      <4>1. i - 1 \in 0 .. Len(s) /\ k # i - 1 /\ k # i
        BY <1>1, <2>1
      <4> QED BY <1>5, <1>6, <3>1, <4>1, AtOnce
    <3>3. At(l, s, k) \in Node \ {e, a}
      <4>1. k \in 0 .. Len(s) + 1
        BY <3>1
      <4> QED BY <3>2, <4>1, AtOnce
    <3> QED BY <1>7, <3>1, <3>3 DEF Unspliced, Ring
  <2>2. CASE k = i - 1
    <3>1. At(l, t, k) = a /\ At(l, t, k + 1) = At(l, s, (k + 1) + 1) /\ (k + 1) + 1 = i + 1
      BY <1>1, <1>4, <1>6, <2>0, <2>2
    <3> QED BY <1>6, <1>7, <3>1 DEF Unspliced
  <2>3. CASE k > i - 1
    <3>1. /\ At(l, t, k) = At(l, s, k + 1) /\ At(l, t, k + 1) = At(l, s, (k + 1) + 1)
          /\ k + 1 \in 0 .. Len(s)
      BY <1>1, <1>2, <1>4, <2>0, <2>3
    <3>2. At(l, s, k + 1) # a /\ At(l, s, k + 1) # e
      <4>1. i - 1 \in 0 .. Len(s) /\ k + 1 # i - 1 /\ k + 1 # i
        BY <1>1, <2>3
      <4> QED BY <1>5, <1>6, <3>1, <4>1, AtOnce
    <3>3. At(l, s, k + 1) \in Node \ {e, a}
      <4>1. k + 1 \in 0 .. Len(s) + 1
        BY <3>1
      <4> QED BY <3>2, <4>1, AtOnce
    <3> QED BY <1>7, <3>1, <3>3 DEF Unspliced, Ring
  <2> QED BY <2>1, <2>2, <2>3, <1>1
<1>9. ASSUME NEW k \in 0 .. Len(t) PROVE g.prev[At(l, t, k + 1)] = At(l, t, k)
  <2>0. k \in 0 .. Len(t) + 1 /\ k + 1 \in 0 .. Len(t) + 1
    BY <1>1, <1>2
  <2>1. CASE k < i - 1
    <3>1. At(l, t, k) = At(l, s, k) /\ At(l, t, k + 1) = At(l, s, k + 1) /\ k \in 0 .. Len(s)
      BY <1>1, <1>4, <2>0, <2>1
    <3>2. At(l, s, k + 1) # b /\ At(l, s, k + 1) # e
      <4>1. /\ i + 1 \in 1 .. Len(s) + 1 /\ i \in 1 .. Len(s) + 1 /\ k + 1 \in 1 .. Len(s) + 1
            /\ k + 1 # i + 1 /\ k + 1 # i
        BY <1>1, <2>1, <3>1
      <4> QED BY <1>5, <1>6, <4>1, AtOnce
    <3>3. At(l, s, k + 1) \in Node \ {e, b}
      <4>1. k + 1 \in 0 .. Len(s) + 1
        BY <3>1
      <4> QED BY <3>2, <4>1, AtOnce
    <3> QED BY <1>7, <3>1, <3>3 DEF Unspliced, Ring
  <2>2. CASE k = i - 1
    <3>1. At(l, t, k) = a /\ At(l, t, k + 1) = At(l, s, (k + 1) + 1) /\ (k + 1) + 1 = i + 1
      BY <1>1, <1>4, <1>6, <2>0, <2>2
    <3> QED BY <1>6, <1>7, <3>1 DEF Unspliced
  <2>3. CASE k > i - 1
    <3>1. /\ At(l, t, k) = At(l, s, k + 1) /\ At(l, t, k + 1) = At(l, s, (k + 1) + 1)
          /\ k + 1 \in 0 .. Len(s)
      BY <1>1, <1>2, <1>4, <2>0, <2>3
    <3>2. At(l, s, (k + 1) + 1) # b /\ At(l, s, (k + 1) + 1) # e
      <4>1. /\ i + 1 \in 1 .. Len(s) + 1 /\ i \in 1 .. Len(s) + 1
            /\ (k + 1) + 1 \in 1 .. Len(s) + 1
            /\ (k + 1) + 1 # i + 1 /\ (k + 1) + 1 # i
        BY <1>1, <2>3, <3>1
      <4> QED BY <1>5, <1>6, <4>1, AtOnce
    <3>3. At(l, s, (k + 1) + 1) \in Node \ {e, b}
      <4>1. (k + 1) + 1 \in 0 .. Len(s) + 1
        BY <3>1
      <4> QED BY <3>2, <4>1, AtOnce
    <3> QED BY <1>7, <3>1, <3>3 DEF Unspliced, Ring
  <2> QED BY <2>1, <2>2, <2>3, <1>1
<1> QED BY <1>2, <1>3, <1>8, <1>9 DEF Ring
-----------------------------------------------------------------------------
\* What is in a list after an insertion, and after a removal
LEMMA InsertOccurs ==
  ASSUME NEW s \in Seq(Elem), NEW i \in 1 .. Len(s) + 1, NEW e, NEW t, Inserted(s, i, e, t)
  PROVE  \A x : Occurs(t, x) <=> x = e \/ Occurs(s, x)
<1>1. Len(s) \in Nat /\ Len(t) = Len(s) + 1
  BY DEF Inserted
<1>2. t[i] = e /\ i \in 1 .. Len(t)
  BY <1>1 DEF Inserted
<1>3. ASSUME NEW k \in 1 .. Len(s) PROVE Occurs(t, s[k])
  <2>1. CASE k < i
    <3>1. t[k] = s[k] /\ k \in 1 .. Len(t)
      BY <1>1, <2>1 DEF Inserted
    <3> QED BY <3>1 DEF Occurs
  <2>2. CASE ~(k < i)
    <3>1. t[k + 1] = s[k] /\ k + 1 \in 1 .. Len(t)
      BY <1>1, <2>2 DEF Inserted
    <3> QED BY <3>1 DEF Occurs
  <2> QED BY <2>1, <2>2
<1>4. ASSUME NEW k \in 1 .. Len(t), t[k] # e PROVE Occurs(s, t[k])
  <2>1. CASE k < i
    <3>1. t[k] = s[k] /\ k \in 1 .. Len(s)
      BY <1>1, <2>1 DEF Inserted
    <3> QED BY <3>1 DEF Occurs
  <2>2. CASE ~(k < i)
    <3>1. t[k] = s[k - 1] /\ k - 1 \in 1 .. Len(s)
      BY <1>1, <1>2, <1>4, <2>2 DEF Inserted
    <3> QED BY <3>1 DEF Occurs
  <2> QED BY <2>1, <2>2
<1>5. Occurs(t, e)
  BY <1>2 DEF Occurs
<1>6. ASSUME NEW x, Occurs(t, x) PROVE x = e \/ Occurs(s, x)
  BY <1>4, <1>6 DEF Occurs
<1>7. ASSUME NEW x, Occurs(s, x) PROVE Occurs(t, x)
  <2>1. PICK k \in 1 .. Len(s) : s[k] = x
    BY <1>7 DEF Occurs
  <2> QED BY <1>3, <2>1
<1> QED BY <1>5, <1>6, <1>7

\* The list loses that element and no other.
LEMMA RemoveOccurs ==
  ASSUME NEW s \in Seq(Elem), Distinct(s), NEW i \in 1 .. Len(s), NEW t, Removed(s, i, t)
  PROVE  \A x : Occurs(t, x) <=> x # s[i] /\ Occurs(s, x)
<1>1. Len(s) \in Nat /\ Len(t) = Len(s) - 1
  BY DEF Removed
<1>2. ASSUME NEW k \in 1 .. Len(s), k # i PROVE Occurs(t, s[k])
  <2>1. CASE k < i
    <3>1. t[k] = s[k] /\ k \in 1 .. Len(t)
      BY <1>1, <2>1 DEF Removed
    <3> QED BY <3>1 DEF Occurs
  <2>2. CASE k > i
    <3>1. t[k - 1] = s[k] /\ k - 1 \in 1 .. Len(t)
      BY <1>1, <2>2 DEF Removed
    <3> QED BY <3>1 DEF Occurs
  <2> QED BY <1>2, <2>1, <2>2
<1>3. ASSUME NEW k \in 1 .. Len(t) PROVE Occurs(s, t[k]) /\ t[k] # s[i]
  <2>1. PICK m \in 1 .. Len(s) : t[k] = s[m] /\ m # i
    <3>1. CASE k < i
      <4>1. t[k] = s[k] /\ k \in 1 .. Len(s)
        BY <1>1, <3>1 DEF Removed
      <4> QED BY <3>1, <4>1
    <3>2. CASE ~(k < i)
      <4>1. t[k] = s[k + 1] /\ k + 1 \in 1 .. Len(s) /\ k + 1 # i
        BY <1>1, <3>2 DEF Removed
      <4> QED BY <4>1
    <3> QED BY <3>1, <3>2
  <2> QED BY <2>1 DEF Occurs, Distinct
<1>4. ASSUME NEW x, Occurs(t, x) PROVE x # s[i] /\ Occurs(s, x)
  <2>1. PICK k \in 1 .. Len(t) : t[k] = x
    BY <1>4 DEF Occurs
  <2> QED BY <1>3, <2>1
<1>5. ASSUME NEW x, x # s[i], Occurs(s, x) PROVE Occurs(t, x)
  <2>1. PICK k \in 1 .. Len(s) : s[k] = x
    BY <1>5 DEF Occurs
  <2> QED BY <1>2, <1>5, <2>1
<1> QED BY <1>4, <1>5

\* The list l becomes t and stays open, and the heads of the others stay as they are.
Becomes(h, f, l, t, g) ==
    /\ Shape(g, With(f, l, t)) /\ Ring(g, l, t)
    /\ \A m \in List \ {l} : SameLinks(h, g, m)

\* A node of the list is its head or one of its elements.
LEMMA AtWhere ==
  ASSUME NEW l, NEW s, NEW k
  PROVE  At(l, s, k) = l \/ Occurs(s, At(l, s, k))
BY DEF At, Occurs

\* Linking an element in changes its list and nothing else in the heap.
LEMMA SpliceBecomes ==
  ASSUME NEW h, NEW f, Shape(h, f), NEW l \in List, NEW s, s = f[l], Ring(h, l, s),
         NEW i \in 1 .. Len(s) + 1, NEW e \in Elem, Alone(f, e), NEW t, Inserted(s, i, e, t),
         NEW g, Spliced(h, At(l, s, i - 1), e, At(l, s, i), g)
  PROVE  Becomes(h, f, l, t, g)
<1>1. s \in Seq(Elem) /\ ~Occurs(s, e) /\ e \in Node
  BY Kinds DEF Ring, Alone
<1>2. Ring(g, l, t)
  BY <1>1, InsertRing
<1>3. \A x : Occurs(t, x) <=> x = e \/ Occurs(s, x)
  BY <1>1, InsertOccurs
<1>4. ASSUME NEW x \in Node, x # l, x # e, ~Occurs(s, x) PROVE SameLinks(h, g, x)
  <2>1. x # At(l, s, i - 1) /\ x # At(l, s, i)
    BY <1>4, AtWhere
  <2> QED BY <1>4, <2>1 DEF Spliced, SameLinks
<1>5. Shape(g, With(f, l, t))
  <2>1. Line(g, l, t) /\ HeapType(g)
    BY <1>2 DEF Line, Spliced
  <2>2. \A x \in Elem : Occurs(t, x) => Occurs(s, x) \/ Alone(f, x)
    BY <1>3
  <2>3. \A x \in Node : x # l /\ ~Occurs(s, x) /\ ~Occurs(t, x) => SameLinks(h, g, x)
    BY <1>3, <1>4
  <2>4. \A x \in Elem : Occurs(s, x) /\ ~Occurs(t, x) => Unlinked(g, x)
    BY <1>3
  <2> QED BY <2>1, <2>2, <2>3, <2>4, ShapeOne
<1>6. ASSUME NEW m \in List, m # l PROVE SameLinks(h, g, m)
  <2>1. m \in Node /\ m # e /\ ~Occurs(s, m)
    BY <1>1, Kinds DEF Occurs
  <2> QED BY <1>4, <1>6, <2>1
<1> QED BY <1>2, <1>5, <1>6 DEF Becomes

\* Neither does taking one out, which is then in no list.
LEMMA UnspliceBecomes ==
  ASSUME NEW h, NEW f, Shape(h, f), NEW l \in List, NEW s, s = f[l], Ring(h, l, s),
         NEW i \in 1 .. Len(s), NEW e, e = s[i], NEW t, Removed(s, i, t),
         NEW g, Unspliced(h, At(l, s, i - 1), e, At(l, s, i + 1), g)
  PROVE  Becomes(h, f, l, t, g) /\ Alone(With(f, l, t), e)
<1>1. s \in Seq(Elem) /\ Distinct(s) /\ e \in Elem /\ Occurs(s, e)
  BY DEF Ring, Occurs
<1>2. Ring(g, l, t)
  BY RemoveRing
<1>3. \A x : Occurs(t, x) <=> x # e /\ Occurs(s, x)
  BY <1>1, RemoveOccurs
<1>4. ASSUME NEW x \in Node, x # l, ~Occurs(s, x) PROVE SameLinks(h, g, x)
  <2>1. x # At(l, s, i - 1) /\ x # At(l, s, i + 1) /\ x # e
    BY <1>1, <1>4, AtWhere
  <2> QED BY <1>4, <2>1 DEF Unspliced, SameLinks
<1>5. Shape(g, With(f, l, t))
  <2>1. Line(g, l, t) /\ HeapType(g)
    BY <1>2 DEF Line, Unspliced
  <2>2. \A x \in Elem : Occurs(t, x) => Occurs(s, x) \/ Alone(f, x)
    BY <1>3
  <2>3. \A x \in Node : x # l /\ ~Occurs(s, x) /\ ~Occurs(t, x) => SameLinks(h, g, x)
    BY <1>3, <1>4
  <2>4. \A x \in Elem : Occurs(s, x) /\ ~Occurs(t, x) => Unlinked(g, x)
    BY <1>3 DEF Unspliced
  <2> QED BY <2>1, <2>2, <2>3, <2>4, ShapeOne
<1>6. ASSUME NEW m \in List, m # l PROVE SameLinks(h, g, m)
  <2>1. m \in Node /\ ~Occurs(s, m)
    BY <1>1, Kinds DEF Occurs
  <2> QED BY <1>4, <1>6, <2>1
<1>7. Alone(With(f, l, t), e)
  <2> SUFFICES ASSUME NEW m \in List PROVE ~Occurs(With(f, l, t)[m], e)
    BY DEF Alone
  <2>1. CASE m = l
    BY <1>3, <2>1, WithIs DEF Shape
  <2>2. CASE m # l
    <3>1. With(f, l, t)[m] = f[m]
      BY <2>2, WithIs DEF Shape
    <3> QED BY <1>1, <2>2, <3>1 DEF Shape, Apart
  <2> QED BY <2>1, <2>2
<1> QED BY <1>2, <1>5, <1>6, <1>7 DEF Becomes
-----------------------------------------------------------------------------
\* q is a part of s.
PartOf(s, m, n, q) ==
    /\ q \in Seq(Elem) /\ Len(q) = n - m + 1
    /\ \A k \in 1 .. n - m + 1 : q[k] = s[m + k - 1]

\* A SubSeq is a part.
LEMMA PartIs ==
  ASSUME NEW s \in Seq(Elem), NEW m \in 1 .. Len(s) + 1, NEW n \in m - 1 .. Len(s)
  PROVE  PartOf(s, m, n, SubSeq(s, m, n))
<1>1. /\ Len(s) \in Nat /\ m \in Int /\ n \in Int /\ n \in Nat
      /\ \A k \in m .. n : s[k] \in Elem
  OBVIOUS
<1>2. /\ SubSeq(s, m, n) \in Seq(Elem)
      /\ Len(SubSeq(s, m, n)) = IF m <= n THEN n - m + 1 ELSE 0
      /\ \A k \in 1 .. n - m + 1 : SubSeq(s, m, n)[k] = s[m + k - 1]
  BY <1>1, SubSeqProperties
<1>3. PICK q : q = SubSeq(s, m, n)
  OBVIOUS
<1>4. Len(q) = n - m + 1
  BY <1>1, <1>2, <1>3
<1> QED BY <1>2, <1>3, <1>4 DEF PartOf

\* t is a with b behind it.
Joined(a, b, t) ==
    /\ t \in Seq(Elem) /\ Len(t) = Len(a) + Len(b)
    /\ \A k \in 1 .. Len(a) + Len(b) : t[k] = IF k <= Len(a) THEN a[k] ELSE b[k - Len(a)]

\* A concatenation joins its two sequences.
LEMMA JoinIs ==
  ASSUME NEW a \in Seq(Elem), NEW b \in Seq(Elem)
  PROVE  Joined(a, b, a \o b)
BY ConcatProperties DEF Joined

\* The insertions, removals and replacements that the abstract lists speak of
LEMMA InsertAtIs ==
  ASSUME NEW s \in Seq(Elem), NEW i \in 1 .. Len(s) + 1, NEW e \in Elem
  PROVE  Inserted(s, i, e, Store!InsertAt(s, i, e))
<1>1. Len(s) \in Nat
  OBVIOUS
<1>2. PICK a : a = SubSeq(s, 1, i - 1) /\ PartOf(s, 1, i - 1, a)
  <2>1. 1 \in 1 .. Len(s) + 1 /\ i - 1 \in 1 - 1 .. Len(s)
    BY <1>1
  <2>2. PartOf(s, 1, i - 1, SubSeq(s, 1, i - 1))
    BY <2>1, PartIs
  <2> QED BY <2>2
<1>3. PICK b : b = SubSeq(s, i, Len(s)) /\ PartOf(s, i, Len(s), b)
  <2>1. i \in 1 .. Len(s) + 1 /\ Len(s) \in i - 1 .. Len(s)
    BY <1>1
  <2>2. PartOf(s, i, Len(s), SubSeq(s, i, Len(s)))
    BY <2>1, PartIs
  <2> QED BY <2>2
<1>4. PICK one : one = <<e>> /\ one \in Seq(Elem) /\ Len(one) = 1 /\ one[1] = e
  <2>1. <<e>> \in Seq(Elem) /\ Len(<<e>>) = 1 /\ <<e>>[1] = e
    OBVIOUS
  <2> QED BY <2>1, Zenon
<1>5. PICK c : c = a \o one /\ Joined(a, one, c)
  BY <1>2, <1>4, JoinIs DEF PartOf
<1>6. PICK t : t = c \o b /\ Joined(c, b, t)
  <2>1. c \in Seq(Elem) /\ b \in Seq(Elem)
    BY <1>3, <1>5 DEF PartOf, Joined
  <2> QED BY <2>1, JoinIs
<1>7. Len(a) = i - 1 /\ Len(c) = i /\ Len(b) = Len(s) - i + 1 /\ Len(t) = Len(s) + 1
  <2>1. Len(a) = (i - 1) - 1 + 1 /\ Len(b) = Len(s) - i + 1
    BY <1>2, <1>3 DEF PartOf
  <2>2. Len(c) = Len(a) + Len(one) /\ Len(t) = Len(c) + Len(b)
    BY <1>5, <1>6 DEF Joined
  <2> QED BY <1>1, <1>4, <2>1, <2>2
<1>8. ASSUME NEW k \in 1 .. Len(t)
      PROVE  t[k] = IF k < i THEN s[k] ELSE IF k = i THEN e ELSE s[k - 1]
  <2>1. CASE k < i
    <3>1. k \in 1 .. Len(c) + Len(b) /\ k \in 1 .. Len(a) + Len(one) /\ k \in 1 .. (i - 1) - 1 + 1
          /\ k <= Len(c) /\ k <= Len(a) /\ 1 + k - 1 = k
      BY <1>1, <1>4, <1>7, <2>1
    <3>2. t[k] = c[k]
      BY <1>6, <3>1 DEF Joined
    <3>3. c[k] = a[k]
      BY <1>5, <3>1 DEF Joined
    <3>4. a[k] = s[k]
      BY <1>2, <3>1 DEF PartOf
    <3> QED BY <2>1, <3>2, <3>3, <3>4
  <2>2. CASE k = i
    <3>1. k \in 1 .. Len(c) + Len(b) /\ k \in 1 .. Len(a) + Len(one)
          /\ k <= Len(c) /\ ~(k <= Len(a)) /\ k - Len(a) = 1
      BY <1>1, <1>4, <1>7, <2>2
    <3>2. t[k] = c[k]
      BY <1>6, <3>1 DEF Joined
    <3>3. c[k] = one[1]
      BY <1>5, <3>1 DEF Joined
    <3> QED BY <1>4, <2>2, <3>2, <3>3
  <2>3. CASE k > i
    <3>1. k \in 1 .. Len(c) + Len(b) /\ ~(k <= Len(c)) /\ k - Len(c) \in 1 .. Len(s) - i + 1
          /\ i + (k - Len(c)) - 1 = k - 1
      BY <1>1, <1>7, <2>3
    <3>2. t[k] = b[k - Len(c)]
      BY <1>6, <3>1 DEF Joined
    <3>3. b[k - Len(c)] = s[k - 1]
      BY <1>3, <3>1 DEF PartOf
    <3> QED BY <2>3, <3>2, <3>3
  <2> QED BY <2>1, <2>2, <2>3
<1>9. t = Store!InsertAt(s, i, e)
  BY <1>2, <1>3, <1>4, <1>5, <1>6 DEF Store!InsertAt
<1>10. Inserted(s, i, e, t)
  BY <1>6, <1>7, <1>8 DEF Inserted, Joined
<1> QED BY <1>9, <1>10

\* The abstract removal takes one element out.
LEMMA RemoveAtIs ==
  ASSUME NEW s \in Seq(Elem), NEW i \in 1 .. Len(s)
  PROVE  Removed(s, i, Store!RemoveAt(s, i))
<1>1. Len(s) \in Nat
  OBVIOUS
<1>2. PICK a : a = SubSeq(s, 1, i - 1) /\ PartOf(s, 1, i - 1, a)
  <2>1. 1 \in 1 .. Len(s) + 1 /\ i - 1 \in 1 - 1 .. Len(s)
    BY <1>1
  <2>2. PartOf(s, 1, i - 1, SubSeq(s, 1, i - 1))
    BY <2>1, PartIs
  <2> QED BY <2>2
<1>3. PICK b : b = SubSeq(s, i + 1, Len(s)) /\ PartOf(s, i + 1, Len(s), b)
  <2>1. i + 1 \in 1 .. Len(s) + 1 /\ Len(s) \in (i + 1) - 1 .. Len(s)
    BY <1>1
  <2> QED BY <2>1, PartIs
<1>4. PICK t : t = a \o b /\ Joined(a, b, t)
  BY <1>2, <1>3, JoinIs DEF PartOf
<1>5. Len(a) = i - 1 /\ Len(b) = Len(s) - i /\ Len(t) = Len(s) - 1
  <2>1. Len(a) = (i - 1) - 1 + 1 /\ Len(b) = Len(s) - (i + 1) + 1
    BY <1>2, <1>3 DEF PartOf
  <2>2. Len(t) = Len(a) + Len(b)
    BY <1>4 DEF Joined
  <2> QED BY <1>1, <2>1, <2>2
<1>6. ASSUME NEW k \in 1 .. Len(t)
      PROVE  t[k] = IF k < i THEN s[k] ELSE s[k + 1]
  <2>1. CASE k < i
    <3>1. k \in 1 .. Len(a) + Len(b) /\ k <= Len(a) /\ k \in 1 .. (i - 1) - 1 + 1 /\ 1 + k - 1 = k
      BY <1>1, <1>5, <2>1
    <3>2. t[k] = a[k]
      BY <1>4, <3>1 DEF Joined
    <3>3. a[k] = s[k]
      BY <1>2, <3>1 DEF PartOf
    <3> QED BY <2>1, <3>2, <3>3
  <2>2. CASE ~(k < i)
    <3>1. /\ k \in 1 .. Len(a) + Len(b) /\ ~(k <= Len(a))
          /\ k - Len(a) \in 1 .. Len(s) - (i + 1) + 1 /\ (i + 1) + (k - Len(a)) - 1 = k + 1
      BY <1>1, <1>5, <2>2
    <3>2. t[k] = b[k - Len(a)]
      BY <1>4, <3>1 DEF Joined
    <3>3. b[k - Len(a)] = s[k + 1]
      BY <1>3, <3>1 DEF PartOf
    <3> QED BY <2>2, <3>2, <3>3
  <2> QED BY <2>1, <2>2
<1>7. t = Store!RemoveAt(s, i)
  BY <1>2, <1>3, <1>4 DEF Store!RemoveAt
<1>8. Removed(s, i, t)
  BY <1>4, <1>5, <1>6 DEF Removed, Joined
<1> QED BY <1>7, <1>8

\* Taking an element out and putting another one in its place replaces it.
LEMMA ReplaceAtIs ==
  ASSUME NEW s \in Seq(Elem), NEW i \in 1 .. Len(s), NEW e \in Elem,
         NEW r, Removed(s, i, r), NEW t, Inserted(r, i, e, t)
  PROVE  t = Store!ReplaceAt(s, i, e)
<1>1. Len(s) \in Nat /\ Len(r) = Len(s) - 1 /\ Len(t) = Len(s) /\ t \in Seq(Elem)
  BY DEF Removed, Inserted
<1>2. PICK u : u = Store!ReplaceAt(s, i, e) /\ u \in Seq(Elem) /\ Len(u) = Len(s)
                /\ \A k \in 1 .. Len(s) : u[k] = IF k = i THEN e ELSE s[k]
  <2>1. PICK u : u = [s EXCEPT ![i] = e]
    OBVIOUS
  <2>2. u \in Seq(Elem) /\ Len(u) = Len(s)
    BY <1>1, <2>1
  <2>3. \A k \in 1 .. Len(s) : u[k] = IF k = i THEN e ELSE s[k]
    BY <1>1, <2>1
  <2> QED BY <2>1, <2>2, <2>3 DEF Store!ReplaceAt
<1>3. ASSUME NEW k \in 1 .. Len(s) PROVE t[k] = u[k]
  <2>1. CASE k < i
    <3>1. k \in 1 .. Len(r) /\ k \in 1 .. Len(t)
      BY <1>1, <2>1
    <3>2. t[k] = r[k] /\ r[k] = s[k]
      BY <2>1, <3>1 DEF Removed, Inserted
    <3> QED BY <1>2, <2>1, <3>2
  <2>2. CASE k = i
    BY <1>1, <1>2, <2>2 DEF Inserted
  <2>3. CASE k > i
    <3>1. k - 1 \in 1 .. Len(r) /\ k \in 1 .. Len(t) /\ (k - 1) + 1 = k /\ ~(k - 1 < i)
      BY <1>1, <2>3
    <3>2. t[k] = r[k - 1]
      BY <2>3, <3>1 DEF Inserted
    <3>3. r[k - 1] = s[k]
      BY <3>1 DEF Removed
    <3> QED BY <1>2, <2>3, <3>2, <3>3
  <2> QED BY <2>1, <2>2, <2>3
<1> QED BY <1>1, <1>2, <1>3, SeqEqual
-----------------------------------------------------------------------------
\* The list l of the heap is open and holds s.
Holds(h, f, l, s) == Shape(h, f) /\ l \in List /\ s = f[l] /\ Ring(h, l, s)

\* e is put into the list at position i.
Puts(h, f, l, s, i, e, g) == Becomes(h, f, l, Store!InsertAt(s, i, e), g)

\* The links around a position
LEMMA Around ==
  ASSUME NEW h, NEW f, NEW l, NEW s, Holds(h, f, l, s), NEW k \in 0 .. Len(s)
  PROVE  /\ At(l, s, k) \in Node /\ At(l, s, k + 1) \in Node
         /\ h.next[At(l, s, k)] = At(l, s, k + 1) /\ h.prev[At(l, s, k + 1)] = At(l, s, k)
         /\ \A e \in Elem : Alone(f, e) => e # At(l, s, k) /\ e # At(l, s, k + 1)
<1>1. Len(s) \in Nat /\ l \in List /\ Ring(h, l, s)
  BY DEF Holds, Ring
<1>2. k \in 0 .. Len(s) + 1 /\ k + 1 \in 0 .. Len(s) + 1
  BY <1>1
<1>3. At(l, s, k) \in Node /\ At(l, s, k + 1) \in Node
  BY <1>1, <1>2, AtOnce
<1>4. ASSUME NEW e \in Elem, Alone(f, e) PROVE e # At(l, s, k) /\ e # At(l, s, k + 1)
  <2>1. ~Occurs(s, e) /\ e # l
    BY <1>1, <1>4, Kinds DEF Alone, Holds
  <2> QED BY <2>1, AtWhere
<1> QED BY <1>1, <1>3, <1>4 DEF Ring

\* list_sol_insert_after_node puts e at the position behind its node.
LEMMA PutAfter ==
  ASSUME NEW h, NEW f, NEW l, NEW s, Holds(h, f, l, s), NEW e \in Elem, Alone(f, e),
         NEW i \in 1 .. Len(s) + 1
  PROVE  Puts(h, f, l, s, i, e, AfterNode(h, At(l, s, i - 1), e))
<1>1. /\ l \in List /\ Ring(h, l, s) /\ Shape(h, f) /\ s = f[l] /\ HeapType(h)
      /\ s \in Seq(Elem) /\ i - 1 \in 0 .. Len(s) /\ (i - 1) + 1 = i /\ e \in Node
  BY Kinds DEF Holds, Ring, Shape
<1>2. Spliced(h, At(l, s, i - 1), e, At(l, s, i), AfterNode(h, At(l, s, i - 1), e))
  <2>1. /\ At(l, s, i - 1) \in Node /\ At(l, s, i) \in Node
        /\ h.next[At(l, s, i - 1)] = At(l, s, i)
        /\ e # At(l, s, i - 1) /\ e # At(l, s, i)
    BY <1>1, Around
  <2> QED BY <1>1, <2>1, AfterSplices
<1> QED BY <1>1, <1>2, InsertAtIs, SpliceBecomes DEF Puts

\* list_sol_insert_before_node puts e where its node was.
LEMMA PutBefore ==
  ASSUME NEW h, NEW f, NEW l, NEW s, Holds(h, f, l, s), NEW e \in Elem, Alone(f, e),
         NEW i \in 1 .. Len(s) + 1
  PROVE  Puts(h, f, l, s, i, e, BeforeNode(h, At(l, s, i), e))
<1>1. /\ l \in List /\ Ring(h, l, s) /\ Shape(h, f) /\ s = f[l] /\ HeapType(h)
      /\ s \in Seq(Elem) /\ i - 1 \in 0 .. Len(s) /\ (i - 1) + 1 = i /\ e \in Node
  BY Kinds DEF Holds, Ring, Shape
<1>2. Spliced(h, At(l, s, i - 1), e, At(l, s, i), BeforeNode(h, At(l, s, i), e))
  BY <1>1, Around, BeforeSplices
<1> QED BY <1>1, <1>2, InsertAtIs, SpliceBecomes DEF Puts

\* list_sol_remove_node takes element number i out of the list, and its links.
LEMMA TakeOut ==
  ASSUME NEW h, NEW f, NEW l, NEW s, Holds(h, f, l, s), NEW i \in 1 .. Len(s)
  PROVE  /\ Becomes(h, f, l, Store!RemoveAt(s, i), RemoveNode(h, s[i]))
         /\ Alone(With(f, l, Store!RemoveAt(s, i)), s[i])
         /\ Unspliced(h, At(l, s, i - 1), s[i], At(l, s, i + 1), RemoveNode(h, s[i]))
<1>1. /\ l \in List /\ Ring(h, l, s) /\ Shape(h, f) /\ s = f[l] /\ HeapType(h)
      /\ s \in Seq(Elem) /\ i - 1 \in 0 .. Len(s) /\ (i - 1) + 1 = i /\ i \in 0 .. Len(s)
      /\ s[i] \in Elem /\ s[i] \in Node
  BY Kinds DEF Holds, Ring, Shape
<1>2. At(l, s, i) = s[i]
  BY DEF At
<1>3. PICK e, a, b : e = s[i] /\ a = At(l, s, i - 1) /\ b = At(l, s, i + 1)
  OBVIOUS
<1>4. a \in Node /\ b \in Node /\ h.prev[e] = a /\ h.next[e] = b
  BY <1>1, <1>2, <1>3, Around
<1>5. e # a
  <2>1. i - 1 \in 0 .. Len(s) /\ i \in 0 .. Len(s) /\ i - 1 # i
    BY <1>1
  <2> QED BY <1>1, <1>2, <1>3, <2>1, AtOnce
<1>6. e # b
  <2>1. i + 1 \in 1 .. Len(s) + 1 /\ i \in 1 .. Len(s) + 1 /\ i + 1 # i
    BY <1>1
  <2> QED BY <1>1, <1>2, <1>3, <2>1, AtOnce
<1>7. Unspliced(h, a, e, b, RemoveNode(h, e))
  BY <1>1, <1>3, <1>4, <1>5, <1>6, RemoveUnsplices
<1>8. Removed(s, i, Store!RemoveAt(s, i))
  BY <1>1, RemoveAtIs
<1> QED BY <1>1, <1>3, <1>7, <1>8, UnspliceBecomes
-----------------------------------------------------------------------------
\* A list whose head has links is open.
LEMMA OpenHolds ==
  ASSUME NEW h, NEW f, Shape(h, f), NEW l \in List, h.next[l] # Null
  PROVE  Holds(h, f, l, f[l])
<1>1. Line(h, l, f[l])
  BY DEF Shape
<1> QED BY <1>1 DEF Line, Holds

\* The head and the tail of a list, and what is next to an element
LEMMA EndsOf ==
  ASSUME NEW h, NEW f, NEW l, NEW s, Holds(h, f, l, s)
  PROVE  /\ HeadOf(h, l) = ToObject(l, At(l, s, 1))
         /\ TailOf(h, l) = ToObject(l, At(l, s, Len(s)))
         /\ \A k \in 1 .. Len(s) : NextOf(h, l, s[k]) = ToObject(l, At(l, s, k + 1))
<1>1. Len(s) \in Nat /\ Ring(h, l, s)
  BY DEF Holds, Ring
<1>2. At(l, s, 0) = l /\ 0 \in 0 .. Len(s) /\ 0 + 1 = 1
  BY <1>1 DEF At
<1>3. At(l, s, Len(s) + 1) = l /\ Len(s) \in 0 .. Len(s)
  BY <1>1 DEF At
<1>4. h.next[l] = At(l, s, 1)
  BY <1>1, <1>2 DEF Ring
<1>5. h.prev[l] = At(l, s, Len(s))
  BY <1>1, <1>3 DEF Ring
<1>6. ASSUME NEW k \in 1 .. Len(s) PROVE NextOf(h, l, s[k]) = ToObject(l, At(l, s, k + 1))
  <2>1. k \in 0 .. Len(s) /\ At(l, s, k) = s[k]
    BY <1>1 DEF At
  <2> QED BY <1>1, <2>1 DEF Ring, NextOf
<1> QED BY <1>4, <1>5, <1>6 DEF HeadOf, TailOf

\* Position k of a list: an element, or NULL for its end
LEMMA ObjectAt ==
  ASSUME NEW l \in List, NEW s \in Seq(Elem), NEW k \in 1 .. Len(s) + 1
  PROVE  ToObject(l, At(l, s, k)) = IF k <= Len(s) THEN s[k] ELSE Null
<1>1. k \in 1 .. Len(s) <=> k <= Len(s)
  OBVIOUS
<1>2. k \in 1 .. Len(s) => s[k] \in Elem /\ s[k] # l
  BY Kinds
<1> QED BY <1>1, <1>2 DEF ToObject, At

\* A loop over an open list comes to its elements in order.
LEMMA FromHead ==
  ASSUME NEW h, NEW f, NEW l, NEW s, Holds(h, f, l, s)
  PROVE  From(h, l, HeadOf(h, l)) = s
<1>1. l \in List /\ Ring(h, l, s) /\ s \in Seq(Elem) /\ Len(s) \in Nat /\ 1 \in 1 .. Len(s) + 1
  BY DEF Holds, Ring
<1>2. PICK start : start = HeadOf(h, l)
  OBVIOUS
<1>3. start = ToObject(l, At(l, s, 1))
  BY <1>2, EndsOf
<1>4. PICK q : q = From(h, l, start) /\ Rest(s, 1, q)
  BY <1>1, <1>3, Walk
<1>5. Len(q) = Len(s) /\ \A k \in 1 .. Len(q) : q[k] = s[k]
  <2>1. Len(q) = Len(s) - 1 + 1 /\ \A k \in 1 .. Len(q) : q[k] = s[k + 1 - 1]
    BY <1>4 DEF Rest
  <2> QED BY <1>1, <2>1
<1>6. q = s
  BY <1>1, <1>4, <1>5, SeqEqual DEF Rest
<1> QED BY <1>2, <1>4, <1>6

\* Contents of a heap are its lists,
LEMMA ContentsIs ==
  ASSUME NEW h, NEW f, Shape(h, f), NEW l \in List
  PROVE  Contents(h, l) = f[l]
<1>1. CASE h.next[l] = Null
  <2>1. Line(h, l, f[l])
    BY DEF Shape
  <2>2. ~Ring(h, l, f[l])
    <3> SUFFICES ASSUME Ring(h, l, f[l]) PROVE FALSE
      OBVIOUS
    <3>1. Len(f[l]) \in Nat /\ 0 \in 0 .. Len(f[l]) /\ 0 + 1 = 1 /\ 1 \in 0 .. Len(f[l]) + 1
      BY DEF Ring
    <3>2. At(l, f[l], 0) = l
      BY DEF At
    <3>3. h.next[l] = At(l, f[l], 1)
      BY <3>1, <3>2 DEF Ring
    <3> QED BY <1>1, <3>1, <3>3, AtOnce
  <2> QED BY <1>1, <2>1, <2>2 DEF Line, Contents
<1>2. CASE h.next[l] # Null
  BY <1>2, OpenHolds, FromHead DEF Contents
<1> QED BY <1>1, <1>2

\* and list_sol_link_active tells whether an element is in one.
LEMMA ActiveIs ==
  ASSUME NEW h, NEW f, Shape(h, f), NEW e \in Elem
  PROVE  h.next[e] # Null <=> ~Alone(f, e)
<1>1. ASSUME Alone(f, e) PROVE h.next[e] = Null
  BY <1>1 DEF Shape, Unlinked
<1>2. ASSUME ~Alone(f, e) PROVE h.next[e] # Null
  <2>1. PICK l \in List : Occurs(f[l], e)
    BY <1>2 DEF Alone
  <2>2. PICK s : s = f[l]
    OBVIOUS
  <2>3. PICK k \in 1 .. Len(s) : s[k] = e
    BY <2>1, <2>2 DEF Occurs
  <2>4. Line(h, l, s)
    BY <2>2 DEF Shape
  <2>5. Ring(h, l, s)
    <3>1. s # <<>>
      BY <2>3
    <3> QED BY <2>4, <3>1 DEF Line
  <2>6. Len(s) \in Nat /\ k \in 0 .. Len(s) /\ k + 1 \in 0 .. Len(s) + 1 /\ At(l, s, k) = e
    BY <2>3, <2>5 DEF Ring, At
  <2>7. h.next[e] = At(l, s, k + 1)
    BY <2>5, <2>6 DEF Ring
  <2> QED BY <2>5, <2>6, <2>7, AtOnce
<1> QED BY <1>1, <1>2
-----------------------------------------------------------------------------
\* r is the first element of s that is in S, at position i, or NULL behind the last.
FirstAt(s, S, i, r) ==
    /\ i \in 1 .. Len(s) + 1 /\ \A k \in 1 .. i - 1 : s[k] \notin S
    /\ IF i <= Len(s) THEN s[i] \in S /\ r = s[i] ELSE r = Null

\* The search loops find the first element they look for.
LEMMA FirstInIs ==
  ASSUME NEW s \in Seq(Elem), NEW S
  PROVE  \E i : FirstAt(s, S, i, FirstIn(s, S))
<1>1. Len(s) \in Nat /\ DOMAIN s = 1 .. Len(s)
  OBVIOUS
<1>2. CASE \A k \in 1 .. Len(s) : s[k] \notin S
  <2>1. FirstIn(s, S) = Null
    BY <1>1, <1>2 DEF FirstIn
  <2>2. /\ Len(s) + 1 \in 1 .. Len(s) + 1 /\ (Len(s) + 1) - 1 = Len(s)
        /\ ~(Len(s) + 1 <= Len(s))
    BY <1>1
  <2>3. FirstAt(s, S, Len(s) + 1, FirstIn(s, S))
    BY <1>2, <2>1, <2>2 DEF FirstAt
  <2> QED BY <2>3
<1>3. CASE ~\A k \in 1 .. Len(s) : s[k] \notin S
  <2> DEFINE P == {k \in 1 .. Len(s) : s[k] \in S}
             c == CHOOSE k \in DOMAIN s : s[k] \in S /\ \A j \in 1 .. k - 1 : s[j] \notin S
  <2>1. PICK k \in P : \A j \in 1 .. k - 1 : j \notin P
    <3>1. P \subseteq 1 .. Len(s) /\ P # {}
      BY <1>3
    <3> QED BY <1>1, <3>1, FirstOne
  <2>2. k \in DOMAIN s /\ s[k] \in S /\ \A j \in 1 .. k - 1 : s[j] \notin S
    <3>1. \A j \in 1 .. k - 1 : j \in 1 .. Len(s)
      BY <1>1
    <3> QED BY <1>1, <2>1, <3>1
  <2>3. c \in DOMAIN s /\ s[c] \in S /\ \A j \in 1 .. c - 1 : s[j] \notin S
    BY <2>2
  <2>4. FirstIn(s, S) = s[c]
    BY <1>1, <1>3 DEF FirstIn
  <2> HIDE DEF c
  <2>5. FirstAt(s, S, c, FirstIn(s, S))
    BY <1>1, <2>3, <2>4 DEF FirstAt
  <2> QED BY <2>5
<1> QED BY <1>2, <1>3

\* list_sol_insert_before the first element of S puts e where it was, or last.
LEMMA PutAtFirst ==
  ASSUME NEW h, NEW f, NEW l, NEW s, Holds(h, f, l, s), NEW e \in Elem, Alone(f, e),
         NEW S, NEW i, NEW o, FirstAt(s, S, i, o)
  PROVE  Puts(h, f, l, s, i, e, InsertBefore(h, l, o, e))
<1>1. /\ l \in List /\ s \in Seq(Elem) /\ Len(s) \in Nat /\ i \in 1 .. Len(s) + 1
      /\ \A k \in 1 .. Len(s) : s[k] \in Elem /\ s[k] # Null
  BY Kinds DEF Holds, Ring, FirstAt
<1>2. At(l, s, i) = IF o = Null THEN l ELSE o
  BY <1>1 DEF At, FirstAt
<1> QED BY <1>1, <1>2, PutBefore DEF InsertBefore

\* Where the sorted insertions put their element: before the first one that is
\* larger, or not smaller
LEMMA SortedPuts ==
  ASSUME NEW h, NEW f, NEW l, NEW s, Holds(h, f, l, s), NEW e \in Elem, Alone(f, e), NEW up
  PROVE  \E i, o : /\ FirstAt(s, {x \in Elem : Compare(x, e, up) > 0}, i, o)
                   /\ Puts(h, f, l, s, i, e, SortedInsert(h, l, e, up))
<1>1. PICK S : S = {x \in Elem : Compare(x, e, up) > 0}
  OBVIOUS
<1>2. s \in Seq(Elem)
  BY DEF Holds, Ring
<1>3. PICK i : FirstAt(s, S, i, FirstIn(s, S))
  BY <1>2, FirstInIs
<1>4. SortedInsert(h, l, e, up) = InsertBefore(h, l, FirstIn(s, S), e)
  BY <1>1, FromHead DEF SortedInsert
<1>5. Puts(h, f, l, s, i, e, SortedInsert(h, l, e, up))
  BY <1>3, <1>4, PutAtFirst
<1> QED BY <1>1, <1>3, <1>5

\* The same for the one that goes before its equals
LEMMA SortedFrontPuts ==
  ASSUME NEW h, NEW f, NEW l, NEW s, Holds(h, f, l, s), NEW e \in Elem, Alone(f, e), NEW up
  PROVE  \E i, o : /\ FirstAt(s, {x \in Elem : Compare(x, e, up) >= 0}, i, o)
                   /\ Puts(h, f, l, s, i, e, SortedInsertFront(h, l, e, up))
<1>1. PICK S : S = {x \in Elem : Compare(x, e, up) >= 0}
  OBVIOUS
<1>2. s \in Seq(Elem)
  BY DEF Holds, Ring
<1>3. PICK i : FirstAt(s, S, i, FirstIn(s, S))
  BY <1>2, FirstInIs
<1>4. SortedInsertFront(h, l, e, up) = InsertBefore(h, l, FirstIn(s, S), e)
  BY <1>1, FromHead DEF SortedInsertFront
<1>5. Puts(h, f, l, s, i, e, SortedInsertFront(h, l, e, up))
  BY <1>3, <1>4, PutAtFirst
<1> QED BY <1>1, <1>3, <1>5

\* list_sol_insert_after element number k, or NULL for the head
LEMMA PutBehind ==
  ASSUME NEW h, NEW f, NEW l, NEW s, Holds(h, f, l, s), NEW e \in Elem, Alone(f, e),
         NEW k \in 0 .. Len(s), NEW o, o = IF k = 0 THEN Null ELSE s[k]
  PROVE  Puts(h, f, l, s, k + 1, e, InsertAfter(h, l, o, e))
<1>1. /\ l \in List /\ s \in Seq(Elem) /\ Len(s) \in Nat /\ k + 1 \in 1 .. Len(s) + 1
      /\ (k + 1) - 1 = k /\ \A n \in 1 .. Len(s) : s[n] \in Elem /\ s[n] # Null
  BY Kinds DEF Holds, Ring
<1>2. At(l, s, k) = IF o = Null THEN l ELSE o
  BY <1>1 DEF At
<1> QED BY <1>1, <1>2, PutAfter DEF InsertAfter

\* list_sol_insert_before element number k, or NULL for the tail
LEMMA PutAhead ==
  ASSUME NEW h, NEW f, NEW l, NEW s, Holds(h, f, l, s), NEW e \in Elem, Alone(f, e),
         NEW k \in 1 .. Len(s) + 1, NEW o, o = IF k <= Len(s) THEN s[k] ELSE Null
  PROVE  Puts(h, f, l, s, k, e, InsertBefore(h, l, o, e))
<1>1. /\ l \in List /\ s \in Seq(Elem) /\ Len(s) \in Nat
      /\ \A n \in 1 .. Len(s) : s[n] \in Elem /\ s[n] # Null
  BY Kinds DEF Holds, Ring
<1>2. At(l, s, k) = IF o = Null THEN l ELSE o
  BY <1>1 DEF At
<1> QED BY <1>1, <1>2, PutBefore DEF InsertBefore
-----------------------------------------------------------------------------
\* The elements behind m are hung behind a, the last of l; b and c are the
\* first and the last of them.
Moved(h, l, m, a, b, c, g) ==
    /\ HeapType(g)
    /\ g.next[a] = b /\ g.next[c] = l /\ g.next[m] = m
    /\ \A x \in Node \ {a, c, m} : g.next[x] = h.next[x]
    /\ g.prev[b] = a /\ g.prev[l] = c /\ g.prev[m] = m
    /\ \A x \in Node \ {b, l, m} : g.prev[x] = h.prev[x]

\* list_sol_move_tail hangs them over.
LEMMA MoveIs ==
  ASSUME NEW h, HeapType(h), NEW l \in Node, NEW m \in Node,
         NEW a \in Node, NEW b \in Node, NEW c \in Node,
         h.prev[l] = a, h.next[m] = b, h.prev[m] = c,
         a # c, a # m, c # m, b # l, b # m, l # m
  PROVE  Moved(h, l, m, a, b, c, MoveTail(h, l, m))
<1>1. PICK g : g = MoveTail(h, l, m)
  OBVIOUS
<1>2. /\ g = [next |-> g.next, prev |-> g.prev]
      /\ g.next = [h.next EXCEPT ![a] = b, ![c] = l, ![m] = m]
      /\ g.prev = [h.prev EXCEPT ![b] = a, ![l] = c, ![m] = m]
  BY <1>1 DEF MoveTail
<1>3. g.next \in [Node -> Node \cup {Null}] /\ g.prev \in [Node -> Node \cup {Null}]
  BY <1>2 DEF HeapType
<1>4. /\ g.next[a] = b /\ g.next[c] = l /\ g.next[m] = m
      /\ \A x \in Node \ {a, c, m} : g.next[x] = h.next[x]
  BY <1>2 DEF HeapType
<1>5. /\ g.prev[b] = a /\ g.prev[l] = c /\ g.prev[m] = m
      /\ \A x \in Node \ {b, l, m} : g.prev[x] = h.prev[x]
  BY <1>2 DEF HeapType
<1> QED BY <1>1, <1>2, <1>3, <1>4, <1>5 DEF Moved, HeapType

\* An empty list is a head that leads to itself.
LEMMA EmptyRing ==
  ASSUME NEW h, NEW l, h.next[l] = l, h.prev[l] = l
  PROVE  Ring(h, l, <<>>)
<1>1. PICK e : e = <<>> /\ e \in Seq(Elem) /\ Len(e) = 0
  <2>1. <<>> \in Seq(Elem) /\ Len(<<>>) = 0
    BY EmptySeq
  <2> QED BY <2>1, Zenon
<1>2. \A k : At(l, e, k) = l
  BY <1>1 DEF At
<1>3. Ring(h, l, e)
  BY <1>1, <1>2 DEF Ring, Distinct
<1> QED BY <1>1, <1>3

\* The ring of l goes on through the elements of m.
LEMMA MoveRing ==
  ASSUME NEW h, NEW l \in List, NEW s, Ring(h, l, s), NEW m \in List, NEW r, Ring(h, m, r),
         l # m, Len(r) > 0, \A x : ~(Occurs(s, x) /\ Occurs(r, x)),
         NEW t, Joined(s, r, t),
         NEW g, Moved(h, l, m, At(l, s, Len(s)), r[1], r[Len(r)], g)
  PROVE  Ring(g, l, t)
<1>1. PICK n \in Nat, p \in Nat : n = Len(s) /\ p = Len(r) /\ p > 0
  BY DEF Ring
<1>2. /\ s \in Seq(Elem) /\ Distinct(s) /\ r \in Seq(Elem) /\ Distinct(r)
      /\ t \in Seq(Elem) /\ Len(t) = n + p
  BY <1>1 DEF Ring, Joined
<1>3. /\ \A k \in 1 .. n : s[k] \in Elem /\ Occurs(s, s[k])
      /\ \A k \in 1 .. p : r[k] \in Elem /\ Occurs(r, r[k])
  BY <1>1, <1>2 DEF Occurs
<1>4. \A k \in 1 .. n, j \in 1 .. p : s[k] # r[j]
  BY <1>3
<1>5. /\ \A k \in 1 .. n : t[k] = s[k]
      /\ \A k \in n + 1 .. n + p : k - n \in 1 .. p /\ t[k] = r[k - n]
  BY <1>1 DEF Joined
<1>6. Distinct(t)
  <2> SUFFICES ASSUME NEW j \in 1 .. n + p, NEW k \in 1 .. n + p, t[j] = t[k] PROVE j = k
    BY <1>2 DEF Distinct
  <2>1. CASE j <= n /\ k <= n
    BY <1>1, <1>2, <1>5, <2>1 DEF Distinct
  <2>2. CASE j <= n /\ k > n
    <3>1. j \in 1 .. n /\ k \in n + 1 .. n + p
      BY <2>2
    <3> QED BY <1>4, <1>5, <3>1
  <2>3. CASE j > n /\ k <= n
    <3>1. k \in 1 .. n /\ j \in n + 1 .. n + p
      BY <2>3
    <3> QED BY <1>4, <1>5, <3>1
  <2>4. CASE j > n /\ k > n
    <3>1. k \in n + 1 .. n + p /\ j \in n + 1 .. n + p
      BY <2>4
    <3>2. r[j - n] = r[k - n] /\ j - n \in 1 .. p /\ k - n \in 1 .. p
      BY <1>5, <3>1
    <3>3. j - n = k - n
      BY <1>1, <1>2, <3>2 DEF Distinct
    <3> QED BY <3>3
  <2> QED BY <2>1, <2>2, <2>3, <2>4
<1>7. PICK a, b, c : a = At(l, s, n) /\ b = r[1] /\ c = r[p]
  OBVIOUS
<1>8. Moved(h, l, m, a, b, c, g)
  BY <1>1, <1>7
<1>9. \A k \in 0 .. n : /\ At(l, t, k) = At(l, s, k) /\ At(l, s, k) \in Node
                        /\ At(l, s, k) # m /\ At(l, s, k) # b /\ At(l, s, k) # c
  <2> SUFFICES ASSUME NEW k \in 0 .. n
               PROVE  /\ At(l, t, k) = At(l, s, k) /\ At(l, s, k) \in Node
                      /\ At(l, s, k) # m /\ At(l, s, k) # b /\ At(l, s, k) # c
    OBVIOUS
  <2>1. CASE k = 0
    <3>1. At(l, t, k) = l /\ At(l, s, k) = l
      BY <2>1 DEF At
    <3> QED BY <1>1, <1>3, <1>7, <3>1, Kinds
  <2>2. CASE k # 0
    <3>1. k \in 1 .. n /\ k \in 1 .. n + p
      BY <2>2
    <3>2. At(l, t, k) = s[k] /\ At(l, s, k) = s[k]
      BY <1>1, <1>2, <1>5, <3>1 DEF At
    <3>3. 1 \in 1 .. p /\ p \in 1 .. p
      BY <1>1
    <3> QED BY <1>3, <1>4, <1>7, <3>1, <3>2, <3>3, Kinds
  <2> QED BY <2>1, <2>2
<1>10. \A k \in n + 1 .. n + p : /\ At(l, t, k) = r[k - n] /\ k - n \in 1 .. p
                                 /\ r[k - n] \in Node /\ r[k - n] # a /\ r[k - n] # l
                                 /\ r[k - n] # m
  <2> SUFFICES ASSUME NEW k \in n + 1 .. n + p
               PROVE  /\ At(l, t, k) = r[k - n] /\ k - n \in 1 .. p
                      /\ r[k - n] \in Node /\ r[k - n] # a /\ r[k - n] # l /\ r[k - n] # m
    OBVIOUS
  <2>1. k - n \in 1 .. p /\ k \in 1 .. Len(t)
    BY <1>2
  <2>2. At(l, t, k) = r[k - n]
    BY <1>5, <2>1 DEF At
  <2>3. r[k - n] # l /\ r[k - n] # m /\ r[k - n] \in Node
    BY <1>3, <2>1, Kinds
  <2>4. r[k - n] # a
    BY <1>1, <1>4, <1>7, <2>1, <2>3 DEF At
  <2> QED BY <2>1, <2>2, <2>3, <2>4
<1>11. At(l, t, n + p + 1) = l
  BY <1>2 DEF At
<1>12. \A k \in 1 .. p - 1 : h.next[r[k]] = r[k + 1] /\ h.prev[r[k + 1]] = r[k]
  <2> SUFFICES ASSUME NEW k \in 1 .. p - 1
               PROVE  h.next[r[k]] = r[k + 1] /\ h.prev[r[k + 1]] = r[k]
    OBVIOUS
  <2>1. k \in 0 .. p /\ k \in 1 .. p /\ k + 1 \in 1 .. p
    OBVIOUS
  <2>2. At(m, r, k) = r[k] /\ At(m, r, k + 1) = r[k + 1]
    BY <1>1, <2>1 DEF At
  <2> QED BY <1>1, <2>1, <2>2 DEF Ring
<1>13. ASSUME NEW k \in 0 .. n + p
       PROVE  g.next[At(l, t, k)] = At(l, t, k + 1) /\ g.prev[At(l, t, k + 1)] = At(l, t, k)
  <2>1. CASE k < n
    <3>1. k \in 0 .. n /\ k + 1 \in 0 .. n /\ n \in 0 .. n /\ k # n /\ k + 1 # 0
      BY <2>1
    <3>2. At(l, s, k) \in Node \ {a, c, m}
      BY <1>1, <1>7, <1>9, <3>1, AtOnce
    <3>3. At(l, s, k + 1) \in Node \ {b, l, m}
      <4>1. At(l, s, 0) = l
        BY DEF At
      <4>2. At(l, s, k + 1) # l
        <5>1. k + 1 \in 0 .. Len(s) /\ 0 \in 0 .. Len(s)
          BY <1>1, <3>1
        <5> QED BY <3>1, <4>1, <5>1, AtOnce
      <4> QED BY <1>9, <3>1, <4>2
    <3>4. h.next[At(l, s, k)] = At(l, s, k + 1) /\ h.prev[At(l, s, k + 1)] = At(l, s, k)
      BY <1>1, <3>1 DEF Ring
    <3> QED BY <1>8, <1>9, <3>1, <3>2, <3>3, <3>4 DEF Moved
  <2>2. CASE k = n
    <3>1. n + 1 \in n + 1 .. n + p /\ (n + 1) - n = 1 /\ n \in 0 .. n
      BY <1>1
    <3>2. At(l, t, k + 1) = b /\ At(l, t, k) = a
      BY <1>7, <1>9, <1>10, <2>2, <3>1
    <3> QED BY <1>8, <3>2 DEF Moved
  <2>3. CASE k > n /\ k < n + p
    <3>1. PICK j : j = k - n /\ j \in 1 .. p - 1 /\ j + 1 = (k + 1) - n /\ j \in 1 .. p /\ j + 1 \in 1 .. p
      BY <2>3
    <3>2. k \in n + 1 .. n + p /\ k + 1 \in n + 1 .. n + p
      BY <2>3
    <3>3. /\ At(l, t, k) = r[j] /\ At(l, t, k + 1) = r[j + 1]
          /\ r[j] \in Node /\ r[j] # a /\ r[j] # m
          /\ r[j + 1] \in Node /\ r[j + 1] # l /\ r[j + 1] # m
      BY <1>10, <3>1, <3>2
    <3>4. r[j] # c /\ r[j + 1] # b
      <4>1. j # p /\ j + 1 # 1 /\ 1 \in 1 .. p /\ p \in 1 .. p
        BY <1>1, <3>1
      <4> QED BY <1>1, <1>2, <1>7, <3>1, <4>1 DEF Distinct
    <3>5. h.next[r[j]] = r[j + 1] /\ h.prev[r[j + 1]] = r[j]
      BY <1>12, <3>1
    <3> QED BY <1>8, <3>3, <3>4, <3>5 DEF Moved
  <2>4. CASE k = n + p
    <3>1. n + p \in n + 1 .. n + p /\ (n + p) - n = p
      BY <1>1
    <3>2. At(l, t, k) = c /\ At(l, t, k + 1) = l
      BY <1>7, <1>10, <1>11, <2>4, <3>1
    <3> QED BY <1>8, <3>2 DEF Moved
  <2> QED BY <2>1, <2>2, <2>3, <2>4
<1> QED BY <1>2, <1>6, <1>13 DEF Ring
-----------------------------------------------------------------------------
\* The lists after the elements of m went to l
Joining(f, l, m) == [f EXCEPT ![l] = f[l] \o f[m], ![m] = <<>>]

\* list_sol_move_tail hangs all of m behind l, and leaves m empty and open.
LEMMA MoveShape ==
  ASSUME NEW h, NEW f, NEW l, NEW s, Holds(h, f, l, s), NEW m, NEW r, Holds(h, f, m, r), l # m
  PROVE  /\ Shape(MoveTail(h, l, m), Joining(f, l, m))
         /\ \A k \in List : h.next[k] # Null => MoveTail(h, l, m).next[k] # Null
<1>1. /\ Shape(h, f) /\ HeapType(h) /\ l \in List /\ m \in List /\ s = f[l] /\ r = f[m]
      /\ Ring(h, l, s) /\ Ring(h, m, r) /\ s \in Seq(Elem) /\ r \in Seq(Elem)
      /\ Len(s) \in Nat /\ Len(r) \in Nat /\ l \in Node /\ m \in Node
  BY Kinds DEF Holds, Ring, Shape
<1>2. f = [k \in List |-> f[k]]
  BY <1>1 DEF Shape
<1>3. h.next[m] = At(m, r, 1) /\ h.prev[m] = At(m, r, Len(r)) /\ h.prev[l] = At(l, s, Len(s))
  <2>1. At(m, r, 0) = m /\ At(m, r, Len(r) + 1) = m /\ At(l, s, Len(s) + 1) = l
    BY <1>1 DEF At
  <2>2. 0 \in 0 .. Len(r) /\ Len(r) \in 0 .. Len(r) /\ Len(s) \in 0 .. Len(s) /\ 0 + 1 = 1
    BY <1>1
  <2> QED BY <1>1, <2>1, <2>2 DEF Ring
<1>4. CASE Len(r) = 0
  <2>1. h.next[m] = m
    BY <1>3, <1>4 DEF At
  <2>2. MoveTail(h, l, m) = h
    BY <2>1 DEF MoveTail
  <2>3. r = <<>>
    BY <1>1, <1>4
  <2>4. s \o r = s
    BY <1>1, <2>3
  <2>5. Joining(f, l, m) = f
    <3>1. Joining(f, l, m) = [f EXCEPT ![l] = s, ![m] = r]
      BY <1>1, <2>3, <2>4 DEF Joining
    <3>2. PICK f2 : f2 = Joining(f, l, m)
      OBVIOUS
    <3>3. f2 = [k \in List |-> f2[k]] /\ \A k \in List : f2[k] = f[k]
      BY <1>1, <1>2, <3>1, <3>2
    <3> QED BY <1>2, <3>2, <3>3
  <2> QED BY <1>1, <2>2, <2>5
<1>5. CASE Len(r) > 0
  <2>1. PICK a, b, c : a = At(l, s, Len(s)) /\ b = r[1] /\ c = r[Len(r)]
    OBVIOUS
  <2>2. /\ 1 \in 1 .. Len(r) /\ Len(r) \in 1 .. Len(r) /\ b \in Elem /\ c \in Elem
        /\ At(m, r, 1) = b /\ At(m, r, Len(r)) = c
        /\ Occurs(r, b) /\ Occurs(r, c)
    BY <1>1, <1>5, <2>1 DEF At, Occurs
  <2>3. \A x : ~(Occurs(s, x) /\ Occurs(r, x))
    <3>1. \A x : Occurs(s, x) => x \in Elem
      BY <1>1 DEF Occurs
    <3> QED BY <1>1, <3>1 DEF Shape, Apart
  <2>4. a \in Node /\ (a = l \/ Occurs(s, a))
    <3>1. Len(s) \in 0 .. Len(s) + 1
      BY <1>1
    <3> QED BY <1>1, <2>1, <3>1, AtOnce, AtWhere
  <2>5. /\ a # c /\ a # m /\ c # m /\ b # l /\ b # m /\ b \in Node /\ c \in Node
        /\ \A x \in List : ~Occurs(s, x) /\ ~Occurs(r, x)
    <3>1. \A x \in List : ~Occurs(s, x) /\ ~Occurs(r, x)
      BY <1>1, Kinds DEF Occurs
    <3> QED BY <1>1, <2>2, <2>3, <2>4, <3>1, Kinds
  <2>6. PICK g : g = MoveTail(h, l, m) /\ Moved(h, l, m, a, b, c, g)
    BY <1>1, <1>3, <2>1, <2>2, <2>4, <2>5, MoveIs
  <2>7. PICK t : t = s \o r /\ Joined(s, r, t) /\ t \in Seq(Elem)
    BY <1>1, JoinIs DEF Joined
  <2>8. Ring(g, l, t)
    BY <1>1, <1>5, <2>1, <2>3, <2>6, <2>7, MoveRing
  <2>9. Ring(g, m, <<>>)
    BY <2>6, EmptyRing DEF Moved
  <2>10. \A x : Occurs(t, x) <=> Occurs(s, x) \/ Occurs(r, x)
    <3>0. PICK n \in Nat, p \in Nat : n = Len(s) /\ p = Len(r) /\ Len(t) = n + p
             /\ \A k \in 1 .. n + p : t[k] = IF k <= n THEN s[k] ELSE r[k - n]
      BY <1>1, <2>7 DEF Joined
    <3>1. ASSUME NEW k \in 1 .. Len(t) PROVE Occurs(s, t[k]) \/ Occurs(r, t[k])
      <4>1. CASE k <= Len(s)
        <5>1. t[k] = s[k] /\ k \in 1 .. n
          BY <3>0, <4>1
        <5> QED BY <3>0, <5>1 DEF Occurs
      <4>2. CASE ~(k <= Len(s))
        <5>1. t[k] = r[k - n] /\ k - n \in 1 .. p
          BY <3>0, <4>2
        <5> QED BY <3>0, <5>1 DEF Occurs
      <4> QED BY <4>1, <4>2
    <3>2. ASSUME NEW k \in 1 .. Len(s) PROVE Occurs(t, s[k])
      <4>1. t[k] = s[k] /\ k \in 1 .. Len(t)
        BY <3>0
      <4> QED BY <4>1 DEF Occurs
    <3>3. ASSUME NEW k \in 1 .. Len(r) PROVE Occurs(t, r[k])
      <4>0. n + k \in 1 .. n + p /\ (n + k) - n = k /\ ~(n + k <= n)
        BY <3>0
      <4>1. t[n + k] = r[k] /\ n + k \in 1 .. Len(t)
        BY <3>0, <4>0
      <4> QED BY <4>1 DEF Occurs
    <3>4. ASSUME NEW x, Occurs(t, x) PROVE Occurs(s, x) \/ Occurs(r, x)
      BY <3>1, <3>4 DEF Occurs
    <3>5. ASSUME NEW x, Occurs(s, x) PROVE Occurs(t, x)
      BY <3>2, <3>5 DEF Occurs
    <3>6. ASSUME NEW x, Occurs(r, x) PROVE Occurs(t, x)
      BY <3>3, <3>6 DEF Occurs
    <3> QED BY <3>4, <3>5, <3>6
  <2>11. PICK f2 : f2 = Joining(f, l, m)
    OBVIOUS
  <2>12. /\ f2 = [k \in List |-> f2[k]] /\ f2[l] = t /\ f2[m] = <<>>
         /\ \A k \in List \ {l, m} : f2[k] = f[k]
    BY <1>1, <1>2, <2>7, <2>11 DEF Joining
  <2>13. \A x : ~Occurs(f2[m], x)
    BY <2>12 DEF Occurs
  <2>14. Apart(f2)
    <3> SUFFICES ASSUME NEW j \in List, NEW k \in List, NEW x \in Elem,
                        Occurs(f2[j], x), Occurs(f2[k], x), j # k
                 PROVE  FALSE
      BY DEF Apart
    <3>1. ASSUME NEW i \in List, i # l, Occurs(f2[i], x), Occurs(t, x) PROVE FALSE
      <4>1. i # m /\ Occurs(f[i], x)
        BY <2>12, <2>13, <3>1
      <4>2. Occurs(f[l], x) \/ Occurs(f[m], x)
        BY <1>1, <2>10, <3>1
      <4> QED BY <1>1, <3>1, <4>1, <4>2 DEF Shape, Apart
    <3>2. CASE j = l \/ k = l
      BY <2>12, <3>1, <3>2
    <3>3. CASE j # l /\ k # l
      BY <1>1, <2>12, <2>13, <3>3 DEF Shape, Apart
    <3> QED BY <3>2, <3>3
  <2>15. OnlyThese(h, g, f, f2, {l, m})
    <3> SUFFICES ASSUME NEW x \in Node, x # l, x # m, ~Occurs(s, x), ~Occurs(r, x)
                 PROVE  SameLinks(h, g, x)
      BY <1>1 DEF OnlyThese
    <3>1. x # a /\ x # b /\ x # c
      BY <2>2, <2>4
    <3> QED BY <2>6, <3>1 DEF Moved, SameLinks
  <2>16. Left(g, f, f2, {l, m})
    <3> SUFFICES ASSUME NEW x \in Elem, Alone(f2, x), Occurs(s, x) \/ Occurs(r, x) PROVE FALSE
      BY <1>1 DEF Left
    <3> QED BY <1>1, <2>10, <2>12 DEF Alone
  <2>17. \A k \in {l, m} : Line(g, k, f2[k])
    BY <2>8, <2>9, <2>12 DEF Line
  <2>18. Shape(g, f2)
    <3>1. {l, m} \subseteq List /\ HeapType(g)
      BY <1>1, <2>6 DEF Moved
    <3> QED BY <1>1, <2>12, <2>14, <2>15, <2>16, <2>17, <3>1, ShapeKept
  <2>19. ASSUME NEW k \in List, h.next[k] # Null PROVE g.next[k] # Null
    <3>1. CASE k = m
      BY <1>1, <2>6, <3>1, Kinds DEF Moved
    <3>2. CASE k # m /\ k = a
      BY <2>2, <2>6, <3>2, Kinds DEF Moved
    <3>3. CASE k # m /\ k # a
      <4>1. k # c /\ k \in Node
        BY <2>2, Kinds
      <4> QED BY <2>6, <2>19, <3>3, <4>1 DEF Moved
    <3> QED BY <3>1, <3>2, <3>3
  <2> QED BY <2>6, <2>11, <2>18, <2>19
<1> QED BY <1>1, <1>4, <1>5
-----------------------------------------------------------------------------
\* What compare looks at, turned round for a descending order
Rank(o, up) == IF up THEN Key[o] ELSE -Key[o]

\* Comparing is subtracting ranks, in either direction.
LEMMA CompareIs ==
  ASSUME NEW up
  PROVE  /\ \A o \in Elem : Rank(o, up) \in Int
         /\ \A a, b \in Elem : Compare(a, b, up) = Rank(a, up) - Rank(b, up)
         /\ \A a, b \in Elem : Rank(a, up) = Rank(b, up) <=> Key[a] = Key[b]
<1>1. \A o \in Elem : Key[o] \in Int
  BY SListAssumption
<1>2. \A o \in Elem : Rank(o, up) \in Int
  BY <1>1 DEF Rank
<1>3. \A a, b \in Elem : Compare(a, b, up) = Rank(a, up) - Rank(b, up)
  BY <1>1 DEF Rank, Compare
<1>4. \A a, b \in Elem : Rank(a, up) = Rank(b, up) <=> Key[a] = Key[b]
  BY <1>1 DEF Rank
<1> QED BY <1>2, <1>3, <1>4

\* Element number k of s is not larger than any other.
LeastAt(s, n, k, up) == \A j \in 1 .. n : Compare(s[k], s[j], up) <= 0

\* There is a least one in a list that is not empty.
LEMMA LeastExists ==
  ASSUME NEW s \in Seq(Elem), Len(s) > 0, NEW up
  PROVE  \E k \in 1 .. Len(s) : LeastAt(s, Len(s), k, up)
<1>1. Len(s) \in Nat /\ \A k \in 1 .. Len(s) : s[k] \in Elem
  OBVIOUS
<1>2. \A k \in 1 .. Len(s) : Rank(s[k], up) \in Int
  BY <1>1, CompareIs
<1>3. \A j, k \in 1 .. Len(s) : Compare(s[k], s[j], up) = Rank(s[k], up) - Rank(s[j], up)
  BY <1>1, CompareIs
<1> DEFINE S == {n \in Nat : n + 1 <= Len(s) => \E k \in 1 .. n + 1 : LeastAt(s, n + 1, k, up)}
<1>4. 0 \in S
  <2>1. ASSUME 1 <= Len(s) PROVE LeastAt(s, 1, 1, up)
    <3>1. 1 \in 1 .. Len(s)
      BY <1>1, <2>1
    <3>2. Compare(s[1], s[1], up) <= 0
      BY <1>2, <1>3, <3>1
    <3> QED BY <3>2 DEF LeastAt
  <2> QED BY <2>1
<1>5. ASSUME NEW n \in Nat, n \in S PROVE n + 1 \in S
  <2>0. SUFFICES ASSUME n + 2 <= Len(s) PROVE \E k \in 1 .. n + 2 : LeastAt(s, n + 2, k, up)
    OBVIOUS
  <2>1. PICK k \in 1 .. n + 1 : LeastAt(s, n + 1, k, up)
    BY <1>1, <1>5, <2>0
  <2>2. /\ k \in 1 .. Len(s) /\ n + 2 \in 1 .. Len(s) /\ k \in 1 .. n + 2 /\ n + 2 \in 1 .. n + 2
        /\ \A j \in 1 .. n + 2 : j \in 1 .. Len(s) /\ (j \in 1 .. n + 1 \/ j = n + 2)
    BY <1>1, <2>0
  <2>3. CASE Compare(s[k], s[n + 2], up) <= 0
    <3>1. LeastAt(s, n + 2, k, up)
      BY <2>1, <2>2, <2>3 DEF LeastAt
    <3> QED BY <2>2, <3>1
  <2>4. CASE ~(Compare(s[k], s[n + 2], up) <= 0)
    <3>1. ASSUME NEW j \in 1 .. n + 2 PROVE Compare(s[n + 2], s[j], up) <= 0
      <4>1. Rank(s[n + 2], up) < Rank(s[k], up)
        BY <1>2, <1>3, <2>2, <2>4
      <4>2. CASE j \in 1 .. n + 1
        <5>1. Compare(s[k], s[j], up) <= 0
          BY <2>1, <4>2 DEF LeastAt
        <5> QED BY <1>2, <1>3, <2>2, <4>1, <5>1
      <4>3. CASE j = n + 2
        BY <1>2, <1>3, <2>2, <4>3
      <4> QED BY <2>2, <4>2, <4>3
    <3>2. LeastAt(s, n + 2, n + 2, up)
      BY <3>1 DEF LeastAt
    <3> QED BY <2>2, <3>2
  <2> QED BY <2>3, <2>4
<1>6. \A n \in Nat : n \in S
  <2> HIDE DEF S
  <2> QED BY <1>4, <1>5, NatSet
<1>7. Len(s) - 1 \in Nat /\ (Len(s) - 1) + 1 = Len(s)
  BY <1>1
<1>8. Len(s) - 1 \in S
  BY <1>6, <1>7
<1> QED BY <1>1, <1>7, <1>8

\* Element number k is the first of the least ones.
ChosenAt(s, k, up) ==
    /\ k \in 1 .. Len(s) /\ LeastAt(s, Len(s), k, up)
    /\ \A j \in 1 .. k - 1 : Compare(s[j], s[k], up) > 0

\* The search in sort_slist finds it.
LEMMA SelectedIs ==
  ASSUME NEW s \in Seq(Elem), Len(s) > 0, NEW up
  PROVE  \E k \in 1 .. Len(s) : Selected(s, up) = s[k] /\ ChosenAt(s, k, up)
<1>1. Len(s) \in Nat /\ DOMAIN s = 1 .. Len(s) /\ \A k \in 1 .. Len(s) : s[k] \in Elem
  OBVIOUS
<1>2. PICK L : L = {o \in Elem : \A k \in DOMAIN s : Compare(o, s[k], up) <= 0}
  OBVIOUS
<1>3. \A k \in 1 .. Len(s) : s[k] \in L <=> LeastAt(s, Len(s), k, up)
  BY <1>1, <1>2 DEF LeastAt
<1>4. Selected(s, up) = FirstIn(s, L)
  BY <1>2 DEF Selected
<1>5. PICK i : FirstAt(s, L, i, FirstIn(s, L))
  BY FirstInIs
<1>6. PICK m \in 1 .. Len(s) : s[m] \in L
  BY <1>3, LeastExists
<1>7. i \in 1 .. Len(s)
  <2>1. CASE i > Len(s)
    <3>1. m \in 1 .. i - 1
      BY <1>1, <1>5, <2>1 DEF FirstAt
    <3> QED BY <1>5, <1>6, <3>1 DEF FirstAt
  <2> QED BY <1>1, <1>5, <2>1 DEF FirstAt
<1>8. s[i] \in L /\ FirstIn(s, L) = s[i] /\ \A k \in 1 .. i - 1 : s[k] \notin L
  BY <1>5, <1>7 DEF FirstAt
<1>9. LeastAt(s, Len(s), i, up)
  BY <1>3, <1>7, <1>8
<1>10. ASSUME NEW j \in 1 .. i - 1 PROVE Compare(s[j], s[i], up) > 0
  <2>1. j \in 1 .. Len(s)
    BY <1>1, <1>7
  <2>2. PICK k \in 1 .. Len(s) : ~(Compare(s[j], s[k], up) <= 0)
    BY <1>3, <1>8, <2>1 DEF LeastAt
  <2>3. Compare(s[i], s[k], up) <= 0
    BY <1>9 DEF LeastAt
  <2>4. /\ Rank(s[i], up) \in Int /\ Rank(s[j], up) \in Int /\ Rank(s[k], up) \in Int
        /\ Compare(s[j], s[k], up) = Rank(s[j], up) - Rank(s[k], up)
        /\ Compare(s[i], s[k], up) = Rank(s[i], up) - Rank(s[k], up)
        /\ Compare(s[j], s[i], up) = Rank(s[j], up) - Rank(s[i], up)
    BY <1>1, <1>7, <2>1, CompareIs
  <2> QED BY <2>2, <2>3, <2>4
<1>11. ChosenAt(s, i, up)
  BY <1>7, <1>9, <1>10 DEF ChosenAt
<1> QED BY <1>4, <1>7, <1>8, <1>11
-----------------------------------------------------------------------------
\* t2 is t with its element number j taken to position p before it.
Rotated(t, p, j, t2) ==
    /\ t2 \in Seq(Elem) /\ Len(t2) = Len(t)
    /\ \A k \in 1 .. Len(t) : t2[k] =
          IF k < p THEN t[k] ELSE IF k = p THEN t[j] ELSE IF k <= j THEN t[k - 1] ELSE t[k]

\* Taking an element out and putting it in before its place turns that part.
LEMMA RotatedIs ==
  ASSUME NEW t \in Seq(Elem), NEW j \in 1 .. Len(t), NEW p \in 1 .. j,
         NEW r, Removed(t, j, r), NEW t2, Inserted(r, p, t[j], t2)
  PROVE  Rotated(t, p, j, t2)
<1>1. /\ Len(t) \in Nat /\ Len(r) = Len(t) - 1 /\ Len(t2) = Len(t) /\ t2 \in Seq(Elem)
  BY DEF Removed, Inserted
<1>2. ASSUME NEW k \in 1 .. Len(t)
      PROVE  t2[k] = IF k < p THEN t[k] ELSE IF k = p THEN t[j]
                     ELSE IF k <= j THEN t[k - 1] ELSE t[k]
  <2>1. t2[k] = IF k < p THEN r[k] ELSE IF k = p THEN t[j] ELSE r[k - 1]
    BY <1>1 DEF Inserted
  <2>2. CASE k < p
    <3>1. k \in 1 .. Len(r) /\ k < j
      BY <1>1, <2>2
    <3>2. r[k] = t[k]
      BY <3>1 DEF Removed
    <3> QED BY <2>1, <2>2, <3>2
  <2>3. CASE k = p
    BY <2>1, <2>3
  <2>4. CASE k > p /\ k <= j
    <3>1. k - 1 \in 1 .. Len(r) /\ k - 1 < j
      BY <1>1, <2>4
    <3>2. r[k - 1] = t[k - 1]
      BY <3>1 DEF Removed
    <3> QED BY <2>1, <2>4, <3>2
  <2>5. CASE k > p /\ k > j
    <3>1. k - 1 \in 1 .. Len(r) /\ ~(k - 1 < j) /\ (k - 1) + 1 = k
      BY <1>1, <2>5
    <3>2. r[k - 1] = t[k]
      BY <3>1 DEF Removed
    <3> QED BY <2>1, <2>5, <3>2
  <2> QED BY <2>2, <2>3, <2>4, <2>5
<1> QED BY <1>1, <1>2 DEF Rotated

\* Where element number k of t is in t2
Target(p, j, k) == IF k < p THEN k ELSE IF k < j THEN k + 1 ELSE IF k = j THEN p ELSE k

\* Every element of t is there after the turn.
LEMMA TargetIs ==
  ASSUME NEW t \in Seq(Elem), NEW j \in 1 .. Len(t), NEW p \in 1 .. j,
         NEW t2, Rotated(t, p, j, t2), NEW k \in 1 .. Len(t)
  PROVE  Target(p, j, k) \in 1 .. Len(t) /\ t2[Target(p, j, k)] = t[k]
<1>1. PICK m : m = Target(p, j, k)
  OBVIOUS
<1>2. Len(t) \in Nat /\ m \in 1 .. Len(t)
  BY <1>1 DEF Target
<1>3. t2[m] = IF m < p THEN t[m] ELSE IF m = p THEN t[j] ELSE IF m <= j THEN t[m - 1] ELSE t[m]
  BY <1>2 DEF Rotated
<1>4. t2[m] = t[k]
  <2>1. CASE k < p
    BY <1>1, <1>3, <2>1 DEF Target
  <2>2. CASE ~(k < p) /\ k < j
    <3>1. m = k + 1 /\ ~(m < p) /\ m # p /\ m <= j /\ m - 1 = k
      BY <1>1, <2>2 DEF Target
    <3> QED BY <1>3, <3>1
  <2>3. CASE k = j
    BY <1>1, <1>3, <2>3 DEF Target
  <2>4. CASE k > j
    <3>1. m = k /\ ~(m < p) /\ m # p /\ ~(m <= j)
      BY <1>1, <2>4 DEF Target
    <3> QED BY <1>3, <3>1
  <2> QED BY <2>1, <2>2, <2>3, <2>4
<1> QED BY <1>1, <1>2, <1>4

\* Only the elements it passes change places with it.
LEMMA RotateKeeps ==
  ASSUME NEW t \in Seq(Elem), NEW j \in 1 .. Len(t), NEW p \in 1 .. j,
         NEW t2, Rotated(t, p, j, t2), NEW x, NEW y, Before(t, x, y),
         ~\E k \in p .. j - 1 : x = t[k] /\ y = t[j]
  PROVE  Before(t2, x, y)
<1>1. PICK a, b \in 1 .. Len(t) : a < b /\ t[a] = x /\ t[b] = y
  BY DEF Before
<1>2. PICK m, n : m = Target(p, j, a) /\ n = Target(p, j, b)
  OBVIOUS
<1>3. m \in 1 .. Len(t) /\ n \in 1 .. Len(t) /\ t2[m] = x /\ t2[n] = y
  BY <1>1, <1>2, TargetIs
<1>4. ~(a \in p .. j - 1 /\ b = j)
  BY <1>1
<1>5. m < n
  BY <1>1, <1>2, <1>4 DEF Target
<1>6. DOMAIN t2 = 1 .. Len(t)
  BY DEF Rotated
<1> QED BY <1>3, <1>5, <1>6 DEF Before
-----------------------------------------------------------------------------
\* Where the loop of sort_slist starts, and one pass of it
Start(h, l) == [h |-> h, done |-> Null, cur |-> HeadOf(h, l)]

\* One pass: the least of the rest goes behind the last one that is done.
Turn(g, l, up) ==
    IF g.cur = Null THEN g
    ELSE LET e == Selected(From(g.h, l, g.cur), up)
             k == InsertAfter(RemoveNode(g.h, e), l, g.done, e)
         IN  [h |-> k, done |-> e, cur |-> NextOf(k, l, e)]

\* The passes of sort_slist
Turns(h, l, n, up, f) ==
    /\ Sorted(h, l, n, up) = IF n <= 1 THEN h ELSE f[n - 1].h
    /\ f[0] = Start(h, l)
    /\ \A k \in 1 .. n : f[k] = Turn(f[k - 1], l, up)

\* The recursive loop is a function of the number of passes.
LEMMA SortFunction ==
  ASSUME NEW h, NEW l, NEW n \in Nat, NEW up
  PROVE  \E f : Turns(h, l, n, up, f)
<1> DEFINE First == Start(h, l)
           Go(q) == Turn(q, l, up)
           G == {m \in Nat : \E g : g = [k \in 0 .. m |-> IF k = 0 THEN First ELSE Go(g[k - 1])]}
           f == CHOOSE g : g = [k \in 0 .. n |-> IF k = 0 THEN First ELSE Go(g[k - 1])]
<1>1. Sorted(h, l, n, up) = IF n <= 1 THEN h ELSE f[n - 1].h
  BY DEF Sorted, Turn, Start
<1> HIDE DEF Go, First
<1>2. 0 \in G
  <2> DEFINE g == [k \in 0 .. 0 |-> First]
  <2>1. g = [k \in 0 .. 0 |-> IF k = 0 THEN First ELSE Go(g[k - 1])]
    OBVIOUS
  <2> QED BY <2>1
<1>3. \A m \in Nat : m \in G => m + 1 \in G
  <2> SUFFICES ASSUME NEW m \in Nat, m \in G PROVE m + 1 \in G
    OBVIOUS
  <2> PICK g : g = [k \in 0 .. m |-> IF k = 0 THEN First ELSE Go(g[k - 1])]
    OBVIOUS
  <2> DEFINE w == [k \in 0 .. m + 1 |-> IF k = m + 1 THEN Go(g[m]) ELSE g[k]]
  <2>0. ASSUME NEW k \in 0 .. m
        PROVE  g[k] = IF k = 0 THEN First ELSE Go(g[k - 1])
    <3> DEFINE b == [x \in 0 .. m |-> IF x = 0 THEN First ELSE Go(g[x - 1])]
    <3>1. g = b
      OBVIOUS
    <3>2. b[k] = IF k = 0 THEN First ELSE Go(g[k - 1])
      OBVIOUS
    <3> HIDE DEF b
    <3> QED BY <3>1, <3>2
  <2>1. \A k \in 0 .. m : w[k] = g[k] /\ g[k] = IF k = 0 THEN First ELSE Go(g[k - 1])
    <3>1. \A k \in 0 .. m : k \in 0 .. m + 1 /\ k # m + 1
      OBVIOUS
    <3> QED BY <2>0, <3>1, Zenon
  <2>2. ASSUME NEW k \in 0 .. m + 1
        PROVE  w[k] = IF k = 0 THEN First ELSE Go(w[k - 1])
    <3>1. CASE k = 0
      BY <2>1, <3>1
    <3>2. CASE k \in 1 .. m
      <4>1. k - 1 \in 0 .. m /\ k \in 0 .. m
        BY <3>2
      <4> QED BY <2>1, <3>2, <4>1
    <3>3. CASE k = m + 1
      <4>1. w[k] = Go(g[m]) /\ w[m] = g[m] /\ k - 1 = m
        BY <2>1, <3>3
      <4> QED BY <3>3, <4>1
    <3> QED BY <3>1, <3>2, <3>3
  <2>3. w = [k \in 0 .. m + 1 |-> IF k = 0 THEN First ELSE Go(w[k - 1])]
    <3> DEFINE b == [k \in 0 .. m + 1 |-> IF k = 0 THEN First ELSE Go(w[k - 1])]
    <3>1. \A k \in 0 .. m + 1 : w[k] = b[k]
      BY <2>2
    <3>2. DOMAIN w = 0 .. m + 1 /\ DOMAIN b = 0 .. m + 1
      OBVIOUS
    <3> HIDE DEF b
    <3> QED BY <3>1, <3>2 DEF b
  <2> HIDE DEF w
  <2> QED BY <2>3
<1>4. n \in G
  BY <1>2, <1>3, NatSet
<1>5. f = [k \in 0 .. n |-> IF k = 0 THEN First ELSE Go(f[k - 1])]
  BY <1>4
<1> HIDE DEF f
<1>6. f[0] = First /\ \A k \in 1 .. n : f[k] = Go(f[k - 1])
  BY <1>5
<1> QED BY <1>1, <1>6 DEF Go, First, Turns
-----------------------------------------------------------------------------
\* The last change of a list is the one that stays.
LEMMA WithTwice ==
  ASSUME NEW f, f = [l \in List |-> f[l]], NEW l \in List, NEW s, NEW t
  PROVE  /\ With(With(f, l, s), l, t) = With(f, l, t) /\ With(f, l, f[l]) = f
         /\ With(f, l, t)[l] = t
BY DEF With

\* t has the elements of s.
SameElems(s, t) == Len(t) = Len(s) /\ \A x : Occurs(t, x) <=> Occurs(s, x)

\* No link of another list's head is different.
OthersSame(h, g, l) == \A m \in List \ {l} : SameLinks(h, g, m)

\* The first i elements are where they belong.
Prefix(t, i, up) == \A a \in 1 .. i, b \in 1 .. Len(t) : a < b => Compare(t[a], t[b], up) <= 0

\* Equal elements are in the order they had.
Stable(s, t) == \A x, y : Key[x] = Key[y] /\ Before(s, x, y) => Before(t, x, y)

\* What i passes of sort_slist have done
Pass(h, f, l, s, up, i, g, t) ==
    /\ Holds(g.h, With(f, l, t), l, t) /\ OthersSame(h, g.h, l)
    /\ SameElems(s, t) /\ Prefix(t, i, up) /\ Stable(s, t)
    /\ g.done = (IF i = 0 THEN Null ELSE t[i])
    /\ g.cur = (IF i + 1 <= Len(t) THEN t[i + 1] ELSE Null)

\* i passes have been made.
Done(h, f, l, s, up, i, g) == \E t : Pass(h, f, l, s, up, i, g, t)

\* Before the first pass nothing was done.
LEMMA StartPasses ==
  ASSUME NEW h, NEW f, NEW l, NEW s, Holds(h, f, l, s), NEW up
  PROVE  Pass(h, f, l, s, up, 0, Start(h, l), s)
<1>1. l \in List /\ s \in Seq(Elem) /\ Len(s) \in Nat /\ f = [k \in List |-> f[k]] /\ s = f[l]
  BY DEF Holds, Ring, Shape
<1>2. PICK g : g = Start(h, l) /\ g.h = h /\ g.done = Null /\ g.cur = HeadOf(h, l)
  <2>1. PICK head : head = HeadOf(h, l)
    OBVIOUS
  <2>2. PICK g : g = [h |-> h, done |-> Null, cur |-> head]
    OBVIOUS
  <2>3. g.h = h /\ g.done = Null /\ g.cur = head
    BY <2>2
  <2> QED BY <2>1, <2>2, <2>3, Zenon DEF Start
<1>3. With(f, l, s) = f
  BY <1>1, WithTwice
<1>4. g.cur = IF 1 <= Len(s) THEN s[1] ELSE Null
  <2>1. 1 \in 1 .. Len(s) + 1
    BY <1>1
  <2> QED BY <1>1, <1>2, <2>1, EndsOf, ObjectAt
<1>5. Prefix(s, 0, up) /\ Stable(s, s) /\ SameElems(s, s) /\ OthersSame(h, h, l)
  BY DEF Prefix, Stable, SameElems, OthersSame, SameLinks
<1> QED BY <1>2, <1>3, <1>4, <1>5 DEF Pass

\* The rest of the list is sorted when its least one went to the front of it.
LEMMA RotateSorts ==
  ASSUME NEW t \in Seq(Elem), NEW j \in 1 .. Len(t), NEW i \in Nat, i + 1 <= j, NEW up,
         NEW t2, Rotated(t, i + 1, j, t2), Prefix(t, i, up),
         \A b \in i + 1 .. Len(t) : Compare(t[j], t[b], up) <= 0
  PROVE  Prefix(t2, i + 1, up)
<1>1. Len(t) \in Nat /\ Len(t2) = Len(t)
  BY DEF Rotated
<1> SUFFICES ASSUME NEW a \in 1 .. i + 1, NEW b \in 1 .. Len(t), a < b
             PROVE  Compare(t2[a], t2[b], up) <= 0
  BY <1>1 DEF Prefix
<1>2. a \in 1 .. Len(t)
  BY <1>1
<1>3. PICK c \in 1 .. Len(t) : t2[b] = t[c] /\ (b <= i => c = b) /\ (b > i => c >= i + 1)
  <2>1. t2[b] = IF b < i + 1 THEN t[b] ELSE IF b = i + 1 THEN t[j]
                ELSE IF b <= j THEN t[b - 1] ELSE t[b]
    BY DEF Rotated
  <2>2. CASE b < i + 1
    BY <2>1, <2>2
  <2>3. CASE b = i + 1
    BY <2>1, <2>3
  <2>4. CASE b > i + 1 /\ b <= j
    <3>1. b - 1 \in 1 .. Len(t) /\ b - 1 >= i + 1 /\ t2[b] = t[b - 1] /\ ~(b <= i)
      BY <1>1, <2>1, <2>4
    <3> QED BY <3>1
  <2>5. CASE b > i + 1 /\ b > j
    BY <2>1, <2>5
  <2> QED BY <2>2, <2>3, <2>4, <2>5
<1>4. CASE a <= i
  <2>1. t2[a] = t[a] /\ a \in 1 .. i /\ a < c
    BY <1>1, <1>2, <1>3, <1>4 DEF Rotated
  <2> QED BY <1>3, <2>1 DEF Prefix
<1>5. CASE a = i + 1
  <2>1. t2[a] = t[j] /\ c \in i + 1 .. Len(t)
    BY <1>1, <1>2, <1>3, <1>5 DEF Rotated
  <2> QED BY <1>3, <2>1
<1> QED BY <1>4, <1>5

\* The element that is moved only passes larger ones, never an equal one.
LEMMA RotateIsStable ==
  ASSUME NEW t \in Seq(Elem), NEW j \in 1 .. Len(t), NEW p \in 1 .. j, NEW up,
         NEW t2, Rotated(t, p, j, t2), NEW s, Stable(s, t),
         \A k \in p .. j - 1 : Compare(t[k], t[j], up) > 0
  PROVE  Stable(s, t2)
<1> SUFFICES ASSUME NEW x, NEW y, Key[x] = Key[y], Before(s, x, y) PROVE Before(t2, x, y)
  BY DEF Stable
<1>1. Before(t, x, y)
  BY DEF Stable
<1>2. ASSUME NEW k \in p .. j - 1, x = t[k], y = t[j] PROVE FALSE
  <2>1. k \in 1 .. Len(t) /\ x \in Elem /\ y \in Elem
    BY <1>2
  <2>2. Compare(x, y, up) > 0
    BY <1>2
  <2>3. Compare(x, y, up) = Rank(x, up) - Rank(y, up) /\ Rank(x, up) = Rank(y, up)
        /\ Rank(x, up) \in Int /\ Rank(y, up) \in Int
    BY <2>1, CompareIs
  <2> QED BY <2>2, <2>3
<1> QED BY <1>1, <1>2, RotateKeeps

\* A change of the list l after another
LEMMA BecomesHolds ==
  ASSUME NEW h, NEW f, f = [k \in List |-> f[k]], NEW l \in List, NEW t, NEW t2, NEW g,
         Becomes(h, With(f, l, t), l, t2, g)
  PROVE  Holds(g, With(f, l, t2), l, t2) /\ OthersSame(h, g, l)
BY WithTwice DEF Becomes, Holds, OthersSame

\* Every pass of sort_slist puts one more element where it belongs.
LEMMA TurnPasses ==
  ASSUME NEW h, NEW f, f = [k \in List |-> f[k]], NEW l \in List, NEW s, NEW up,
         NEW i \in Nat, NEW g, NEW t, Pass(h, f, l, s, up, i, g, t), i + 2 <= Len(s)
  PROVE  \E t2 : Pass(h, f, l, s, up, i + 1, Turn(g, l, up), t2)
<1>1. /\ Holds(g.h, With(f, l, t), l, t) /\ Ring(g.h, l, t) /\ t \in Seq(Elem) /\ Distinct(t)
      /\ Len(t) \in Nat /\ i + 2 <= Len(t) /\ Len(t) = Len(s)
  BY DEF Pass, Holds, Ring, SameElems
<1>2. /\ i + 1 \in 1 .. Len(t) /\ i + 1 \in 1 .. Len(t) + 1 /\ i + 1 <= Len(t)
      /\ t[i + 1] \in Elem /\ t[i + 1] # Null
  <2>1. i + 1 \in 1 .. Len(t)
    BY <1>1
  <2> QED BY <1>1, <2>1, Kinds
<1>3. g.cur = t[i + 1]
  BY <1>2 DEF Pass
<1>4. PICK q : q = From(g.h, l, g.cur) /\ Rest(t, i + 1, q)
  <2>1. g.cur = ToObject(l, At(l, t, i + 1))
    BY <1>1, <1>2, <1>3, ObjectAt
  <2> QED BY <1>1, <1>2, <2>1, Walk
<1>5. /\ q \in Seq(Elem) /\ Len(q) = Len(t) - i /\ Len(q) > 0
      /\ \A k \in 1 .. Len(q) : q[k] = t[k + i]
  <2>1. /\ q \in Seq(Elem) /\ Len(q) = Len(t) - (i + 1) + 1
        /\ \A k \in 1 .. Len(q) : q[k] = t[k + (i + 1) - 1]
    BY <1>4 DEF Rest
  <2>2. \A k \in 1 .. Len(q) : k + (i + 1) - 1 = k + i
    OBVIOUS
  <2> QED BY <1>1, <2>1, <2>2
<1>6. PICK c \in 1 .. Len(q) : Selected(q, up) = q[c] /\ ChosenAt(q, c, up)
  BY <1>5, SelectedIs
<1>7. PICK j, e : j = c + i /\ e = t[j] /\ e = Selected(q, up)
  BY <1>5, <1>6
<1>8. j \in 1 .. Len(t) /\ i + 1 \in 1 .. j /\ i + 1 <= j /\ e \in Elem
  <2>1. j \in 1 .. Len(t) /\ i + 1 \in 1 .. j /\ i + 1 <= j
    BY <1>1, <1>5, <1>7
  <2>2. t[j] \in Elem
    BY <1>1, <2>1, Kinds
  <2> QED BY <1>7, <2>1, <2>2
<1>9. \A b \in i + 1 .. Len(t) : Compare(t[j], t[b], up) <= 0
  <2> SUFFICES ASSUME NEW b \in i + 1 .. Len(t) PROVE Compare(t[j], t[b], up) <= 0
    OBVIOUS
  <2>1. b - i \in 1 .. Len(q) /\ (b - i) + i = b
    BY <1>1, <1>5
  <2>2. q[c] = t[j] /\ q[b - i] = t[b]
    BY <1>5, <1>7, <2>1
  <2> QED BY <1>6, <2>1, <2>2 DEF ChosenAt, LeastAt
<1>10. \A k \in i + 1 .. j - 1 : Compare(t[k], t[j], up) > 0
  <2> SUFFICES ASSUME NEW k \in i + 1 .. j - 1 PROVE Compare(t[k], t[j], up) > 0
    OBVIOUS
  <2>1. k - i \in 1 .. c - 1 /\ k - i \in 1 .. Len(q) /\ (k - i) + i = k
    BY <1>5, <1>7
  <2>2. q[c] = t[j] /\ q[k - i] = t[k]
    BY <1>5, <1>7, <2>1
  <2> QED BY <1>6, <2>1, <2>2 DEF ChosenAt
<1>11. PICK r : r = Store!RemoveAt(t, j) /\ Removed(t, j, r)
  BY <1>1, <1>8, RemoveAtIs
<1>12. PICK g1 : g1 = RemoveNode(g.h, e)
  OBVIOUS
<1>13. Becomes(g.h, With(f, l, t), l, r, g1) /\ Alone(With(f, l, r), e)
  <2>1. PICK w, g0 : w = With(f, l, t) /\ g0 = g.h
    OBVIOUS
  <2>2. Holds(g0, w, l, t)
    BY <1>1, <2>1
  <2>3. Becomes(g0, w, l, r, g1) /\ Alone(With(w, l, r), e)
    BY <1>7, <1>8, <1>11, <1>12, <2>1, <2>2, TakeOut
  <2>4. With(w, l, r) = With(f, l, r)
    BY <2>1, WithTwice
  <2> QED BY <2>1, <2>3, <2>4
<1>14. Holds(g1, With(f, l, r), l, r) /\ OthersSame(g.h, g1, l)
  BY <1>13, BecomesHolds
<1>15. g.done = IF i = 0 THEN Null ELSE r[i]
  <2>1. i # 0 => i \in 1 .. Len(r) /\ i < j
    BY <1>1, <1>8, <1>11 DEF Removed
  <2>2. i # 0 => r[i] = t[i]
    BY <1>11, <2>1 DEF Removed
  <2> QED BY <2>2 DEF Pass
<1>16. i \in 0 .. Len(r) /\ i + 1 \in 1 .. Len(r) + 1 /\ r \in Seq(Elem)
  BY <1>1, <1>11 DEF Removed
<1>17. PICK g2 : g2 = InsertAfter(g1, l, g.done, e)
  OBVIOUS
<1>18. PICK t2 : t2 = Store!InsertAt(r, i + 1, e) /\ Inserted(r, i + 1, e, t2)
  BY <1>8, <1>16, InsertAtIs
<1>19. Becomes(g1, With(f, l, r), l, t2, g2)
  BY <1>8, <1>13, <1>14, <1>15, <1>16, <1>17, <1>18, PutBehind DEF Puts
<1>20. Holds(g2, With(f, l, t2), l, t2) /\ OthersSame(g1, g2, l)
  BY <1>19, BecomesHolds
<1>21. Rotated(t, i + 1, j, t2)
  BY <1>1, <1>7, <1>8, <1>11, <1>18, RotatedIs
<1>22. Len(t2) = Len(t) /\ t2[i + 1] = e /\ t2 \in Seq(Elem)
  BY <1>2, <1>7, <1>21 DEF Rotated
<1>23. NextOf(g2, l, e) = IF (i + 1) + 1 <= Len(t2) THEN t2[(i + 1) + 1] ELSE Null
  <2>1. i + 1 \in 1 .. Len(t2) /\ (i + 1) + 1 \in 1 .. Len(t2) + 1
    BY <1>1, <1>2, <1>22
  <2>2. NextOf(g2, l, t2[i + 1]) = ToObject(l, At(l, t2, (i + 1) + 1))
    BY <1>20, <2>1, EndsOf
  <2> QED BY <1>22, <2>1, <2>2, ObjectAt
<1>24. PICK k : k = Turn(g, l, up)
  OBVIOUS
<1>25. k = [h |-> g2, done |-> e, cur |-> NextOf(g2, l, e)]
  BY <1>2, <1>3, <1>4, <1>7, <1>12, <1>17, <1>24 DEF Turn
<1>26. k.h = g2 /\ k.done = e /\ k.cur = NextOf(g2, l, e)
  BY <1>25
<1>27. SameElems(s, t2)
  <2>1. \A x : Occurs(r, x) <=> x # e /\ Occurs(t, x)
    BY <1>1, <1>7, <1>8, <1>11, RemoveOccurs
  <2>2. \A x : Occurs(t2, x) <=> x = e \/ Occurs(r, x)
    BY <1>16, <1>18, InsertOccurs
  <2>3. Occurs(t, e)
    BY <1>7, <1>8 DEF Occurs
  <2> QED BY <1>1, <1>22, <2>1, <2>2, <2>3 DEF Pass, SameElems
<1>28. Prefix(t2, i + 1, up)
  BY <1>1, <1>8, <1>9, <1>21, RotateSorts DEF Pass
<1>29. Stable(s, t2)
  BY <1>1, <1>8, <1>10, <1>21, RotateIsStable DEF Pass
<1>30. OthersSame(h, g2, l)
  BY <1>14, <1>20 DEF Pass, OthersSame, SameLinks
<1>31. i + 1 # 0
  OBVIOUS
<1>32. Pass(h, f, l, s, up, i + 1, k, t2)
  BY <1>20, <1>22, <1>23, <1>26, <1>27, <1>28, <1>29, <1>30, <1>31 DEF Pass
<1> QED BY <1>24, <1>32

\* g is h with the list l sorted.
SortedTo(h, f, l, s, up, g, t) ==
    /\ Holds(g, With(f, l, t), l, t) /\ OthersSame(h, g, l)
    /\ SameElems(s, t) /\ IsOrdered(t, up) /\ Stable(s, t)

\* sort_slist sorts a list, whatever its length and the order of its elements,
\* and keeps equal elements in the order they had.
THEOREM SortSorts ==
  ASSUME NEW h, NEW f, NEW l, NEW s, Holds(h, f, l, s), NEW up
  PROVE  \E t : SortedTo(h, f, l, s, up, Sorted(h, l, Len(s), up), t)
<1>1. l \in List /\ Len(s) \in Nat /\ f = [k \in List |-> f[k]] /\ s = f[l]
  BY DEF Holds, Ring, Shape
<1>2. PICK F : Turns(h, l, Len(s), up, F)
  BY <1>1, SortFunction
<1>3. Pass(h, f, l, s, up, 0, F[0], s)
  BY <1>2, StartPasses DEF Turns
<1>4. CASE Len(s) <= 1
  <2>1. Sorted(h, l, Len(s), up) = h
    BY <1>2, <1>4 DEF Turns
  <2>2. IsOrdered(s, up)
    <3>1. 1 .. Len(s) - 1 = {}
      BY <1>1, <1>4
    <3> QED BY <3>1 DEF IsOrdered
  <2>3. SortedTo(h, f, l, s, up, h, s)
    BY <1>1, <2>2, WithTwice DEF SortedTo, OthersSame, SameElems, Stable, SameLinks
  <2> QED BY <2>1, <2>3
<1>5. CASE Len(s) > 1
  <2> DEFINE S == {i \in Nat : i + 1 <= Len(s) => Done(h, f, l, s, up, i, F[i])}
  <2>1. 0 \in S
    BY <1>3 DEF Done
  <2>2. ASSUME NEW i \in Nat, i \in S PROVE i + 1 \in S
    <3>1. SUFFICES ASSUME i + 2 <= Len(s) PROVE Done(h, f, l, s, up, i + 1, F[i + 1])
      OBVIOUS
    <3>2. Done(h, f, l, s, up, i, F[i])
      BY <1>1, <2>2, <3>1
    <3>3. PICK g, t : g = F[i] /\ Pass(h, f, l, s, up, i, g, t)
      BY <3>2 DEF Done
    <3>4. i + 1 \in 1 .. Len(s) /\ (i + 1) - 1 = i
      BY <1>1, <3>1
    <3>5. F[i + 1] = Turn(g, l, up)
      BY <1>2, <3>3, <3>4 DEF Turns
    <3>6. \E t2 : Pass(h, f, l, s, up, i + 1, Turn(g, l, up), t2)
      BY <1>1, <3>1, <3>3, TurnPasses
    <3> QED BY <3>5, <3>6 DEF Done
  <2>3. \A i \in Nat : i \in S
    <3> HIDE DEF S
    <3> QED BY <2>1, <2>2, NatSet
  <2>4. PICK n \in Nat : n = Len(s) - 1
    BY <1>1, <1>5
  <2>5. PICK t : Pass(h, f, l, s, up, n, F[n], t)
    <3>1. n \in S
      <4> HIDE DEF S
      <4> QED BY <2>3, <2>4
    <3>3. n + 1 <= Len(s)
      BY <1>1, <2>4
    <3>2. Done(h, f, l, s, up, n, F[n])
      BY <3>1, <3>3
    <3> QED BY <3>2 DEF Done
  <2>6. Sorted(h, l, Len(s), up) = F[n].h
    BY <1>1, <1>2, <1>5, <2>4 DEF Turns
  <2>7. IsOrdered(t, up)
    <3>1. Len(t) = Len(s) /\ Prefix(t, n, up)
      BY <2>5 DEF Pass, SameElems
    <3>2. ASSUME NEW i \in 1 .. Len(t) - 1 PROVE Compare(t[i], t[i + 1], up) <= 0
      <4>1. i \in 1 .. n /\ i + 1 \in 1 .. Len(t) /\ i < i + 1
        BY <1>1, <2>4, <3>1
      <4> QED BY <3>1, <4>1 DEF Prefix
    <3> QED BY <3>2 DEF IsOrdered
  <2>8. SortedTo(h, f, l, s, up, F[n].h, t)
    BY <2>5, <2>7 DEF Pass, SortedTo
  <2> QED BY <2>6, <2>8
<1> QED BY <1>1, <1>4, <1>5
-----------------------------------------------------------------------------
\* The lists that the links of h make
Lists(h) == [l \in List |-> Contents(h, l)]

\* They are the only ones h can have.
LEMMA ListsAre ==
  ASSUME NEW h, NEW f, Shape(h, f)
  PROVE  Lists(h) = f
<1>1. f = [l \in List |-> f[l]]
  BY DEF Shape
<1>2. \A l \in List : Contents(h, l) = f[l]
  BY ContentsIs
<1> QED BY <1>1, <1>2 DEF Lists

\* A list whose ring is closed has links at its head.
LEMMA RingOpen ==
  ASSUME NEW h, NEW l \in List, NEW s, Ring(h, l, s)
  PROVE  h.next[l] # Null
<1>1. s \in Seq(Elem) /\ Len(s) \in Nat /\ 0 \in 0 .. Len(s) /\ 0 + 1 = 1 /\ 0 \notin 1 .. Len(s)
  BY DEF Ring
<1>2. h.next[At(l, s, 0)] = At(l, s, 0 + 1)
  BY <1>1 DEF Ring
<1>3. At(l, s, 0) = l
  BY <1>1 DEF At
<1>4. At(l, s, 1) # Null
  <2>1. CASE 1 \in 1 .. Len(s)
    <3>1. s[1] \in Elem
      BY <1>1, <2>1
    <3> QED BY <2>1, <3>1, Kinds DEF At
  <2>2. CASE 1 \notin 1 .. Len(s)
    BY <2>2, Kinds DEF At
  <2> QED BY <2>1, <2>2
<1> QED BY <1>1, <1>2, <1>3, <1>4
-----------------------------------------------------------------------------
\* The steps of the abstract lists: an element that is in none is put in,
PutIn(f, f2) ==
    \E l \in List, e \in Elem : \E i \in 1 .. Len(f[l]) + 1 :
        Alone(f, e) /\ f2 = With(f, l, Store!InsertAt(f[l], i, e))

\* one is taken out,
TookOut(f, f2) ==
    \E l \in List : \E i \in 1 .. Len(f[l]) : f2 = With(f, l, Store!RemoveAt(f[l], i))

\* one takes the place of another,
Replaced(f, f2) ==
    \E l \in List, e \in Elem : \E i \in 1 .. Len(f[l]) :
        Alone(f, e) /\ f2 = With(f, l, Store!ReplaceAt(f[l], i, e))

\* a list is put in another order,
PutInOrder(f, f2) ==
    \E l \in List : \E t : t \in Seq(Elem) /\ SameElems(f[l], t) /\ f2 = With(f, l, t)

\* or the elements of a list go to the end of another.
Hung(f, f2) == \E l, m \in List : l # m /\ f2 = Joining(f, l, m)

\* One step of the abstract lists, or none
Step(f, f2) ==
    \/ f2 = f \/ PutIn(f, f2) \/ TookOut(f, f2) \/ Replaced(f, f2)
    \/ PutInOrder(f, f2) \/ Hung(f, f2)

\* The sizes that slist.c keeps are the lengths of the lists f.
SizesFit(z, f) ==
    z = [l \in SizedList |-> z[l]] /\ \A l \in SizedList : z[l] = Len(f[l])

\* What every operation finds: the links make the lists f, the sizes fit, and
\* the lists without a size are open.
Good(h, z, f) ==
    Shape(h, f) /\ SizesFit(z, f) /\ \A l \in RawList : h.next[l] # Null

\* What it leaves: lists that one abstract step makes of f
Ends(h, z, f) == \E f2 : Good(h, z, f2) /\ Step(f, f2)

\* The size of l is changed by c.
Counted(z, l, c, z2) ==
    /\ z2 = [k \in SizedList |-> z2[k]] /\ z2[l] = z[l] + c
    /\ \A k \in SizedList \ {l} : z2[k] = z[k]

\* The size follows the length when an operation of slist.c changes its list.
LEMMA SizedChange ==
  ASSUME NEW h, NEW z, NEW f, Good(h, z, f), NEW l \in SizedList, NEW t, NEW g, NEW z2,
         Shape(g, With(f, l, t)), OthersSame(h, g, l),
         NEW c, Len(t) = Len(f[l]) + c, Counted(z, l, c, z2)
  PROVE  Good(g, z2, With(f, l, t))
<1>1. /\ l \in List /\ l \notin RawList /\ f = [k \in List |-> f[k]]
      /\ \A k \in SizedList : k \in List
      /\ \A k \in RawList : k \in List
  BY SListAssumption DEF List, Good, Shape
<1>2. With(f, l, t)[l] = t /\ \A m \in List \ {l} : With(f, l, t)[m] = f[m]
  BY <1>1, WithIs
<1>3. SizesFit(z2, With(f, l, t))
  BY <1>1, <1>2 DEF Good, SizesFit, Counted
<1>4. \A m \in RawList : g.next[m] # Null
  BY <1>1 DEF Good, OthersSame, SameLinks
<1> QED BY <1>3, <1>4 DEF Good

\* A list without a size is changed by the operations of list_sol.c alone.
LEMMA RawChange ==
  ASSUME NEW h, NEW z, NEW f, Good(h, z, f), NEW l \in RawList, NEW t, NEW g,
         Becomes(h, f, l, t, g)
  PROVE  Good(g, z, With(f, l, t))
<1>1. /\ l \in List /\ l \notin SizedList /\ f = [k \in List |-> f[k]]
      /\ \A k \in SizedList : k \in List
      /\ \A k \in RawList : k \in List
  BY SListAssumption DEF List, Good, Shape
<1>2. With(f, l, t)[l] = t /\ \A m \in List \ {l} : With(f, l, t)[m] = f[m]
  BY <1>1, WithIs
<1>3. SizesFit(z, With(f, l, t))
  BY <1>1, <1>2 DEF Good, SizesFit
<1>4. g.next[l] # Null
  BY <1>1, RingOpen DEF Becomes
<1>5. \A m \in RawList : g.next[m] # Null
  BY <1>1, <1>4 DEF Good, Becomes, SameLinks
<1> QED BY <1>3, <1>5 DEF Good, Becomes

\* The change of a size is a count.
LEMMA SizedIs ==
  ASSUME NEW f, SizesFit(size, f), NEW l \in SizedList, NEW g, NEW c, Sized(l, g, c)
  PROVE  heap' = g /\ Counted(size, l, c, size')
<1>1. size = [k \in SizedList |-> size[k]]
  BY DEF SizesFit
<1>2. heap' = g /\ size' = [size EXCEPT ![l] = size[l] + c]
  BY DEF Sized
<1>3. /\ size' = [k \in SizedList |-> size'[k]] /\ size'[l] = size[l] + c
      /\ \A k \in SizedList \ {l} : size'[k] = size[k]
  BY <1>1, <1>2
<1> QED BY <1>2, <1>3 DEF Counted
-----------------------------------------------------------------------------
\* An open list of the state: its ring, and the elements a caller finds in it
LEMMA OpenIs ==
  ASSUME NEW f, Good(heap, size, f), NEW l \in List, heap.next[l] # Null
  PROVE  Holds(heap, f, l, f[l]) /\ In(l) = {f[l][k] : k \in 1 .. Len(f[l])}
<1>1. Holds(heap, f, l, f[l])
  BY OpenHolds DEF Good
<1>2. From(heap, l, HeadOf(heap, l)) = f[l]
  BY <1>1, FromHead
<1>3. f[l] \in Seq(Elem)
  BY <1>1 DEF Holds, Ring
<1>4. DOMAIN f[l] = 1 .. Len(f[l])
  BY <1>3
<1> QED BY <1>1, <1>2, <1>4 DEF In

\* An element that list_sol_link_active says is in no list
LEMMA InactiveIs ==
  ASSUME NEW f, Good(heap, size, f), NEW e \in Elem, ~Active(e)
  PROVE  Alone(f, e)
BY ActiveIs DEF Good, Active

\* e was put into l somewhere, and its size is larger by one.
PutSomewhere(f, l, e) ==
    \E i, g : /\ i \in 1 .. Len(f[l]) + 1
              /\ Puts(heap, f, l, f[l], i, e, g) /\ Sized(l, g, 1)

\* Each of the insertions puts e at some position of the list.
LEMMA InsertPuts ==
  ASSUME NEW f, Good(heap, size, f), NEW l \in SizedList, Active(l), NEW e \in Elem,
         InsertOp(l, e)
  PROVE  PutSomewhere(f, l, e)
<1>1. l \in List /\ heap.next[l] # Null
  BY DEF List, Active
<1>2. PICK s : s = f[l] /\ Holds(heap, f, l, s) /\ In(l) = {s[k] : k \in 1 .. Len(s)}
  BY <1>1, OpenIs
<1>3. /\ Len(s) \in Nat /\ Len(s) + 1 \in 1 .. Len(s) + 1 /\ 1 \in 1 .. Len(s) + 1
      /\ Len(s) + 1 - 1 = Len(s) /\ 1 - 1 = 0 /\ 0 \in 0 .. Len(s)
      /\ Len(s) + 1 \notin 1 .. Len(s) /\ 0 \notin 1 .. Len(s) /\ ~(Len(s) + 1 <= Len(s))
      /\ s \in Seq(Elem)
  BY <1>2 DEF Holds, Ring
<1>4. Alone(f, e)
  BY InactiveIs DEF InsertOp
<1>5. CASE Sized(l, BeforeNode(heap, l, e), 1)
  <2>1. At(l, s, Len(s) + 1) = l
    BY <1>3 DEF At
  <2>2. Puts(heap, f, l, s, Len(s) + 1, e, BeforeNode(heap, l, e))
    BY <1>2, <1>3, <1>4, <2>1, PutBefore
  <2> QED BY <1>2, <1>3, <1>5, <2>2 DEF PutSomewhere
<1>6. CASE Sized(l, AfterNode(heap, l, e), 1)
  <2>1. At(l, s, 1 - 1) = l
    BY <1>3 DEF At
  <2>2. Puts(heap, f, l, s, 1, e, AfterNode(heap, l, e))
    BY <1>2, <1>3, <1>4, <2>1, PutAfter
  <2> QED BY <1>2, <1>3, <1>6, <2>2 DEF PutSomewhere
<1>7. ASSUME NEW o \in In(l) \cup {Null}, Sized(l, InsertAfter(heap, l, o, e), 1)
      PROVE  PutSomewhere(f, l, e)
  <2>1. PICK k \in 0 .. Len(s) : o = IF k = 0 THEN Null ELSE s[k]
    <3>1. CASE o = Null
      BY <1>3, <3>1
    <3>2. CASE o # Null
      <4>1. PICK k \in 1 .. Len(s) : o = s[k]
        BY <1>2, <3>2
      <4>2. k \in 0 .. Len(s) /\ k # 0
        BY <1>3
      <4> QED BY <4>1, <4>2
    <3> QED BY <3>1, <3>2
  <2>2. Puts(heap, f, l, s, k + 1, e, InsertAfter(heap, l, o, e))
    BY <1>2, <1>4, <2>1, PutBehind
  <2>3. k + 1 \in 1 .. Len(s) + 1
    BY <1>3
  <2> QED BY <1>2, <1>7, <2>2, <2>3 DEF PutSomewhere
<1>8. ASSUME NEW o \in In(l) \cup {Null}, Sized(l, InsertBefore(heap, l, o, e), 1)
      PROVE  PutSomewhere(f, l, e)
  <2>1. PICK k \in 1 .. Len(s) + 1 : o = IF k <= Len(s) THEN s[k] ELSE Null
    <3>1. CASE o = Null
      BY <1>3, <3>1
    <3>2. CASE o # Null
      <4>1. PICK k \in 1 .. Len(s) : o = s[k]
        BY <1>2, <3>2
      <4>2. k \in 1 .. Len(s) + 1 /\ k <= Len(s)
        BY <1>3
      <4> QED BY <4>1, <4>2
    <3> QED BY <3>1, <3>2
  <2>2. Puts(heap, f, l, s, k, e, InsertBefore(heap, l, o, e))
    BY <1>2, <1>4, <2>1, PutAhead
  <2> QED BY <1>2, <1>8, <2>2 DEF PutSomewhere
<1>9. ASSUME NEW up, Sized(l, SortedInsert(heap, l, e, up), 1) PROVE PutSomewhere(f, l, e)
  <2>1. PICK i, o : /\ FirstAt(s, {x \in Elem : Compare(x, e, up) > 0}, i, o)
                    /\ Puts(heap, f, l, s, i, e, SortedInsert(heap, l, e, up))
    BY <1>2, <1>4, SortedPuts
  <2>2. i \in 1 .. Len(s) + 1
    BY <2>1 DEF FirstAt
  <2> QED BY <1>2, <1>9, <2>1, <2>2 DEF PutSomewhere
<1>10. ASSUME NEW up, Sized(l, SortedInsertFront(heap, l, e, up), 1) PROVE PutSomewhere(f, l, e)
  <2>1. PICK i, o : /\ FirstAt(s, {x \in Elem : Compare(x, e, up) >= 0}, i, o)
                    /\ Puts(heap, f, l, s, i, e, SortedInsertFront(heap, l, e, up))
    BY <1>2, <1>4, SortedFrontPuts
  <2>2. i \in 1 .. Len(s) + 1
    BY <2>1 DEF FirstAt
  <2> QED BY <1>2, <1>10, <2>1, <2>2 DEF PutSomewhere
<1> QED BY <1>5, <1>6, <1>7, <1>8, <1>9, <1>10 DEF InsertOp

\* The insertions of slist.c,
LEMMA InsertEnds ==
  ASSUME NEW f, Good(heap, size, f), NEW l \in SizedList, Active(l), NEW e \in Elem,
         InsertOp(l, e)
  PROVE  Ends(heap', size', f)
<1>1. PICK i, g : /\ i \in 1 .. Len(f[l]) + 1
                  /\ Puts(heap, f, l, f[l], i, e, g) /\ Sized(l, g, 1)
  BY InsertPuts DEF PutSomewhere
<1>2. l \in List /\ heap.next[l] # Null /\ SizesFit(size, f) /\ Alone(f, e)
  BY InactiveIs DEF List, Active, Good, InsertOp
<1>3. f[l] \in Seq(Elem)
  BY <1>2, OpenIs DEF Holds, Ring
<1>4. PICK t : t = Store!InsertAt(f[l], i, e) /\ Len(t) = Len(f[l]) + 1
  BY <1>1, <1>3, InsertAtIs DEF Inserted
<1>5. Shape(g, With(f, l, t)) /\ OthersSame(heap, g, l)
  BY <1>1, <1>4 DEF Puts, Becomes, OthersSame
<1>6. PICK h2, z2 : h2 = heap' /\ z2 = size' /\ h2 = g /\ Counted(size, l, 1, z2)
  BY <1>1, <1>2, SizedIs
<1>7. PICK h, z : h = heap /\ z = size
  OBVIOUS
<1>8. Good(g, z2, With(f, l, t))
  BY <1>4, <1>5, <1>6, <1>7, SizedChange
<1>9. PutIn(f, With(f, l, t))
  BY <1>1, <1>2, <1>4 DEF PutIn
<1> QED BY <1>6, <1>8, <1>9 DEF Ends, Step

\* remove_slist,
LEMMA RemoveEnds ==
  ASSUME NEW f, Good(heap, size, f), NEW l \in SizedList, Active(l), NEW e \in Elem,
         RemoveOp(l, e)
  PROVE  Ends(heap', size', f)
<1>1. l \in List /\ heap.next[l] # Null /\ SizesFit(size, f)
  BY DEF List, Active, Good
<1>2. Holds(heap, f, l, f[l]) /\ In(l) = {f[l][k] : k \in 1 .. Len(f[l])}
  BY <1>1, OpenIs
<1>3. PICK i \in 1 .. Len(f[l]) : e = f[l][i]
  BY <1>2 DEF RemoveOp
<1>4. f[l] \in Seq(Elem) /\ Len(f[l]) \in Nat
  BY <1>2 DEF Holds, Ring
<1>5. PICK t : t = Store!RemoveAt(f[l], i) /\ Len(t) = Len(f[l]) - 1
  BY <1>4, RemoveAtIs DEF Removed
<1>6. Len(t) = Len(f[l]) + (-1)
  BY <1>4, <1>5
<1>7. PICK g : g = RemoveNode(heap, e) /\ Shape(g, With(f, l, t)) /\ OthersSame(heap, g, l)
  BY <1>2, <1>3, <1>5, TakeOut DEF Becomes, OthersSame
<1>8. PICK h2, z2 : h2 = heap' /\ z2 = size' /\ h2 = g /\ Counted(size, l, -1, z2)
  BY <1>1, <1>7, SizedIs DEF RemoveOp
<1>9. PICK h, z : h = heap /\ z = size
  OBVIOUS
<1>10. Good(g, z2, With(f, l, t))
  BY <1>6, <1>7, <1>8, <1>9, SizedChange
<1>11. TookOut(f, With(f, l, t))
  BY <1>1, <1>5 DEF TookOut
<1> QED BY <1>8, <1>10, <1>11 DEF Ends, Step

\* sort_slist,
LEMMA SortEnds ==
  ASSUME NEW f, Good(heap, size, f), NEW l \in SizedList, Active(l), NEW up, SortOp(l, up)
  PROVE  Ends(heap', size', f)
<1>1. l \in List /\ heap.next[l] # Null /\ SizesFit(size, f) /\ size[l] = Len(f[l])
  BY DEF List, Active, Good, SizesFit
<1>2. Holds(heap, f, l, f[l])
  BY <1>1, OpenIs
<1>3. PICK g, t : g = Sorted(heap, l, size[l], up) /\ SortedTo(heap, f, l, f[l], up, g, t)
  BY <1>1, <1>2, SortSorts
<1>4. /\ Shape(g, With(f, l, t)) /\ OthersSame(heap, g, l) /\ SameElems(f[l], t)
      /\ t \in Seq(Elem)
  BY <1>3 DEF SortedTo, Holds, Ring
<1>5. Len(f[l]) \in Nat /\ Len(t) = Len(f[l]) + 0
  BY <1>2, <1>4 DEF Holds, Ring, SameElems
<1>6. PICK h2, z2 : h2 = heap' /\ z2 = size' /\ h2 = g /\ Counted(size, l, 0, z2)
  BY <1>1, <1>3, SizedIs DEF SortOp
<1>7. PICK h, z : h = heap /\ z = size
  OBVIOUS
<1>8. Good(g, z2, With(f, l, t))
  BY <1>4, <1>5, <1>6, <1>7, SizedChange
<1>9. PutInOrder(f, With(f, l, t))
  BY <1>1, <1>4 DEF PutInOrder
<1> QED BY <1>6, <1>8, <1>9 DEF Ends, Step
-----------------------------------------------------------------------------
\* The two links of a node are set.
LEMMA LinkIs ==
  ASSUME NEW h, HeapType(h), NEW n \in Node, NEW to \in Node \cup {Null},
         NEW g, g = Link(h, n, to)
  PROVE  /\ HeapType(g) /\ g.next[n] = to /\ g.prev[n] = to
         /\ \A x \in Node : x # n => SameLinks(h, g, x)
<1>1. /\ g = [next |-> g.next, prev |-> g.prev]
      /\ g.next = [h.next EXCEPT ![n] = to] /\ g.prev = [h.prev EXCEPT ![n] = to]
  BY DEF Link
<1>2. g.next \in [Node -> Node \cup {Null}] /\ g.prev \in [Node -> Node \cup {Null}]
  BY <1>1 DEF HeapType
<1>3. /\ g.next[n] = to /\ g.prev[n] = to
      /\ \A x \in Node : x # n => g.next[x] = h.next[x] /\ g.prev[x] = h.prev[x]
  BY <1>1 DEF HeapType
<1> QED BY <1>1, <1>2, <1>3 DEF HeapType, SameLinks

\* A list without elements
LEMMA NothingOccurs == \A x : ~Occurs(<<>>, x)
<1>1. 1 .. Len(<<>>) = {}
  OBVIOUS
<1> QED BY <1>1 DEF Occurs

\* A list without elements can be closed and opened.
LEMMA LinkEmpty ==
  ASSUME NEW h, NEW z, NEW f, Good(h, z, f), NEW l \in SizedList, f[l] = <<>>,
         NEW to \in {l, Null}, NEW g, g = Link(h, l, to), NEW z2, Counted(z, l, 0, z2)
  PROVE  Ends(g, z2, f)
<1>1. l \in List /\ l \in Node /\ HeapType(h) /\ Shape(h, f) /\ to \in Node \cup {Null}
  BY Kinds DEF List, Good, Shape
<1>2. /\ HeapType(g) /\ g.next[l] = to /\ g.prev[l] = to
      /\ \A x \in Node : x # l => SameLinks(h, g, x)
  BY <1>1, LinkIs
<1>3. Line(g, l, <<>>)
  <2>1. CASE to = l
    <3>1. Ring(g, l, <<>>)
      BY <1>2, <2>1, EmptyRing
    <3> QED BY <3>1 DEF Line
  <2>2. CASE to = Null
    BY <1>2, <2>2 DEF Line
  <2> QED BY <2>1, <2>2
<1>4. PICK s : s = f[l] /\ \A x : ~Occurs(s, x)
  BY NothingOccurs
<1>5. PICK t : t = <<>> /\ Line(g, l, t) /\ \A x : ~Occurs(t, x)
  BY <1>3, NothingOccurs
<1>6. Shape(g, With(f, l, t))
  BY <1>1, <1>2, <1>4, <1>5, ShapeOne
<1>7. OthersSame(h, g, l)
  BY <1>2, Kinds DEF OthersSame
<1>8. Len(t) = Len(f[l]) + 0 /\ Len(t) = Len(f[l]) /\ t \in Seq(Elem)
  BY <1>5
<1>9. Good(g, z2, With(f, l, t))
  BY <1>6, <1>7, <1>8, SizedChange
<1>10. SameElems(f[l], t)
  BY <1>4, <1>5, <1>8 DEF SameElems
<1>11. PutInOrder(f, With(f, l, t))
  BY <1>1, <1>8, <1>10 DEF PutInOrder
<1> QED BY <1>9, <1>11 DEF Ends, Step

\* The size of a list without elements is set to what it is.
LEMMA ResetIs ==
  ASSUME NEW f, SizesFit(size, f), NEW l \in SizedList, f[l] = <<>>,
         size' = [size EXCEPT ![l] = 0]
  PROVE  Counted(size, l, 0, size')
<1>1. size = [k \in SizedList |-> size[k]] /\ size[l] = 0 + 0
  BY DEF SizesFit
<1>2. /\ size' = [k \in SizedList |-> size'[k]] /\ size'[l] = 0
      /\ \A k \in SizedList \ {l} : size'[k] = size[k]
  BY <1>1
<1> QED BY <1>1, <1>2 DEF Counted

\* destroy_slist,
LEMMA DestroyEnds ==
  ASSUME NEW f, Good(heap, size, f), NEW l \in SizedList, Active(l), DestroyOp(l)
  PROVE  Ends(heap', size', f)
<1>1. l \in List /\ heap.next[l] # Null /\ SizesFit(size, f)
  BY DEF List, Active, Good
<1>2. PICK s : s = f[l] /\ Holds(heap, f, l, s)
  BY <1>1, OpenIs
<1>3. f[l] = <<>>
  <2>1. /\ s \in Seq(Elem) /\ Len(s) \in Nat /\ 0 \in 0 .. Len(s) /\ 0 + 1 = 1
        /\ 0 \notin 1 .. Len(s)
    BY <1>2 DEF Holds, Ring
  <2>2. heap.next[At(l, s, 0)] = At(l, s, 1) /\ At(l, s, 0) = l
    BY <1>2, <2>1 DEF Holds, Ring, At
  <2>3. At(l, s, 1) = l
    BY <2>2 DEF DestroyOp
  <2>4. 1 \notin 1 .. Len(s)
    <3> SUFFICES ASSUME 1 \in 1 .. Len(s) PROVE FALSE
      OBVIOUS
    <3>1. s[1] \in Elem /\ s[1] = l
      BY <2>1, <2>3 DEF At
    <3> QED BY <1>1, <3>1, Kinds
  <2>5. Len(s) = 0
    BY <2>1, <2>4
  <2> QED BY <1>2, <2>1, <2>5
<1>4. PICK h, g, z, z2 : h = heap /\ g = heap' /\ z = size /\ z2 = size'
  OBVIOUS
<1>5. Counted(z, l, 0, z2)
  BY <1>1, <1>3, <1>4, ResetIs DEF DestroyOp
<1>6. g = Link(h, l, Null)
  BY <1>4 DEF DestroyOp
<1>7. Good(h, z, f)
  BY <1>4
<1>8. Ends(g, z2, f)
  BY <1>3, <1>5, <1>6, <1>7, LinkEmpty
<1> QED BY <1>4, <1>8

\* init_slist
LEMMA InitEnds ==
  ASSUME NEW f, Good(heap, size, f), NEW l \in SizedList, InitOp(l)
  PROVE  Ends(heap', size', f)
<1>1. l \in List /\ heap.next[l] = Null /\ SizesFit(size, f) /\ Line(heap, l, f[l])
  BY DEF List, Active, Good, InitOp, Shape
<1>2. f[l] = <<>>
  BY <1>1, RingOpen DEF Line
<1>3. PICK h, g, z, z2 : h = heap /\ g = heap' /\ z = size /\ z2 = size'
  OBVIOUS
<1>4. Counted(z, l, 0, z2)
  BY <1>1, <1>2, <1>3, ResetIs DEF InitOp
<1>5. g = Link(h, l, l)
  BY <1>3 DEF InitOp
<1>6. Good(h, z, f)
  BY <1>3
<1>7. Ends(g, z2, f)
  BY <1>2, <1>4, <1>5, <1>6, LinkEmpty
<1> QED BY <1>3, <1>7
-----------------------------------------------------------------------------
\* new takes the links of old, which has none left: as if old had been taken
\* out first and new been linked in there.
LEMMA ReplaceSplices ==
  ASSUME NEW h, HeapType(h), NEW a \in Node, NEW b \in Node, NEW old \in Node, NEW new \in Node,
         h.prev[old] = a, h.next[old] = b, old # a, old # b, new # a, new # b, new # old,
         NEW g, Unspliced(h, a, old, b, g)
  PROVE  Spliced(g, a, new, b, LinkReplace(h, old, new))
<1>1. PICK k : k = LinkReplace(h, old, new)
  OBVIOUS
<1>2. /\ k = [next |-> k.next, prev |-> k.prev]
      /\ k.next = [h.next EXCEPT ![new] = b, ![a] = new, ![old] = Null]
      /\ k.prev = [h.prev EXCEPT ![new] = a, ![b] = new, ![old] = Null]
  BY <1>1 DEF LinkReplace
<1>3. k.next \in [Node -> Node \cup {Null}] /\ k.prev \in [Node -> Node \cup {Null}]
  BY <1>2 DEF HeapType
<1>4. /\ k.next[new] = b /\ k.next[a] = new /\ k.next[old] = Null
      /\ \A x \in Node \ {new, a, old} : k.next[x] = h.next[x]
  BY <1>2 DEF HeapType
<1>5. /\ k.prev[new] = a /\ k.prev[b] = new /\ k.prev[old] = Null
      /\ \A x \in Node \ {new, b, old} : k.prev[x] = h.prev[x]
  BY <1>2 DEF HeapType
<1>6. \A x \in Node \ {new, a} : k.next[x] = g.next[x]
  BY <1>4 DEF Unspliced, Unlinked
<1>7. \A x \in Node \ {new, b} : k.prev[x] = g.prev[x]
  BY <1>5 DEF Unspliced, Unlinked
<1>8. HeapType(k)
  BY <1>2, <1>3 DEF HeapType
<1> QED BY <1>1, <1>4, <1>5, <1>6, <1>7, <1>8 DEF Spliced

\* list_sol_link_replace puts new where old was.
LEMMA ReplaceBecomes ==
  ASSUME NEW h, NEW f, NEW l, NEW s, Holds(h, f, l, s), NEW i \in 1 .. Len(s),
         NEW new \in Elem, Alone(f, new)
  PROVE  Becomes(h, f, l, Store!ReplaceAt(s, i, new), LinkReplace(h, s[i], new))
<1>1. /\ l \in List /\ s = f[l] /\ Ring(h, l, s) /\ Shape(h, f) /\ HeapType(h)
      /\ s \in Seq(Elem) /\ Len(s) \in Nat /\ f = [k \in List |-> f[k]]
      /\ i - 1 \in 0 .. Len(s) /\ i \in 0 .. Len(s) /\ (i - 1) + 1 = i
  BY DEF Holds, Ring, Shape
<1>2. PICK a, b, e, r, g : /\ a = At(l, s, i - 1) /\ b = At(l, s, i + 1) /\ e = s[i]
                           /\ r = Store!RemoveAt(s, i) /\ g = RemoveNode(h, e)
  OBVIOUS
<1>3. /\ Becomes(h, f, l, r, g) /\ Alone(With(f, l, r), e) /\ Unspliced(h, a, e, b, g)
  BY <1>2, TakeOut
<1>4. Removed(s, i, r)
  BY <1>1, <1>2, RemoveAtIs
<1>5. /\ a \in Node /\ h.next[a] = e /\ h.prev[e] = a /\ new # a /\ new # e
  <2>1. /\ At(l, s, i - 1) \in Node /\ h.next[At(l, s, i - 1)] = At(l, s, (i - 1) + 1)
        /\ h.prev[At(l, s, (i - 1) + 1)] = At(l, s, i - 1)
        /\ new # At(l, s, i - 1) /\ new # At(l, s, (i - 1) + 1)
    BY <1>1, Around
  <2>2. At(l, s, (i - 1) + 1) = e
    BY <1>1, <1>2 DEF At
  <2> QED BY <1>2, <2>1, <2>2
<1>6. /\ b \in Node /\ h.next[e] = b /\ new # b
  <2>1. /\ At(l, s, i + 1) \in Node /\ h.next[At(l, s, i)] = At(l, s, i + 1)
        /\ new # At(l, s, i + 1)
    BY <1>1, Around
  <2>2. At(l, s, i) = e
    BY <1>1, <1>2 DEF At
  <2> QED BY <1>2, <2>1, <2>2
<1>7. e \in Elem /\ e \in Node /\ new \in Node /\ l \notin Elem
  BY <1>1, <1>2, Kinds
<1>8. e # a /\ e # b
  <2>1. CASE e = a
    <3>1. i - 1 \in 1 .. Len(s) /\ s[i - 1] = s[i]
      BY <1>2, <1>7, <2>1 DEF At
    <3>2. i - 1 = i
      BY <1>1, <3>1 DEF Ring, Distinct
    <3> QED BY <3>2
  <2>2. CASE e = b
    <3>1. i + 1 \in 1 .. Len(s) /\ s[i + 1] = s[i]
      BY <1>2, <1>7, <2>2 DEF At
    <3>2. i + 1 = i
      BY <1>1, <3>1 DEF Ring, Distinct
    <3> QED BY <3>2
  <2> QED BY <2>1, <2>2
<1>9. PICK k : k = LinkReplace(h, e, new) /\ Spliced(g, a, new, b, k)
  BY <1>1, <1>3, <1>5, <1>6, <1>7, <1>8, ReplaceSplices
<1>10. /\ Len(r) \in Nat /\ r \in Seq(Elem) /\ i \in 1 .. Len(r) + 1
  BY <1>1, <1>4 DEF Removed
<1>11. At(l, r, i - 1) = a
  <2>1. i - 1 \in 1 .. Len(r) <=> i - 1 \in 1 .. Len(s)
    BY <1>1, <1>4 DEF Removed
  <2>2. i - 1 \in 1 .. Len(r) => r[i - 1] = s[i - 1]
    BY <1>1, <1>4 DEF Removed
  <2> QED BY <1>2, <2>1, <2>2 DEF At
<1>12. At(l, r, i) = b
  <2>1. i \in 1 .. Len(r) <=> i + 1 \in 1 .. Len(s)
    BY <1>1, <1>4 DEF Removed
  <2>2. i \in 1 .. Len(r) => r[i] = s[i + 1]
    BY <1>1, <1>4 DEF Removed
  <2> QED BY <1>2, <2>1, <2>2 DEF At
<1>13. PICK f1 : f1 = With(f, l, r) /\ Shape(g, f1) /\ f1[l] = r /\ Ring(g, l, r)
  BY <1>1, <1>3, WithIs DEF Becomes
<1>14. Alone(f1, new)
  <2>1. \A x : Occurs(r, x) => Occurs(s, x)
    BY <1>1, <1>4, RemoveOccurs DEF Ring
  <2>2. \A m \in List \ {l} : f1[m] = f[m]
    BY <1>1, <1>13, WithIs
  <2> QED BY <1>1, <1>13, <2>1, <2>2 DEF Alone
<1>15. PICK t : t = Store!InsertAt(r, i, new) /\ Inserted(r, i, new, t)
  BY <1>10, InsertAtIs
<1>16. Becomes(g, f1, l, t, k)
  <2>1. Spliced(g, At(l, r, i - 1), new, At(l, r, i), k)
    BY <1>9, <1>11, <1>12
  <2> QED BY <1>1, <1>10, <1>13, <1>14, <1>15, <2>1, SpliceBecomes
<1>17. With(f1, l, t) = With(f, l, t)
  BY <1>1, <1>13, WithTwice
<1>18. Becomes(h, f, l, t, k)
  BY <1>3, <1>16, <1>17 DEF Becomes, SameLinks
<1>19. t = Store!ReplaceAt(s, i, new)
  BY <1>1, <1>4, <1>15, ReplaceAtIs
<1> QED BY <1>2, <1>9, <1>18, <1>19

\* and the operations of list_sol.c each do one abstract step, and leave the
\* lists good.
LEMMA RawEnds ==
  ASSUME NEW f, Good(heap, size, f), NEW l \in RawList, RawOp(l)
  PROVE  Ends(heap', size', f)
<1>1. l \in List /\ heap.next[l] # Null /\ f = [k \in List |-> f[k]]
  BY DEF List, Good, Shape
<1>2. PICK s : s = f[l] /\ Holds(heap, f, l, s) /\ In(l) = {s[k] : k \in 1 .. Len(s)}
  BY <1>1, OpenIs
<1>3. /\ Len(s) \in Nat /\ Len(s) + 1 \in 1 .. Len(s) + 1 /\ s \in Seq(Elem)
      /\ Len(s) + 1 \notin 1 .. Len(s)
  BY <1>2 DEF Holds, Ring
<1>4. PICK h, z : h = heap /\ z = size /\ Good(h, z, f)
  OBVIOUS
<1>5. ASSUME NEW t, NEW g, Becomes(h, f, l, t, g), Raw(g), Step(f, With(f, l, t))
      PROVE  Ends(heap', size', f)
  <2>1. Good(g, z, With(f, l, t))
    BY <1>4, <1>5, RawChange
  <2>2. heap' = g /\ size' = z
    BY <1>4, <1>5 DEF Raw
  <2> QED BY <1>5, <2>1, <2>2 DEF Ends
<1>6. ASSUME NEW e \in Elem, ~Active(e), Raw(BeforeNode(heap, l, e))
      PROVE  Ends(heap', size', f)
  <2>1. Alone(f, e)
    BY <1>6, InactiveIs
  <2>2. At(l, s, Len(s) + 1) = l
    BY <1>3 DEF At
  <2>3. PICK g : g = BeforeNode(heap, l, e) /\ Puts(heap, f, l, s, Len(s) + 1, e, g)
    BY <1>2, <1>3, <2>1, <2>2, PutBefore
  <2>4. PICK t : t = Store!InsertAt(s, Len(s) + 1, e) /\ Becomes(h, f, l, t, g)
    BY <1>4, <2>3 DEF Puts
  <2>5. PutIn(f, With(f, l, t))
    BY <1>1, <1>2, <1>3, <2>1, <2>4 DEF PutIn
  <2> QED BY <1>5, <1>6, <2>3, <2>4, <2>5 DEF Step
<1>7. ASSUME NEW i \in 1 .. Len(s), Raw(RemoveNode(heap, s[i])) PROVE Ends(heap', size', f)
  <2>1. PICK g : /\ g = RemoveNode(heap, s[i])
                 /\ Becomes(heap, f, l, Store!RemoveAt(s, i), g)
    BY <1>2, TakeOut
  <2>2. PICK t : t = Store!RemoveAt(s, i) /\ Becomes(h, f, l, t, g)
    BY <1>4, <2>1
  <2>3. TookOut(f, With(f, l, t))
    BY <1>1, <1>2, <2>2 DEF TookOut
  <2> QED BY <1>5, <1>7, <2>1, <2>2, <2>3 DEF Step
<1>8. CASE HeadOf(heap, l) # Null /\ Raw(RemoveNode(heap, HeadOf(heap, l)))
  <2>1. 1 \in 1 .. Len(s) + 1
    BY <1>3
  <2>2. HeadOf(heap, l) = ToObject(l, At(l, s, 1))
    BY <1>2, EndsOf
  <2>3. HeadOf(heap, l) = IF 1 <= Len(s) THEN s[1] ELSE Null
    BY <1>1, <1>3, <2>1, <2>2, ObjectAt
  <2>4. 1 <= Len(s) /\ HeadOf(heap, l) = s[1]
    BY <1>8, <2>3
  <2>5. 1 \in 1 .. Len(s)
    BY <1>3, <2>4
  <2> QED BY <1>7, <1>8, <2>4, <2>5
<1>9. CASE TailOf(heap, l) # Null /\ Raw(RemoveNode(heap, TailOf(heap, l)))
  <2>1. TailOf(heap, l) = ToObject(l, At(l, s, Len(s)))
    BY <1>2, EndsOf
  <2>2. Len(s) # 0
    <3> SUFFICES ASSUME Len(s) = 0 PROVE FALSE
      OBVIOUS
    <3>1. Len(s) \notin 1 .. Len(s)
      OBVIOUS
    <3>2. At(l, s, Len(s)) = l
      BY <3>1 DEF At
    <3> QED BY <1>9, <2>1, <3>2 DEF ToObject
  <2>3. Len(s) \in 1 .. Len(s) /\ Len(s) \in 1 .. Len(s) + 1 /\ Len(s) <= Len(s)
    BY <1>3, <2>2
  <2>4. ToObject(l, At(l, s, Len(s))) = IF Len(s) <= Len(s) THEN s[Len(s)] ELSE Null
    BY <1>1, <1>3, <2>3, ObjectAt
  <2>5. TailOf(heap, l) = s[Len(s)]
    BY <2>1, <2>3, <2>4
  <2> QED BY <1>7, <1>9, <2>3, <2>5
<1>10. ASSUME NEW m \in RawList \ {l}, Raw(MoveTail(heap, l, m)) PROVE Ends(heap', size', f)
  <2>1. m \in List /\ l # m /\ heap.next[m] # Null
    BY <1>10 DEF List, Good
  <2>2. PICK r : r = f[m] /\ Holds(heap, f, m, r)
    BY <2>1, OpenIs
  <2>3. PICK g : g = MoveTail(heap, l, m)
    OBVIOUS
  <2>4. /\ Shape(g, Joining(f, l, m))
        /\ \A k \in List : heap.next[k] # Null => g.next[k] # Null
    BY <1>2, <2>1, <2>2, <2>3, MoveShape
  <2>5. PICK f2 : f2 = Joining(f, l, m)
    OBVIOUS
  <2>6. \A k \in List : k # l /\ k # m => f2[k] = f[k]
    BY <1>1, <2>5 DEF Joining
  <2>7. \A k \in SizedList : k \in List /\ k # l /\ k # m
    BY <1>10, SListAssumption DEF List
  <2>8. SizesFit(z, f2)
    BY <1>4, <2>6, <2>7 DEF Good, SizesFit
  <2>9. \A k \in RawList : g.next[k] # Null
    BY <2>4 DEF List, Good
  <2>10. Good(g, z, f2)
    BY <2>4, <2>5, <2>8, <2>9 DEF Good
  <2>11. Hung(f, f2)
    BY <1>1, <2>1, <2>5 DEF Hung
  <2>12. heap' = g /\ size' = z
    BY <1>4, <1>10, <2>3 DEF Raw
  <2> QED BY <2>10, <2>11, <2>12 DEF Ends, Step
<1>11. ASSUME NEW old \in In(l), NEW new \in Elem, ~Active(new),
              Raw(LinkReplace(heap, old, new))
       PROVE  Ends(heap', size', f)
  <2>1. Alone(f, new)
    BY <1>11, InactiveIs
  <2>2. PICK i \in 1 .. Len(s) : old = s[i]
    BY <1>2
  <2>3. PICK g : /\ g = LinkReplace(heap, old, new)
                 /\ Becomes(heap, f, l, Store!ReplaceAt(s, i, new), g)
    BY <1>2, <2>1, <2>2, ReplaceBecomes
  <2>4. PICK t : t = Store!ReplaceAt(s, i, new) /\ Becomes(h, f, l, t, g)
    BY <1>4, <2>3
  <2>5. Replaced(f, With(f, l, t))
    BY <1>1, <1>2, <2>1, <2>4 DEF Replaced
  <2> QED BY <1>5, <1>11, <2>3, <2>4, <2>5 DEF Step
<1> QED BY <1>6, <1>8, <1>9, <1>10, <1>11 DEF RawOp
-----------------------------------------------------------------------------
\* The inductive invariant: the links make the lists they seem to make
SInv == Good(heap, size, Lists(heap))

\* The program starts with empty lists, all of them open.
LEMMA InitLists ==
  ASSUME Init
  PROVE  Good(heap, size, [l \in List |-> <<>>])
<1>1. PICK f : f = [l \in List |-> <<>>]
  OBVIOUS
<1>2. /\ f = [l \in List |-> f[l]] /\ \A l \in List : f[l] = <<>>
  BY <1>1
<1>3. \A l \in List : \A x : ~Occurs(f[l], x)
  BY <1>2, NothingOccurs
<1>4. PICK h : h = heap
  OBVIOUS
<1>5. /\ h = [next |-> h.next, prev |-> h.prev]
      /\ h.next = [n \in Node |-> IF n \in Elem THEN Null ELSE n]
      /\ h.prev = [n \in Node |-> IF n \in Elem THEN Null ELSE n]
  BY <1>4 DEF Init
<1>6. HeapType(h)
  BY <1>5 DEF HeapType
<1>7. \A l \in List : h.next[l] = l /\ h.prev[l] = l
  BY <1>5, Kinds
<1>8. \A l \in List : Line(h, l, f[l])
  BY <1>2, <1>7, EmptyRing DEF Line
<1>9. \A x \in Elem : Unlinked(h, x)
  BY <1>5, Kinds DEF Unlinked
<1>10. Apart(f)
  BY <1>3 DEF Apart
<1>11. Shape(h, f)
  BY <1>2, <1>6, <1>8, <1>9, <1>10 DEF Shape
<1>12. PICK z : z = size /\ z = [l \in SizedList |-> 0]
  BY DEF Init
<1>13. SizesFit(z, f)
  <2>1. \A l \in SizedList : l \in List
    BY DEF List
  <2>2. z = [l \in SizedList |-> z[l]] /\ \A l \in SizedList : z[l] = 0
    BY <1>12
  <2>3. Len(<<>>) = 0
    OBVIOUS
  <2>4. \A l \in SizedList : z[l] = Len(f[l])
    BY <1>2, <2>1, <2>2, <2>3
  <2> QED BY <2>2, <2>4 DEF SizesFit
<1>14. \A l \in RawList : h.next[l] # Null
  BY <1>7, Kinds DEF List
<1> QED BY <1>1, <1>4, <1>11, <1>12, <1>13, <1>14 DEF Good

\* So does whatever the program does next.
LEMMA NextEnds ==
  ASSUME NEW f, Good(heap, size, f), Next
  PROVE  Ends(heap', size', f)
<1>1. ASSUME NEW l \in SizedList, Active(l), NEW e \in Elem, InsertOp(l, e) \/ RemoveOp(l, e)
      PROVE  Ends(heap', size', f)
  BY <1>1, InsertEnds, RemoveEnds
<1>2. ASSUME NEW l \in SizedList, Active(l), NEW up, SortOp(l, up) PROVE Ends(heap', size', f)
  BY <1>2, SortEnds
<1>3. ASSUME NEW l \in SizedList, Active(l), DestroyOp(l) PROVE Ends(heap', size', f)
  BY <1>3, DestroyEnds
<1>4. ASSUME NEW l \in SizedList, InitOp(l) PROVE Ends(heap', size', f)
  BY <1>4, InitEnds
<1>5. ASSUME NEW l \in RawList, RawOp(l) PROVE Ends(heap', size', f)
  BY <1>5, RawEnds
<1> QED BY <1>1, <1>2, <1>3, <1>4, <1>5 DEF Next, Open

\* Lists that are what they seem to be
LEMMA GoodLists ==
  ASSUME NEW h, NEW z, NEW f, Good(h, z, f)
  PROVE  Lists(h) = f
BY ListsAre DEF Good

\* SInv is inductive, and every step of the heap is one of the abstract lists.
LEMMA NextKeeps ==
  ASSUME SInv, [Next]_vars
  PROVE  SInv' /\ Step(Lists(heap), Lists(heap'))
<1>1. PICK f : f = Lists(heap) /\ Good(heap, size, f)
  BY DEF SInv
<1>2. Ends(heap', size', f)
  <2>1. CASE Next
    BY <1>1, <2>1, NextEnds
  <2>2. CASE UNCHANGED vars
    <3>1. heap' = heap /\ size' = size
      BY <2>2 DEF vars
    <3> QED BY <1>1, <3>1 DEF Ends, Step
  <2> QED BY <2>1, <2>2
<1>3. PICK f2 : Good(heap', size', f2) /\ Step(f, f2)
  BY <1>2 DEF Ends
<1>4. PICK h, z : h = heap' /\ z = size'
  OBVIOUS
<1>5. Lists(heap') = f2
  BY <1>3, <1>4, GoodLists
<1> QED BY <1>1, <1>3, <1>5 DEF SInv

\* The heap always makes the lists it seems to make.
LEMMA Invariance == Spec => []SInv
<1>1. Init => SInv
  <2> SUFFICES ASSUME Init PROVE SInv
    OBVIOUS
  <2>1. PICK f, h, z : h = heap /\ z = size /\ Good(h, z, f) /\ Good(heap, size, f)
    BY InitLists
  <2>2. Lists(heap) = f
    BY <2>1, GoodLists
  <2> QED BY <2>1, <2>2 DEF SInv
<1>2. SInv /\ [Next]_vars => SInv'
  BY NextKeeps
<1> QED BY <1>1, <1>2, PTL DEF Spec
-----------------------------------------------------------------------------
\* A node is the next of its previous and the previous of its next, or has no
\* links.
LEMMA LinkedIs ==
  ASSUME NEW h, NEW f, Shape(h, f), NEW n \in Node
  PROVE  \/ /\ h.next[n] \in Node /\ h.prev[n] \in Node
            /\ h.prev[h.next[n]] = n /\ h.next[h.prev[n]] = n
         \/ h.next[n] = Null /\ h.prev[n] = Null
<1>1. ASSUME NEW l \in List, NEW s, Ring(h, l, s), NEW k \in 1 .. Len(s) + 1, n = At(l, s, k)
      PROVE  /\ h.next[n] \in Node /\ h.prev[n] \in Node
             /\ h.prev[h.next[n]] = n /\ h.next[h.prev[n]] = n
  <2>1. /\ s \in Seq(Elem) /\ Len(s) \in Nat /\ k - 1 \in 0 .. Len(s) /\ (k - 1) + 1 = k
        /\ 0 \in 0 .. Len(s) /\ 0 + 1 = 1
    BY <1>1 DEF Ring
  <2>2. \A j : At(l, s, j) \in Node
    <3>1. \A j \in 1 .. Len(s) : s[j] \in Elem
      BY <2>1
    <3> QED BY <3>1, Kinds DEF At
  <2>3. h.next[At(l, s, k - 1)] = n /\ h.prev[n] = At(l, s, k - 1)
    BY <1>1, <2>1 DEF Ring
  <2>4. PICK j \in 0 .. Len(s) : n = At(l, s, j)
    <3>1. CASE k \in 1 .. Len(s)
      <4>1. k \in 0 .. Len(s)
        BY <2>1, <3>1
      <4> QED BY <1>1, <4>1
    <3>2. CASE k \notin 1 .. Len(s)
      <4>1. 0 \notin 1 .. Len(s)
        BY <2>1
      <4>2. At(l, s, 0) = At(l, s, k)
        BY <3>2, <4>1 DEF At
      <4> QED BY <1>1, <2>1, <4>2
    <3> QED BY <3>1, <3>2
  <2>5. h.next[n] = At(l, s, j + 1) /\ h.prev[At(l, s, j + 1)] = n
    BY <1>1, <2>4 DEF Ring
  <2> QED BY <2>2, <2>3, <2>5
<1>2. CASE n \in List
  <2>1. CASE Ring(h, n, f[n])
    <3>1. /\ Len(f[n]) \in Nat
      BY <2>1 DEF Ring
    <3>2. Len(f[n]) + 1 \in 1 .. Len(f[n]) + 1 /\ Len(f[n]) + 1 \notin 1 .. Len(f[n])
      BY <3>1
    <3>3. n = At(n, f[n], Len(f[n]) + 1)
      BY <3>2 DEF At
    <3> QED BY <1>1, <1>2, <2>1, <3>2, <3>3
  <2> QED BY <1>2, <2>1 DEF Shape, Line
<1>3. CASE n \in Elem /\ Alone(f, n)
  BY <1>3 DEF Shape, Unlinked
<1>4. CASE n \in Elem /\ ~Alone(f, n)
  <2>1. PICK l, k : l \in List /\ k \in 1 .. Len(f[l]) /\ f[l][k] = n
    BY <1>4 DEF Alone, Occurs
  <2>2. Line(h, l, f[l])
    BY <2>1 DEF Shape
  <2>3. f[l] # <<>>
    <3>1. 1 .. Len(<<>>) = {}
      OBVIOUS
    <3> QED BY <2>1, <3>1
  <2>4. Ring(h, l, f[l])
    BY <2>2, <2>3 DEF Line
  <2>5. k \in 1 .. Len(f[l]) + 1
    BY <2>1, <2>4 DEF Ring
  <2>6. n = At(l, f[l], k)
    BY <2>1 DEF At
  <2> QED BY <1>1, <2>1, <2>4, <2>5, <2>6
<1> QED BY <1>2, <1>3, <1>4 DEF Node

\* The links of the lists agree with each other and with the sizes, whatever
\* operations slist.c and list_sol.c made before, on any number of lists.
THEOREM ListsAreWellFormed == Spec => []WellFormed
<1>1. SInv => WellFormed
  <2> SUFFICES ASSUME SInv PROVE WellFormed
    OBVIOUS
  <2>1. PICK f : f = Lists(heap) /\ Good(heap, size, f)
    BY DEF SInv
  <2>2. Shape(heap, f) /\ SizesFit(size, f) /\ HeapType(heap)
    BY <2>1 DEF Good, Shape
  <2>3. \A l \in SizedList : l \in List /\ Len(f[l]) \in Nat
    BY <2>2, LineType DEF Shape, List
  <2>4. size \in [SizedList -> Nat]
    BY <2>2, <2>3 DEF SizesFit
  <2>5. heap \in [next : [Node -> Node \cup {Null}], prev : [Node -> Node \cup {Null}]]
    BY <2>2 DEF HeapType
  <2>6. Linked
    BY <2>2, LinkedIs DEF Linked
  <2>7. SizeIsLength
    BY <2>1, <2>2, <2>3 DEF SizeIsLength, SizesFit, Lists
  <2> QED BY <2>4, <2>5, <2>6, <2>7 DEF WellFormed, TypeOK
<1> QED BY <1>1, Invariance, PTL
-----------------------------------------------------------------------------
\* The elements of a list are those that occur in it.
LEMMA RangeIs ==
  ASSUME NEW s \in Seq(Elem)
  PROVE  Store!Range(s) = {s[k] : k \in 1 .. Len(s)}
<1>1. DOMAIN s = 1 .. Len(s)
  OBVIOUS
<1> QED BY <1>1 DEF Store!Range

\* An element that is in no list is outside of the abstract lists.
LEMMA OutsideIs ==
  ASSUME NEW f, f = Lists(heap), \A l \in List : f[l] \in Seq(Elem), NEW e \in Elem, Alone(f, e)
  PROVE  e \in Store!Outside
<1>1. \A l \in List : Store!Elems(l) = Store!Range(f[l])
  BY DEF Store!Elems, Lists
<1>2. \A l \in List : e \notin Store!Elems(l)
  BY <1>1, RangeIs DEF Alone, Occurs
<1> QED BY <1>2 DEF Store!Outside

\* The abstract steps are those of SeqStore.
LEMMA StepIsStore ==
  ASSUME NEW f, f = Lists(heap), NEW f2, f2 = Lists(heap'),
         \A l \in List : f[l] \in Seq(Elem) /\ f2[l] \in Seq(Elem), Step(f, f2)
  PROVE  f2 = f \/ Store!Next
<1>1. /\ f = [l \in List |-> Contents(heap, l)] /\ f2 = [l \in List |-> Contents(heap', l)]
  BY DEF Lists
<1>2. CASE PutIn(f, f2)
  <2>1. PICK l \in List, e \in Elem : \E i \in 1 .. Len(f[l]) + 1 :
            Alone(f, e) /\ f2 = With(f, l, Store!InsertAt(f[l], i, e))
    BY <1>2 DEF PutIn
  <2>2. PICK i \in 1 .. Len(f[l]) + 1 : f2 = With(f, l, Store!InsertAt(f[l], i, e))
    BY <2>1
  <2>3. f2 = [f EXCEPT ![l] = Store!InsertAt(@, i, e)]
    BY <2>2 DEF With
  <2>4. e \in Store!Outside
    BY <2>1, OutsideIs
  <2>5. Store!Insert(l, i, e)
    BY <1>1, <2>3, <2>4 DEF Store!Insert
  <2>6. i \in 1 .. Len([m \in List |-> Contents(heap, m)][l]) + 1
    BY <1>1
  <2> QED BY <2>5, <2>6 DEF Store!Next
<1>3. CASE TookOut(f, f2)
  <2>1. PICK l \in List : \E i \in 1 .. Len(f[l]) : f2 = With(f, l, Store!RemoveAt(f[l], i))
    BY <1>3 DEF TookOut
  <2>2. PICK i \in 1 .. Len(f[l]) : f2 = With(f, l, Store!RemoveAt(f[l], i))
    BY <2>1
  <2>3. f2 = [f EXCEPT ![l] = Store!RemoveAt(@, i)]
    BY <2>2 DEF With
  <2>4. Store!Delete(l, i)
    BY <1>1, <2>3 DEF Store!Delete
  <2>5. f[l][i] \in Elem
    BY <2>2
  <2>6. i \in 1 .. Len([m \in List |-> Contents(heap, m)][l])
    BY <1>1
  <2> QED BY <2>4, <2>5, <2>6 DEF Store!Next
<1>4. CASE Replaced(f, f2)
  <2>1. PICK l \in List, e \in Elem : \E i \in 1 .. Len(f[l]) :
            Alone(f, e) /\ f2 = With(f, l, Store!ReplaceAt(f[l], i, e))
    BY <1>4 DEF Replaced
  <2>2. PICK i \in 1 .. Len(f[l]) : f2 = With(f, l, Store!ReplaceAt(f[l], i, e))
    BY <2>1
  <2>3. f2 = [f EXCEPT ![l] = Store!ReplaceAt(@, i, e)]
    BY <2>2 DEF With
  <2>4. e \in Store!Outside
    BY <2>1, OutsideIs
  <2>5. Store!Substitute(l, i, e)
    BY <1>1, <2>3, <2>4 DEF Store!Substitute
  <2>6. i \in 1 .. Len([m \in List |-> Contents(heap, m)][l])
    BY <1>1
  <2> QED BY <2>5, <2>6 DEF Store!Next
<1>5. CASE PutInOrder(f, f2)
  <2>1. PICK l \in List : \E t : t \in Seq(Elem) /\ SameElems(f[l], t) /\ f2 = With(f, l, t)
    BY <1>5 DEF PutInOrder
  <2>2. PICK t : t \in Seq(Elem) /\ SameElems(f[l], t) /\ f2 = With(f, l, t)
    BY <2>1
  <2>3. f2[l] = t
    BY <1>1, <2>2 DEF With
  <2>4. f2 = [f EXCEPT ![l] = f2[l]]
    BY <2>2, <2>3 DEF With
  <2>5. Store!Range(t) = Store!Range(f[l])
    <3>1. /\ Store!Range(t) = {t[k] : k \in 1 .. Len(t)}
          /\ Store!Range(f[l]) = {f[l][k] : k \in 1 .. Len(f[l])}
      BY <2>2, RangeIs
    <3>2. \A x : Occurs(t, x) <=> Occurs(f[l], x)
      BY <2>2 DEF SameElems
    <3>3. \A x : x \in Store!Range(t) <=> x \in Store!Range(f[l])
      BY <3>1, <3>2 DEF Occurs
    <3> QED BY <3>3
  <2>6. Len(f2[l]) = Len(f[l]) /\ Store!Range(f2[l]) = Store!Elems(l)
    <3>1. Store!Elems(l) = Store!Range(f[l])
      BY <1>1 DEF Store!Elems
    <3> QED BY <2>2, <2>3, <2>5, <3>1 DEF SameElems
  <2>7. Store!Reorder(l)
    BY <1>1, <2>4, <2>6 DEF Store!Reorder
  <2> QED BY <2>7 DEF Store!Next
<1>6. CASE Hung(f, f2)
  <2>1. PICK l \in List, m \in List : l # m /\ f2 = Joining(f, l, m)
    BY <1>6 DEF Hung
  <2>2. f2 = [f EXCEPT ![l] = @ \o f[m], ![m] = <<>>]
    BY <2>1 DEF Joining
  <2>3. Store!Append2(l, m)
    BY <1>1, <2>1, <2>2 DEF Store!Append2
  <2> QED BY <2>3 DEF Store!Next
<1> QED BY <1>2, <1>3, <1>4, <1>5, <1>6 DEF Step

\* The lists of SInv are sequences of elements.
LEMMA ListsType ==
  ASSUME NEW h, NEW z, NEW f, Good(h, z, f)
  PROVE  \A l \in List : f[l] \in Seq(Elem)
BY LineType DEF Good, Shape

\* The pointer operations do to the lists what they say: each step of the heap
\* is one of the abstract lists, or leaves them alone.
THEOREM SListRefinement == Spec => Refines
<1>1. Init => Store!Init
  <2> SUFFICES ASSUME Init PROVE Store!Init
    OBVIOUS
  <2>1. PICK f, h, z : f = [l \in List |-> <<>>] /\ h = heap /\ z = size /\ Good(h, z, f)
    BY InitLists
  <2>2. Lists(heap) = f
    BY <2>1, GoodLists
  <2> QED BY <2>1, <2>2 DEF Store!Init, Lists
<1>2. SInv /\ SInv' /\ [Next]_vars => [Store!Next]_([l \in List |-> Contents(heap, l)])
  <2> SUFFICES ASSUME SInv, SInv', [Next]_vars
               PROVE  Store!Next \/ Lists(heap') = Lists(heap)
    BY DEF Lists
  <2>1. PICK f, h, z : f = Lists(heap) /\ h = heap /\ z = size /\ Good(h, z, f)
    BY DEF SInv
  <2>2. PICK f2, h2, z2 : f2 = Lists(heap') /\ h2 = heap' /\ z2 = size' /\ Good(h2, z2, f2)
    BY DEF SInv
  <2>3. \A l \in List : f[l] \in Seq(Elem) /\ f2[l] \in Seq(Elem)
    BY <2>1, <2>2, ListsType
  <2>4. Step(f, f2)
    BY <2>1, <2>2, NextKeeps
  <2>5. f2 = f \/ Store!Next
    BY <2>1, <2>2, <2>3, <2>4, StepIsStore
  <2> QED BY <2>1, <2>2, <2>5
<1> QED BY <1>1, <1>2, Invariance, PTL DEF Spec, Refines, Store!Spec
-----------------------------------------------------------------------------
\* An ordered list is ordered from any element to any later one.
LEMMA OrderedPairs ==
  ASSUME NEW s \in Seq(Elem), NEW up, IsOrdered(s, up), NEW a \in 1 .. Len(s), NEW b \in a .. Len(s)
  PROVE  Compare(s[a], s[b], up) <= 0
<1> DEFINE S == {n \in Nat : a + n <= Len(s) => Rank(s[a], up) <= Rank(s[a + n], up)}
<1>1. /\ \A k \in 1 .. Len(s) : s[k] \in Elem /\ Rank(s[k], up) \in Int
      /\ Len(s) \in Nat
  <2>1. Len(s) \in Nat /\ \A k \in 1 .. Len(s) : s[k] \in Elem
    OBVIOUS
  <2>2. \A o \in Elem : Rank(o, up) \in Int
    BY CompareIs
  <2> QED BY <2>1, <2>2
<1>2. 0 \in S
  <2>1. a + 0 = a
    OBVIOUS
  <2> QED BY <1>1, <2>1
<1>3. ASSUME NEW n \in Nat, n \in S PROVE n + 1 \in S
  <2>1. SUFFICES ASSUME a + (n + 1) <= Len(s)
                 PROVE  Rank(s[a], up) <= Rank(s[a + (n + 1)], up)
    OBVIOUS
  <2>2. a + n <= Len(s) /\ Rank(s[a], up) <= Rank(s[a + n], up)
    BY <1>1, <1>3, <2>1
  <2>3. /\ a + n \in 1 .. Len(s) - 1 /\ a + n \in 1 .. Len(s) /\ (a + n) + 1 \in 1 .. Len(s)
        /\ (a + n) + 1 = a + (n + 1)
    BY <1>1, <2>1
  <2>4. Compare(s[a + n], s[(a + n) + 1], up) <= 0
    BY <2>3 DEF IsOrdered
  <2>5. Compare(s[a + n], s[(a + n) + 1], up) = Rank(s[a + n], up) - Rank(s[(a + n) + 1], up)
    BY <1>1, <2>3, CompareIs
  <2> QED BY <1>1, <2>2, <2>3, <2>4, <2>5
<1>4. \A n \in Nat : n \in S
  <2> HIDE DEF S
  <2> QED BY <1>2, <1>3, NatSet
<1>5. b - a \in Nat /\ a + (b - a) = b /\ b <= Len(s) /\ b \in 1 .. Len(s)
  BY <1>1
<1>6. b - a \in S
  <2> HIDE DEF S
  <2> QED BY <1>4, <1>5
<1>7. Rank(s[a], up) <= Rank(s[b], up)
  BY <1>5, <1>6
<1>8. Compare(s[a], s[b], up) = Rank(s[a], up) - Rank(s[b], up)
  BY <1>1, <1>5, CompareIs
<1> QED BY <1>1, <1>5, <1>7, <1>8

\* An element put before the larger ones and behind the smaller ones keeps the
\* order.
LEMMA InsertedOrder ==
  ASSUME NEW s \in Seq(Elem), NEW up, IsOrdered(s, up), NEW e \in Elem,
         NEW i \in 1 .. Len(s) + 1, NEW t, Inserted(s, i, e, t),
         \A k \in 1 .. i - 1 : Compare(s[k], e, up) <= 0,
         i <= Len(s) => Compare(s[i], e, up) >= 0
  PROVE  IsOrdered(t, up)
<1>1. /\ \A k \in 1 .. Len(s) : s[k] \in Elem /\ Rank(s[k], up) \in Int
      /\ Len(s) \in Nat /\ Len(t) = Len(s) + 1 /\ Rank(e, up) \in Int
  BY CompareIs DEF Inserted
<1> SUFFICES ASSUME NEW k \in 1 .. Len(t) - 1 PROVE Compare(t[k], t[k + 1], up) <= 0
  BY DEF IsOrdered
<1>2. k \in 1 .. Len(t) /\ k + 1 \in 1 .. Len(t)
  BY <1>1
<1>3. /\ t[k] = (IF k < i THEN s[k] ELSE IF k = i THEN e ELSE s[k - 1])
      /\ t[k + 1] = (IF k + 1 < i THEN s[k + 1] ELSE IF k + 1 = i THEN e ELSE s[(k + 1) - 1])
  BY <1>2 DEF Inserted
<1>4. CASE k + 1 < i
  <2>1. k \in 1 .. Len(s) - 1
    BY <1>1, <1>4
  <2> QED BY <1>1, <1>3, <1>4, <2>1 DEF IsOrdered
<1>5. CASE k + 1 = i
  <2>1. k \in 1 .. i - 1 /\ k < i
    BY <1>5
  <2> QED BY <1>3, <1>5, <2>1
<1>6. CASE k = i
  <2>1. k <= Len(s) /\ k \in 1 .. Len(s) /\ (k + 1) - 1 = k /\ ~(k + 1 < i) /\ k + 1 # i /\ ~(k < i)
    BY <1>1, <1>6
  <2>2. Compare(s[i], e, up) >= 0 /\ t[k] = e /\ t[k + 1] = s[i]
    BY <1>3, <1>6, <2>1
  <2>3. /\ Compare(s[i], e, up) = Rank(s[i], up) - Rank(e, up)
        /\ Compare(e, s[i], up) = Rank(e, up) - Rank(s[i], up)
    BY <1>1, <1>6, <2>1, CompareIs
  <2> QED BY <1>1, <1>6, <2>1, <2>2, <2>3
<1>7. CASE k > i
  <2>1. /\ k - 1 \in 1 .. Len(s) - 1 /\ (k + 1) - 1 = (k - 1) + 1
        /\ ~(k + 1 < i) /\ k + 1 # i /\ ~(k < i) /\ k # i
    BY <1>1, <1>7
  <2>2. t[k] = s[k - 1] /\ t[k + 1] = s[(k - 1) + 1]
    BY <1>3, <2>1
  <2> QED BY <2>1, <2>2 DEF IsOrdered
<1> QED BY <1>1, <1>4, <1>5, <1>6, <1>7

\* Where the elements of s are once e is among them
LEMMA InsertedBefore ==
  ASSUME NEW s \in Seq(Elem), NEW e \in Elem, NEW i \in 1 .. Len(s) + 1,
         NEW t, Inserted(s, i, e, t), NEW k \in 1 .. Len(s)
  PROVE  /\ k < i => Before(t, s[k], e)
         /\ k >= i => Before(t, e, s[k])
<1>1. /\ Len(s) \in Nat /\ Len(t) = Len(s) + 1 /\ t \in Seq(Elem)
      /\ k \in 1 .. Len(t) /\ k + 1 \in 1 .. Len(t) /\ i \in 1 .. Len(t)
  BY DEF Inserted
<1>2. DOMAIN t = 1 .. Len(t)
  BY <1>1
<1>3. t[i] = e
  BY <1>1 DEF Inserted
<1>4. CASE k < i
  <2>1. t[k] = s[k]
    BY <1>1, <1>4 DEF Inserted
  <2>2. ~(k >= i)
    BY <1>4
  <2>3. Before(t, s[k], e)
    BY <1>1, <1>2, <1>3, <1>4, <2>1 DEF Before
  <2> QED BY <2>2, <2>3
<1>5. CASE ~(k < i)
  <2>1. ~(k + 1 < i) /\ k + 1 # i /\ (k + 1) - 1 = k /\ i < k + 1
    BY <1>5
  <2>2. t[k + 1] = s[k]
    <3>1. t[k + 1] = IF k + 1 < i THEN s[k + 1] ELSE IF k + 1 = i THEN e ELSE s[(k + 1) - 1]
      BY <1>1 DEF Inserted
    <3> QED BY <2>1, <3>1
  <2>3. Before(t, e, s[k])
    BY <1>1, <1>2, <1>3, <2>1, <2>2 DEF Before
  <2> QED BY <1>5, <2>3
<1> QED BY <1>4, <1>5
-----------------------------------------------------------------------------
\* A sorted insertion before the first element of a list that Stop has, when Stop
\* has all the larger ones and none of the smaller
LEMMA PutsInOrder ==
  ASSUME NEW h, NEW f, NEW l, NEW s, Holds(h, f, l, s), NEW e \in Elem, NEW up,
         IsOrdered(s, up), NEW S, NEW i, NEW o, FirstAt(s, S, i, o),
         \A x \in Elem : x \notin S => Compare(x, e, up) <= 0,
         \A x \in Elem : x \in S => Compare(x, e, up) >= 0,
         NEW g, Puts(h, f, l, s, i, e, g)
  PROVE  \E t : Contents(g, l) = t /\ IsOrdered(t, up) /\ Inserted(s, i, e, t)
<1>1. /\ s \in Seq(Elem) /\ Len(s) \in Nat /\ l \in List /\ f = [k \in List |-> f[k]]
      /\ i \in 1 .. Len(s) + 1
  BY DEF Holds, Ring, Shape, FirstAt
<1>2. \A k \in 1 .. Len(s) : s[k] \in Elem
  BY <1>1
<1>3. PICK t : t = Store!InsertAt(s, i, e) /\ Inserted(s, i, e, t)
  BY <1>1, InsertAtIs
<1>4. Shape(g, With(f, l, t)) /\ With(f, l, t)[l] = t
  BY <1>1, <1>3, WithIs DEF Puts, Becomes
<1>5. Contents(g, l) = t
  BY <1>1, <1>4, ContentsIs
<1>6. \A k \in 1 .. i - 1 : Compare(s[k], e, up) <= 0
  <2> SUFFICES ASSUME NEW k \in 1 .. i - 1 PROVE Compare(s[k], e, up) <= 0
    OBVIOUS
  <2>1. k \in 1 .. Len(s) /\ s[k] \notin S
    BY <1>1 DEF FirstAt
  <2> QED BY <1>2, <2>1
<1>7. i <= Len(s) => Compare(s[i], e, up) >= 0
  <2> SUFFICES ASSUME i <= Len(s) PROVE Compare(s[i], e, up) >= 0
    OBVIOUS
  <2>1. i \in 1 .. Len(s) /\ s[i] \in S
    BY <1>1 DEF FirstAt
  <2> QED BY <1>2, <2>1
<1>8. IsOrdered(t, up)
  BY <1>1, <1>3, <1>6, <1>7, InsertedOrder
<1> QED BY <1>3, <1>5, <1>8

\* How equal elements compare with any other
LEMMA EqualCompares ==
  ASSUME NEW up, NEW a \in Elem, NEW b \in Elem, Key[a] = Key[b]
  PROVE  Compare(a, b, up) = 0 /\ \A x \in Elem : Compare(x, a, up) = Compare(x, b, up)
<1>1. Rank(a, up) = Rank(b, up) /\ Rank(a, up) \in Int
  BY CompareIs
<1> QED BY <1>1, CompareIs

\* The sorted insertion behind the elements equal to e
LEMMA SortedInsertInOrder ==
  ASSUME NEW h, NEW f, NEW l, NEW s, Holds(h, f, l, s), NEW e \in Elem, Alone(f, e), NEW up,
         IsOrdered(s, up)
  PROVE  \E t : /\ Contents(SortedInsert(h, l, e, up), l) = t /\ IsOrdered(t, up)
                /\ \A k \in 1 .. Len(s) : Key[s[k]] = Key[e] => Before(t, s[k], e)
<1>1. PICK S : S = {x \in Elem : Compare(x, e, up) > 0}
  OBVIOUS
<1>2. PICK i, o, g : /\ g = SortedInsert(h, l, e, up) /\ FirstAt(s, S, i, o)
                     /\ Puts(h, f, l, s, i, e, g)
  BY <1>1, SortedPuts
<1>3. \A x \in Elem : Compare(x, e, up) \in Int
  <2>1. \A x \in Elem : Compare(x, e, up) = Rank(x, up) - Rank(e, up) /\ Rank(x, up) \in Int
    BY CompareIs
  <2> QED BY <2>1
<1>4. /\ \A x \in Elem : x \notin S => Compare(x, e, up) <= 0
      /\ \A x \in Elem : x \in S => Compare(x, e, up) >= 0
  BY <1>1, <1>3
<1>5. PICK t : Contents(g, l) = t /\ IsOrdered(t, up) /\ Inserted(s, i, e, t)
  BY <1>2, <1>4, PutsInOrder
<1>6. s \in Seq(Elem) /\ Len(s) \in Nat /\ i \in 1 .. Len(s) + 1
  BY <1>2 DEF Holds, Ring, FirstAt
<1>7. ASSUME NEW k \in 1 .. Len(s), Key[s[k]] = Key[e] PROVE Before(t, s[k], e)
  <2>1. s[k] \in Elem
    BY <1>6
  <2>2. k < i
    <3> SUFFICES ASSUME ~(k < i) PROVE FALSE
      OBVIOUS
    <3>1. i \in 1 .. Len(s) /\ i <= Len(s) /\ k \in i .. Len(s)
      BY <1>6
    <3>2. s[i] \in S /\ s[i] \in Elem
      BY <1>2, <1>6, <3>1 DEF FirstAt
    <3>3. Compare(s[i], s[k], up) <= 0
      BY <1>6, <3>1, OrderedPairs
    <3>4. Compare(s[i], s[k], up) = Compare(s[i], e, up)
      BY <1>7, <2>1, <3>2, EqualCompares
    <3> QED BY <1>1, <1>3, <3>2, <3>3, <3>4
  <2> QED BY <1>5, <1>6, <2>2, InsertedBefore
<1> QED BY <1>2, <1>5, <1>7

\* and the one before them
LEMMA SortedFrontInOrder ==
  ASSUME NEW h, NEW f, NEW l, NEW s, Holds(h, f, l, s), NEW e \in Elem, Alone(f, e), NEW up,
         IsOrdered(s, up)
  PROVE  \E t : /\ Contents(SortedInsertFront(h, l, e, up), l) = t /\ IsOrdered(t, up)
                /\ \A k \in 1 .. Len(s) : Key[s[k]] = Key[e] => Before(t, e, s[k])
<1>1. PICK S : S = {x \in Elem : Compare(x, e, up) >= 0}
  OBVIOUS
<1>2. PICK i, o, g : /\ g = SortedInsertFront(h, l, e, up) /\ FirstAt(s, S, i, o)
                     /\ Puts(h, f, l, s, i, e, g)
  BY <1>1, SortedFrontPuts
<1>3. \A x \in Elem : Compare(x, e, up) \in Int
  <2>1. \A x \in Elem : Compare(x, e, up) = Rank(x, up) - Rank(e, up) /\ Rank(x, up) \in Int
    BY CompareIs
  <2> QED BY <2>1
<1>4. /\ \A x \in Elem : x \notin S => Compare(x, e, up) <= 0
      /\ \A x \in Elem : x \in S => Compare(x, e, up) >= 0
  BY <1>1, <1>3
<1>5. PICK t : Contents(g, l) = t /\ IsOrdered(t, up) /\ Inserted(s, i, e, t)
  BY <1>2, <1>4, PutsInOrder
<1>6. s \in Seq(Elem) /\ Len(s) \in Nat /\ i \in 1 .. Len(s) + 1
  BY <1>2 DEF Holds, Ring, FirstAt
<1>7. ASSUME NEW k \in 1 .. Len(s), Key[s[k]] = Key[e] PROVE Before(t, e, s[k])
  <2>1. s[k] \in Elem
    BY <1>6
  <2>2. k >= i
    <3> SUFFICES ASSUME ~(k >= i) PROVE FALSE
      OBVIOUS
    <3>1. k \in 1 .. i - 1
      BY <1>6
    <3>2. s[k] \notin S
      BY <1>2, <3>1 DEF FirstAt
    <3>3. Compare(s[k], e, up) = 0
      BY <1>7, <2>1, EqualCompares
    <3> QED BY <1>1, <2>1, <3>2, <3>3
  <2> QED BY <1>5, <1>6, <2>2, InsertedBefore
<1> QED BY <1>2, <1>5, <1>7

\* A sorted insertion, whenever it is made
LEMMA InsertionInOrder ==
  ASSUME SInv, NEW l \in SizedList, NEW e \in Elem, NEW up
  PROVE  InsertedInOrder(l, e, up)
<1>1. PICK f : f = Lists(heap) /\ Good(heap, size, f)
  BY DEF SInv
<1>2. PICK s, h, g : s = Contents(heap, l) /\ s = f[l] /\ h = heap /\ g = heap'
  BY <1>1 DEF Lists, List
<1>3. SUFFICES ASSUME Active(l), ~Active(e), IsOrdered(s, up)
               PROVE  /\ heap' = SortedInsert(heap, l, e, up) =>
                            /\ IsOrdered(Contents(heap', l), up)
                            /\ \A o \in {x \in In(l) : Key[x] = Key[e]} :
                                    Before(Contents(heap', l), o, e)
                      /\ heap' = SortedInsertFront(heap, l, e, up) =>
                            /\ IsOrdered(Contents(heap', l), up)
                            /\ \A o \in {x \in In(l) : Key[x] = Key[e]} :
                                    Before(Contents(heap', l), e, o)
  BY <1>2 DEF InsertedInOrder
<1>4. l \in List /\ heap.next[l] # Null
  BY <1>3 DEF Active, List
<1>5. Holds(heap, f, l, s) /\ In(l) = {s[k] : k \in 1 .. Len(s)}
  BY <1>1, <1>2, <1>4, OpenIs
<1>6. Alone(f, e)
  BY <1>1, <1>3, InactiveIs
<1>7. ASSUME heap' = SortedInsert(heap, l, e, up)
      PROVE  /\ IsOrdered(Contents(heap', l), up)
             /\ \A o \in {x \in In(l) : Key[x] = Key[e]} : Before(Contents(heap', l), o, e)
  <2>1. PICK t : /\ Contents(SortedInsert(heap, l, e, up), l) = t /\ IsOrdered(t, up)
                 /\ \A k \in 1 .. Len(s) : Key[s[k]] = Key[e] => Before(t, s[k], e)
    BY <1>3, <1>5, <1>6, SortedInsertInOrder
  <2>2. Contents(heap', l) = t
    BY <1>7, <2>1
  <2> QED BY <1>5, <2>1, <2>2
<1>8. ASSUME heap' = SortedInsertFront(heap, l, e, up)
      PROVE  /\ IsOrdered(Contents(heap', l), up)
             /\ \A o \in {x \in In(l) : Key[x] = Key[e]} : Before(Contents(heap', l), e, o)
  <2>1. PICK t : /\ Contents(SortedInsertFront(heap, l, e, up), l) = t /\ IsOrdered(t, up)
                 /\ \A k \in 1 .. Len(s) : Key[s[k]] = Key[e] => Before(t, e, s[k])
    BY <1>3, <1>5, <1>6, SortedFrontInOrder
  <2>2. Contents(heap', l) = t
    BY <1>8, <2>1
  <2> QED BY <1>5, <2>1, <2>2
<1> QED BY <1>7, <1>8

\* A sort, whenever it is made
LEMMA SortInOrder ==
  ASSUME SInv, NEW l \in SizedList, NEW up
  PROVE  SortedInOrder(l, up)
<1>1. PICK f : f = Lists(heap) /\ Good(heap, size, f)
  BY DEF SInv
<1>2. PICK s : s = Contents(heap, l) /\ s = f[l] /\ l \in List
  BY <1>1 DEF Lists, List
<1>3. SUFFICES ASSUME Active(l), heap' = Sorted(heap, l, size[l], up)
               PROVE  /\ IsOrdered(Contents(heap', l), up)
                      /\ \A a, b \in Elem : Key[a] = Key[b] /\ Before(s, a, b)
                                              => Before(Contents(heap', l), a, b)
  BY <1>2 DEF SortedInOrder
<1>4. heap.next[l] # Null /\ size[l] = Len(s) /\ f = [k \in List |-> f[k]]
  BY <1>1, <1>2, <1>3 DEF Active, Good, SizesFit, Shape
<1>5. Holds(heap, f, l, s)
  BY <1>1, <1>2, <1>4, OpenIs
<1>6. PICK g, t : g = heap' /\ SortedTo(heap, f, l, s, up, g, t)
  BY <1>3, <1>4, <1>5, SortSorts
<1>7. Shape(g, With(f, l, t)) /\ With(f, l, t)[l] = t
  BY <1>2, <1>4, <1>6, WithIs DEF SortedTo, Holds
<1>8. Contents(g, l) = t
  BY <1>2, <1>7, ContentsIs
<1> QED BY <1>6, <1>8 DEF SortedTo, Stable

\* An order, once there, is never lost, and ties keep their order: sort_slist
\* sorts a list of any length, and is stable, and the sorted insertions put an
\* element where it belongs, behind or before those equal to it.
THEOREM ListOrder == Spec => OrderIsKept
<1>1. SInv => \A l \in SizedList, e \in Elem, up \in BOOLEAN : InsertedInOrder(l, e, up)
  BY InsertionInOrder
<1>2. SInv => \A l \in SizedList, up \in BOOLEAN : SortedInOrder(l, up)
  BY SortInOrder
<1> QED BY <1>1, <1>2, Invariance, PTL DEF OrderIsKept, InsertKeepsOrder, SortIsStable
=============================================================================

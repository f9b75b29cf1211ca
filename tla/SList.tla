------------------------------- MODULE SList -------------------------------
(***************************************************************************)
(* slist.c and the doubly linked list it is built on, list_sol.c.  A node  *)
(* is an element or the head of a list; an element that is in no list has  *)
(* links NULL.  The links are the pointers of the program, so an operation *)
(* is the assignments it makes to them.  schedsim only uses the operations *)
(* of slist.c, which also keep a size; those of list_sol.c that slist.c    *)
(* does not offer are used here on lists of their own, without a size.     *)
(*                                                                         *)
(* The callers keep what the assertions of list_sol.c, commented out, say: *)
(* an element is inserted when it is in no list and removed when it is in  *)
(* that one, and a list is empty when it is destroyed.                     *)
(*                                                                         *)
(* OneWay, SortedSkippingLess, LastSelected, SourceKept and                *)
(* RemoveUncounted are plausible mistakes; nothing uses them.              *)
(***************************************************************************)
EXTENDS Integers, Sequences, FiniteSets

CONSTANTS Elem, SizedList, RawList, Null,
          Key   \* what compare(a, b) looks at: Key[a] - Key[b]

List == SizedList \cup RawList
Node == Elem \cup List

ASSUME SListAssumption ==
    /\ IsFiniteSet(Elem) /\ Null \notin Node
    /\ Elem \cap List = {} /\ SizedList \cap RawList = {}
    /\ Key \in [Elem -> Int]

VARIABLES heap,   \* [next, prev]: the two links of every node
          size    \* slist->size

vars == <<heap, size>>
-----------------------------------------------------------------------------
\* list_sol_create, list_sol_destroy, list_sol_link_init
Link(h, n, to) ==
    [next |-> [h.next EXCEPT ![n] = to], prev |-> [h.prev EXCEPT ![n] = to]]

OneWay(h, n, e) ==
    [next |-> [h.next EXCEPT ![e] = h.next[n], ![n] = e],
     prev |-> [h.prev EXCEPT ![e] = n]]

\* list_sol_insert_after_node
AfterNode(h, n, e) ==
    [next |-> [h.next EXCEPT ![e] = h.next[n], ![n] = e],
     prev |-> [h.prev EXCEPT ![e] = n, ![h.next[n]] = e]]

\* list_sol_insert_before_node
BeforeNode(h, n, e) ==
    [next |-> [h.next EXCEPT ![e] = n, ![h.prev[n]] = e],
     prev |-> [h.prev EXCEPT ![e] = h.prev[n], ![n] = e]]

\* list_sol_insert_after and list_sol_insert_before: NULL is the end of the list.
InsertAfter(h, l, o, e)  == AfterNode(h, IF o = Null THEN l ELSE o, e)
InsertBefore(h, l, o, e) == BeforeNode(h, IF o = Null THEN l ELSE o, e)

\* list_sol_remove_node
RemoveNode(h, e) ==
    [next |-> [h.next EXCEPT ![h.prev[e]] = h.next[e], ![e] = Null],
     prev |-> [h.prev EXCEPT ![h.next[e]] = h.prev[e], ![e] = Null]]

\* list_sol_head, _tail, _next: the head of the list stands for its end.
ToObject(l, n) == IF n = l THEN Null ELSE n
HeadOf(h, l)    == ToObject(l, h.next[l])
TailOf(h, l)    == ToObject(l, h.prev[l])
NextOf(h, l, e) == ToObject(l, h.next[e])

\* The loops over a list: cur = next_slist(slist, cur) until it is NULL.
From(h, l, start) ==
    LET at[k \in 1 .. Cardinality(Elem) + 1] ==
            IF k = 1 THEN start
            ELSE IF at[k - 1] = Null THEN Null ELSE NextOf(h, l, at[k - 1])
        n == CHOOSE k \in DOMAIN at :
                 \/ at[k] = Null /\ \A j \in 1 .. k - 1 : at[j] # Null
                 \/ k = Cardinality(Elem) + 1 /\ \A j \in 1 .. k : at[j] # Null
    IN  [k \in 1 .. n - 1 |-> at[k]]

\* The first element of S the loop comes to, or NULL
FirstIn(s, S) ==
    IF \A k \in DOMAIN s : s[k] \notin S THEN Null
    ELSE s[CHOOSE k \in DOMAIN s : s[k] \in S /\ \A j \in 1 .. k - 1 : s[j] \notin S]

\* compare, turned round for a descending order
Compare(a, b, ascending) == IF ascending THEN Key[a] - Key[b] ELSE Key[b] - Key[a]

SortedSkippingLess(h, l, e, ascending) ==
    LET Stop == {o \in Elem : Compare(o, e, ascending) >= 0}
    IN  InsertBefore(h, l, FirstIn(From(h, l, HeadOf(h, l)), Stop), e)

\* sorted_insert_slist: behind the elements equal to it
SortedInsert(h, l, e, ascending) ==
    LET Stop == {o \in Elem : Compare(o, e, ascending) > 0}
    IN  InsertBefore(h, l, FirstIn(From(h, l, HeadOf(h, l)), Stop), e)

\* sorted_insert_slist_front: before the elements equal to it
SortedInsertFront(h, l, e, ascending) ==
    LET Stop == {o \in Elem : Compare(o, e, ascending) >= 0}
    IN  InsertBefore(h, l, FirstIn(From(h, l, HeadOf(h, l)), Stop), e)

LastSelected(s, ascending) ==
    LET Least(o) == \A k \in DOMAIN s : Compare(o, s[k], ascending) <= 0
    IN  s[CHOOSE k \in DOMAIN s : Least(s[k]) /\ \A j \in k + 1 .. Len(s) : ~Least(s[j])]

\* The search in sort_slist: the first of the least, from cur to the end
Selected(s, ascending) ==
    LET Least == {o \in Elem : \A k \in DOMAIN s : Compare(o, s[k], ascending) <= 0}
    IN  FirstIn(s, Least)

\* sort_slist: size - 1 times, the least of the rest goes behind the last one.
Sorted(h, l, n, ascending) ==
    LET f[i \in 0 .. n] ==
            IF i = 0 THEN [h |-> h, done |-> Null, cur |-> HeadOf(h, l)]
            ELSE IF f[i - 1].cur = Null THEN f[i - 1]
            ELSE LET g == f[i - 1]
                     e == Selected(From(g.h, l, g.cur), ascending)
                     k == InsertAfter(RemoveNode(g.h, e), l, g.done, e)
                 IN  [h |-> k, done |-> e, cur |-> NextOf(k, l, e)]
    IN  IF n <= 1 THEN h ELSE f[n - 1].h

SourceKept(h, dst, src) ==
    IF h.next[src] = src THEN h
    ELSE [next |-> [h.next EXCEPT ![h.prev[dst]] = h.next[src], ![h.prev[src]] = dst],
          prev |-> [h.prev EXCEPT ![h.next[src]] = h.prev[dst], ![dst] = h.prev[src]]]

\* list_sol_move_tail
MoveTail(h, dst, src) ==
    IF h.next[src] = src THEN h
    ELSE [next |-> [h.next EXCEPT ![h.prev[dst]] = h.next[src], ![h.prev[src]] = dst,
                                  ![src] = src],
          prev |-> [h.prev EXCEPT ![h.next[src]] = h.prev[dst], ![dst] = h.prev[src],
                                  ![src] = src]]

\* list_sol_link_replace
LinkReplace(h, old, new) ==
    [next |-> [h.next EXCEPT ![new] = h.next[old], ![h.prev[old]] = new, ![old] = Null],
     prev |-> [h.prev EXCEPT ![new] = h.prev[old], ![h.next[old]] = new, ![old] = Null]]
-----------------------------------------------------------------------------
\* list_sol_link_active
Active(n) == heap.next[n] # Null
Open(L)   == {l \in L : Active(l)}
In(l)     == LET s == From(heap, l, HeadOf(heap, l)) IN {s[k] : k \in DOMAIN s}

Init ==
    /\ heap = [next |-> [n \in Node |-> IF n \in Elem THEN Null ELSE n],
               prev |-> [n \in Node |-> IF n \in Elem THEN Null ELSE n]]
    /\ size = [l \in SizedList |-> 0]

\* An operation of slist.c on list l: the links, and how the size changes
Sized(l, h, change) == heap' = h /\ size' = [size EXCEPT ![l] = @ + change]

Raw(h) == heap' = h /\ size' = size

\* insert_slist, insert_slist_head, insert_after_slist, insert_before_slist and
\* the sorted insertions, of an element that is in no list
InsertOp(l, e) ==
    /\ ~Active(e)
    /\ \/ Sized(l, BeforeNode(heap, l, e), 1)
       \/ Sized(l, AfterNode(heap, l, e), 1)
       \/ \E o \in In(l) \cup {Null} : \/ Sized(l, InsertAfter(heap, l, o, e), 1)
                                     \/ Sized(l, InsertBefore(heap, l, o, e), 1)
       \/ \E up \in BOOLEAN : \/ Sized(l, SortedInsert(heap, l, e, up), 1)
                              \/ Sized(l, SortedInsertFront(heap, l, e, up), 1)

RemoveUncounted(l, e) == e \in In(l) /\ Sized(l, RemoveNode(heap, e), 0)

RemoveOp(l, e) == e \in In(l) /\ Sized(l, RemoveNode(heap, e), -1)

SortOp(l, up) == Sized(l, Sorted(heap, l, size[l], up), 0)

\* destroy_slist of an empty list
DestroyOp(l) ==
    /\ heap.next[l] = l
    /\ heap' = Link(heap, l, Null)
    /\ size' = [size EXCEPT ![l] = 0]

\* init_slist of a list that was destroyed
InitOp(l) ==
    /\ ~Active(l)
    /\ heap' = Link(heap, l, l)
    /\ size' = [size EXCEPT ![l] = 0]

\* list_sol_insert_tail, list_sol_remove_head, list_sol_remove_tail (nothing is
\* done to an empty list), list_sol_move_tail, list_sol_link_replace
RawOp(l) ==
    \/ \E e \in Elem : ~Active(e) /\ Raw(BeforeNode(heap, l, e))
    \/ HeadOf(heap, l) # Null /\ Raw(RemoveNode(heap, HeadOf(heap, l)))
    \/ TailOf(heap, l) # Null /\ Raw(RemoveNode(heap, TailOf(heap, l)))
    \/ \E m \in RawList \ {l} : Raw(MoveTail(heap, l, m))
    \/ \E old \in In(l), new \in Elem : ~Active(new) /\ Raw(LinkReplace(heap, old, new))

Next ==
    \/ \E l \in Open(SizedList) :
          \/ \E e \in Elem : InsertOp(l, e) \/ RemoveOp(l, e)
          \/ \E up \in BOOLEAN : SortOp(l, up)
          \/ DestroyOp(l)
    \/ \E l \in SizedList : InitOp(l)
    \/ \E l \in RawList : RawOp(l)

Spec == Init /\ [][Next]_vars
-----------------------------------------------------------------------------
(* Links lead from nodes to nodes, or nowhere. *)
TypeOK ==
    /\ heap \in [next : [Node -> Node \cup {Null}], prev : [Node -> Node \cup {Null}]]
    /\ size \in [SizedList -> Nat]

(* The two directions of the lists never disagree, at any point of any     *)
(* list, whatever sequence of operations came before: a node that is in a  *)
(* list is the next of its previous and the previous of its next, and one  *)
(* that is not has no link left (list_sol_link_active is exact).           *)
Linked == \A n \in Node :
    \/ /\ heap.next[n] \in Node /\ heap.prev[n] \in Node
       /\ heap.prev[heap.next[n]] = n
       /\ heap.next[heap.prev[n]] = n
    \/ heap.next[n] = Null /\ heap.prev[n] = Null

Contents(h, l) == IF h.next[l] = Null THEN <<>> ELSE From(h, l, HeadOf(h, l))

Store == INSTANCE SeqStore WITH seqs <- [l \in List |-> Contents(heap, l)]

\* The pointer operations do to the lists what they say: no element is lost, in
\* two lists, or anywhere else than it was put.
Refines == Store!Spec

\* sort_slist and schedsim rely on the size that slist.c counts: it is the
\* number of elements that the links lead to.
SizeIsLength == \A l \in SizedList : size[l] = Len(Contents(heap, l))

(* The lists as the program finds them: links that agree with each other   *)
(* and with the size.                                                      *)
WellFormed == TypeOK /\ Linked /\ SizeIsLength

IsOrdered(s, up) == \A i \in 1 .. Len(s) - 1 : Compare(s[i], s[i + 1], up) <= 0

\* One before the other, in a list
Before(s, a, b) == \E i, j \in DOMAIN s : i < j /\ s[i] = a /\ s[j] = b

\* A sorted insertion into an ordered list: before the elements that are larger,
\* behind those equal to it, or, at the front, before them
InsertedInOrder(l, e, up) ==
    LET s == Contents(heap, l)  t == Contents(heap', l)
        Equals == {o \in In(l) : Key[o] = Key[e]}
    IN  Active(l) /\ ~Active(e) /\ IsOrdered(s, up) =>
          /\ heap' = SortedInsert(heap, l, e, up) =>
                IsOrdered(t, up) /\ \A o \in Equals : Before(t, o, e)
          /\ heap' = SortedInsertFront(heap, l, e, up) =>
                IsOrdered(t, up) /\ \A o \in Equals : Before(t, e, o)

(* The sorted insertions keep an ordered list ordered.  Among equals, the  *)
(* one puts the element last, so that the events of schedsim which fire in *)
(* the same step fire in the order they were made, the other first.        *)
InsertKeepsOrder ==
    [][\A l \in SizedList, e \in Elem, up \in BOOLEAN : InsertedInOrder(l, e, up)]_vars

\* A sort of a list: ordered, with equal elements in the order they had
SortedInOrder(l, up) ==
    LET s == Contents(heap, l)  t == Contents(heap', l)
    IN  Active(l) /\ heap' = Sorted(heap, l, size[l], up) =>
          /\ IsOrdered(t, up)
          /\ \A a, b \in Elem : Key[a] = Key[b] /\ Before(s, a, b) => Before(t, a, b)

(* sort_slist orders the list and keeps equal elements in the order they   *)
(* had.                                                                    *)
SortIsStable == [][\A l \in SizedList, up \in BOOLEAN : SortedInOrder(l, up)]_vars

(* An order, once there, is never lost, and ties keep their order.         *)
OrderIsKept == InsertKeepsOrder /\ SortIsStable
=============================================================================

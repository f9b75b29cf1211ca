------------------------------ MODULE SeqStore ------------------------------
(***************************************************************************)
(* What a set of lists promises: each is a sequence, no element is twice   *)
(* in them, and one step puts an element in, takes one out, replaces one,  *)
(* reorders one list, or appends one list to another.                      *)
(***************************************************************************)
EXTENDS Sequences, SequencesExt

CONSTANTS Elem, List

VARIABLE seqs

Elems(l) == Range(seqs[l])
Outside  == Elem \ UNION {Elems(l) : l \in List}

Init == seqs = [l \in List |-> <<>>]

Insert(l, i, e) ==
    e \in Outside /\ seqs' = [seqs EXCEPT ![l] = InsertAt(@, i, e)]

Delete(l, i) == seqs' = [seqs EXCEPT ![l] = RemoveAt(@, i)]

Substitute(l, i, e) ==
    e \in Outside /\ seqs' = [seqs EXCEPT ![l] = ReplaceAt(@, i, e)]

Reorder(l) ==
    /\ seqs' = [seqs EXCEPT ![l] = seqs'[l]]
    /\ Len(seqs'[l]) = Len(seqs[l])
    /\ Range(seqs'[l]) = Elems(l)

Append2(l, m) ==
    l # m /\ seqs' = [seqs EXCEPT ![l] = @ \o seqs[m], ![m] = <<>>]

Next == \E l \in List :
    \/ \E i \in 1 .. Len(seqs[l]) + 1, e \in Elem : Insert(l, i, e)
    \/ \E i \in 1 .. Len(seqs[l]), e \in Elem : Delete(l, i) \/ Substitute(l, i, e)
    \/ Reorder(l)
    \/ \E m \in List : Append2(l, m)

Spec == Init /\ [][Next]_seqs
=============================================================================

----------------------------- MODULE DropOldest -----------------------------
(***************************************************************************)
(* What a cbuffer_t promises to its user: a FIFO queue of at most MaxSize  *)
(* items.  Inserting into a full queue discards the oldest item.  out is   *)
(* the result of the last head_cbuffer_t.  CBuffer implements this module; *)
(* Mailbox uses its operations as the interface of the buffer.             *)
(***************************************************************************)
EXTENDS Naturals, Sequences

CONSTANTS Item,     \* the pointers a caller may store
          MaxSize,  \* max_size, the capacity given to create_cbuffer_t
          Null      \* the NULL returned for an empty buffer

VARIABLES q, out

IsFull  == Len(q) = MaxSize
IsEmpty == q = << >>

Init == q = << >> /\ out = Null

\* What each operation makes of the queue, and what the last one returns.
AfterInsert(x) == Append(IF IsFull THEN Tail(q) ELSE q, x)
AfterRemove    == IF IsEmpty THEN q ELSE Tail(q)
First          == IF IsEmpty THEN Null ELSE Head(q)

Insert(x) == q' = AfterInsert(x) /\ out' = out
Remove    == q' = AfterRemove /\ out' = out
ReadHead  == out' = First /\ q' = q

Next == (\E x \in Item : Insert(x)) \/ Remove \/ ReadHead

Spec == Init /\ [][Next]_<<q, out>>
=============================================================================

------------------------------ MODULE CBuffer ------------------------------
(***************************************************************************)
(* The circular buffer of practica3 (cbuffer.c): a vector of max_size      *)
(* pointers, the index of its first element and its current size.  The     *)
(* vector comes from malloc, so that a slot holds Junk until it is         *)
(* written.  FullNoAdvance is a plausible mistake in insert_cbuffer_t; it  *)
(* is no part of Next.                                                     *)
(***************************************************************************)
EXTENDS Naturals, Sequences

CONSTANTS Item, MaxSize, Null, Junk

ASSUME CBufferAssumption ==
    /\ MaxSize \in Nat \ {0}       \* main.c refuses a mailbox of size zero
    /\ Null \notin Item
    /\ Junk \notin Item \cup {Null}

VARIABLES data, head, size, out

bufferVars == <<data, head, size, out>>

Slot == 0 .. MaxSize - 1

\* create_cbuffer_t
BufferInit ==
    /\ data = [i \in Slot |-> Junk]
    /\ head = 0
    /\ size = 0
    /\ out = Null

FullNoAdvance(x) ==
    /\ size = MaxSize
    /\ data' = [data EXCEPT ![head] = x]
    /\ UNCHANGED <<head, size, out>>

\* insert_cbuffer_t on a full buffer: the head position is overwritten and
\* becomes the last one.
InsertFull(x) ==
    /\ size = MaxSize
    /\ data' = [data EXCEPT ![head] = x]
    /\ head' = (head + 1) % MaxSize
    /\ UNCHANGED <<size, out>>

\* insert_cbuffer_t on a buffer with room
InsertRoom(x) ==
    /\ size # MaxSize
    /\ data' = [data EXCEPT ![(head + size) % MaxSize] = x]
    /\ size' = size + 1
    /\ UNCHANGED <<head, out>>

\* remove_cbuffer_t
Remove ==
    /\ size # 0
    /\ head' = (head + 1) % MaxSize
    /\ size' = size - 1
    /\ UNCHANGED <<data, out>>

\* head_cbuffer_t
ReadHead ==
    /\ out' = IF size # 0 THEN data[head] ELSE Null
    /\ UNCHANGED <<data, head, size>>

BufferNext ==
    \/ \E x \in Item : InsertFull(x) \/ InsertRoom(x)
    \/ Remove
    \/ ReadHead

BufferSpec == BufferInit /\ [][BufferNext]_bufferVars
-----------------------------------------------------------------------------
(* The ranges that the comments of cbuffer_t (cbuffer.h) give to head and  *)
(* size: every index the operations compute stays inside the vector.       *)
BufferTypeOK ==
    /\ data \in [Slot -> Item \cup {Junk}]
    /\ head \in Slot
    /\ size \in 0 .. MaxSize
    /\ out \in Item \cup {Null, Junk}

\* The items held, oldest first.
Contents == [i \in 1 .. size |-> data[(head + i - 1) % MaxSize]]

Fifo == INSTANCE DropOldest WITH q <- Contents

(* Every operation of cbuffer.c, read through Contents, is the operation   *)
(* of the same name of a FIFO queue that drops its oldest item when full:  *)
(* no item is lost, duplicated, reordered or read from an unwritten slot.  *)
IsFifo == Fifo!Spec
=============================================================================

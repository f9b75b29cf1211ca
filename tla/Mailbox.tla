------------------------------ MODULE Mailbox ------------------------------
(***************************************************************************)
(* mailbox.c: a bounded mailbox made of a circular buffer, a mutex, two    *)
(* binary semaphores and a count of the producers that found it full.  The *)
(* producers run mbox_post and the server, the only consumer of the        *)
(* program, runs mbox_fetch.  A message is known by its producer.          *)
(*                                                                         *)
(* The buffer is used through DropOldest (see CBuffer) and the semaphores  *)
(* through BinarySem (see Sem).  A step runs from one call that may block, *)
(* or one release of the mutex, to the next: all the code in between runs  *)
(* with the mutex held.                                                    *)
(*                                                                         *)
(* PostFullUncounted, PostSignalNever and TakeUnchecked are plausible      *)
(* mistakes; they are no part of Next.                                     *)
(***************************************************************************)
EXTENDS Naturals, Sequences, FiniteSets

CONSTANTS Producer, Server, Nobody,
          Capacity,        \* max_size of the buffer
          WaitsForAnswer   \* clients.c: no post before the last is answered

ASSUME MailboxAssumption ==
    /\ IsFiniteSet(Producer)
    /\ Server \notin Producer
    /\ Nobody \notin Producer \cup {Server}
    /\ Capacity \in Nat \ {0}
    /\ WaitsForAnswer \in BOOLEAN

VARIABLES queue,      \* mbox->cbuffer
          not_empty,  \* the counter of mbox->not_empty
          not_full,   \* the counter of mbox->not_full
          mutex,      \* the owner of mbox->mutex, or Nobody
          wait_send,  \* mbox->wait_send
          msg,        \* what the last mbox_fetch took, Nobody at first
          pc          \* where each thread is

vars == <<queue, not_empty, not_full, mutex, wait_send, msg, pc>>

Thread == Producer \cup {Server}

Buffer == INSTANCE DropOldest
            WITH Item <- Producer, MaxSize <- Capacity, Null <- Nobody,
                 q <- queue, out <- msg

NotEmpty == INSTANCE BinarySem
              WITH InitialCount <- 0, c <- not_empty,
                   waiting <- {t \in Thread : pc[t] = "fetch_sleep"}

NotFull == INSTANCE BinarySem
             WITH InitialCount <- 0, c <- not_full,
                  waiting <- {t \in Thread : pc[t] = "post_sleep"}

\* mbox_new
Init ==
    /\ queue = << >>
    /\ not_empty = 0
    /\ not_full = 0
    /\ mutex = Nobody
    /\ wait_send = 0
    /\ msg = Nobody
    /\ pc = [t \in Thread |-> "idle"]

Goto(t, from, to) == pc[t] = from /\ pc' = [pc EXCEPT ![t] = to]
Acquire(t) == mutex = Nobody /\ mutex' = t
Release    == mutex' = Nobody
-----------------------------------------------------------------------------
(* mbox_post *)

\* clients.c: the message is answered after the fetch that took it returned.
Unanswered(p) == \/ \E i \in DOMAIN queue : queue[i] = p
                 \/ msg = p /\ pc[Server] = "fetch_wake"

MayPost(p) == WaitsForAnswer => ~Unanswered(p)

PostCall(p) ==
    /\ MayPost(p)
    /\ Goto(p, "idle", "post_lock")
    /\ UNCHANGED <<queue, not_empty, not_full, mutex, wait_send, msg>>

PostLock(p) ==
    /\ Goto(p, "post_lock", "post_test")
    /\ Acquire(p)
    /\ UNCHANGED <<queue, not_empty, not_full, wait_send, msg>>

PostFullUncounted(p) ==
    /\ Buffer!IsFull
    /\ Goto(p, "post_test", "post_sleep")
    /\ Release
    /\ UNCHANGED <<queue, not_empty, not_full, wait_send, msg>>

\* The buffer is full: count oneself and let go of the mutex.
PostFull(p) ==
    /\ Buffer!IsFull
    /\ Goto(p, "post_test", "post_sleep")
    /\ Release
    /\ wait_send' = wait_send + 1
    /\ UNCHANGED <<queue, not_empty, not_full, msg>>

\* sys_sem_wait(not_full)
PostWake(p) ==
    /\ Goto(p, "post_sleep", "relock")
    /\ NotFull!Down
    /\ UNCHANGED <<queue, not_empty, mutex, wait_send, msg>>

PostSignalNever(p) ==
    /\ ~Buffer!IsFull
    /\ Goto(p, "post_test", "post_insert")
    /\ UNCHANGED <<queue, not_empty, not_full, mutex, wait_send, msg>>

\* There is room: signal not_empty, before the insertion, if it is empty.
PostSignal(p) ==
    /\ ~Buffer!IsFull
    /\ Goto(p, "post_test", "post_insert")
    /\ IF Buffer!IsEmpty THEN NotEmpty!Up ELSE UNCHANGED not_empty
    /\ UNCHANGED <<queue, not_full, mutex, wait_send, msg>>

PostInsert(p) ==
    /\ Goto(p, "post_insert", "idle")
    /\ queue' = Buffer!AfterInsert(p)
    /\ Release
    /\ UNCHANGED <<not_empty, not_full, wait_send, msg>>
-----------------------------------------------------------------------------
(* Both loops end alike: after the wait on its semaphore the thread takes  *)
(* the mutex, a producer decrements wait_send, and the test is made again. *)
Relock(t) ==
    /\ Goto(t, "relock", IF t = Server THEN "fetch_test" ELSE "post_test")
    /\ Acquire(t)
    /\ wait_send' = IF t = Server THEN wait_send ELSE wait_send - 1
    /\ UNCHANGED <<queue, not_empty, not_full, msg>>
-----------------------------------------------------------------------------
(* mbox_fetch *)

FetchCall ==
    /\ Goto(Server, "idle", "fetch_lock")
    /\ UNCHANGED <<queue, not_empty, not_full, mutex, wait_send, msg>>

FetchLock ==
    /\ Goto(Server, "fetch_lock", "fetch_test")
    /\ Acquire(Server)
    /\ UNCHANGED <<queue, not_empty, not_full, wait_send, msg>>

FetchEmpty ==
    /\ Buffer!IsEmpty
    /\ Goto(Server, "fetch_test", "fetch_sleep")
    /\ Release
    /\ UNCHANGED <<queue, not_empty, not_full, wait_send, msg>>

\* sys_sem_wait(not_empty)
FetchWake ==
    /\ Goto(Server, "fetch_sleep", "relock")
    /\ NotEmpty!Down
    /\ UNCHANGED <<queue, not_full, mutex, wait_send, msg>>

TakeUnchecked ==
    /\ Goto(Server, "fetch_test", "fetch_wake")
    /\ msg' = Buffer!First
    /\ queue' = Buffer!AfterRemove
    /\ UNCHANGED <<not_empty, not_full, mutex, wait_send>>

\* head_cbuffer_t and remove_cbuffer_t
FetchTake ==
    /\ ~Buffer!IsEmpty
    /\ Goto(Server, "fetch_test", "fetch_wake")
    /\ msg' = Buffer!First
    /\ queue' = Buffer!AfterRemove
    /\ UNCHANGED <<not_empty, not_full, mutex, wait_send>>

\* The loop over the waiting producers signals as long as wait_send is
\* positive, and keeps the mutex that a producer needs to decrement it.
FetchSignal ==
    /\ pc[Server] = "fetch_wake"
    /\ wait_send > 0
    /\ NotFull!Up
    /\ UNCHANGED <<queue, not_empty, mutex, wait_send, msg, pc>>

FetchReturn ==
    /\ wait_send = 0
    /\ Goto(Server, "fetch_wake", "idle")
    /\ Release
    /\ UNCHANGED <<queue, not_empty, not_full, wait_send, msg>>
-----------------------------------------------------------------------------
Post(p) == \/ PostLock(p) \/ PostFull(p) \/ PostWake(p) \/ Relock(p)
           \/ PostSignal(p) \/ PostInsert(p)

Fetch == \/ FetchCall \/ FetchLock \/ FetchEmpty \/ FetchWake \/ Relock(Server)
         \/ FetchTake \/ FetchSignal \/ FetchReturn

Next == Fetch \/ \E p \in Producer : PostCall(p) \/ Post(p)

Spec == Init /\ [][Next]_vars

\* A thread inside a call is scheduled, and the server fetches for ever; a
\* producer need not post.
FairSpec == Spec /\ WF_vars(Fetch) /\ \A p \in Producer : WF_vars(Post(p))
-----------------------------------------------------------------------------
PostHolding  == {"post_test", "post_insert"}
FetchHolding == {"fetch_test", "fetch_wake"}
PostPC  == PostHolding \cup {"idle", "post_lock", "post_sleep", "relock"}
FetchPC == FetchHolding \cup {"idle", "fetch_lock", "fetch_sleep", "relock"}

Blocked == {p \in Producer : pc[p] \in {"post_sleep", "relock"}}

TypeOK ==
    /\ queue \in Seq(Producer)
    /\ Len(queue) <= Capacity
    /\ not_empty \in {0, 1}
    /\ not_full \in {0, 1}
    /\ mutex \in Thread \cup {Nobody}
    /\ wait_send \in Nat
    /\ msg \in Producer \cup {Nobody}
    /\ pc \in [Thread -> PostPC \cup FetchPC]
    /\ pc[Server] \in FetchPC
    /\ \A p \in Producer : pc[p] \in PostPC

\* The mutex is held by exactly the thread inside a critical section.
LockInv == \A t \in Thread : pc[t] \in PostHolding \cup FetchHolding <=> mutex = t

(* wait_send counts the producers that let go of the mutex because the     *)
(* buffer was full and have not tested it again: the comment of the field  *)
(* (mailbox.c:24) and the test of mbox_fetch rely on it.                   *)
WaitSendCounts == wait_send = Cardinality(Blocked)

(* mbox_post signals not_empty before it inserts, only if the buffer is    *)
(* empty.  Still the server never sleeps beside a message: if it waits and *)
(* there is a message, or one is on its way, the semaphore lets it pass.   *)
NoLostWakeup ==
    pc[Server] = "fetch_sleep"
    /\ (queue # << >> \/ \E p \in Producer : pc[p] = "post_insert")
    => not_empty = 1

\* The test of the loop is still true when the buffer is written.
RoomAtInsert ==
    \A p \in Producer : pc[p] = "post_insert" => Len(queue) < Capacity

Asked == {p \in Producer : pc[p] # "idle"}

Channel == INSTANCE BoundedChannel WITH asked <- Asked, chan <- queue, last <- msg

(* The mailbox is a bounded FIFO channel: although its buffer drops the    *)
(* oldest message when full and returns NULL when empty, and although both *)
(* semaphores can be up for no reason, a message posted is fetched at most *)
(* once, in order, and none is overwritten.                                *)
IsChannel == Channel!Spec

(* As long as each client waits for its answer and there are no more       *)
(* clients than slots, as with the default size, no producer ever finds    *)
(* the mailbox full, so that the loop of mbox_fetch is never entered.      *)
NobodyBlocks == Blocked = {} /\ wait_send = 0

(* Every message in the mailbox is fetched, until a producer blocks: from  *)
(* then on mbox_fetch may be in its loop for ever.                         *)
QueuedIsFetched ==
    \A p \in Producer :
        (\E i \in DOMAIN queue : queue[i] = p) ~> msg = p \/ wait_send > 0
=============================================================================

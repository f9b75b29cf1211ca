--------------------------- MODULE MailboxProofs ---------------------------
(***************************************************************************)
(* Proofs about mailbox.c, for any finite set of producers and any size of *)
(* the mailbox.  The safety invariants of the runs are inductive together: *)
(* the ownership of the mutex makes the test of a loop still hold when the *)
(* buffer is written, and the count of the blocked producers keeps         *)
(* wait_send a natural number.                                             *)
(***************************************************************************)
EXTENDS Mailbox, SequenceTheorems, FiniteSetTheorems, TLAPS

Inv == TypeOK /\ LockInv /\ WaitSendCounts /\ NoLostWakeup /\ RoomAtInsert

USE DEF PostHolding, FetchHolding, PostPC, FetchPC, Thread

\* The steps of Next, for the case analyses below.
LEMMA Steps ==
  ASSUME Next, NEW ACTION G,
         FetchCall => G, FetchLock => G, FetchEmpty => G, FetchWake => G,
         FetchTake => G, FetchSignal => G, FetchReturn => G,
         \A t \in Thread : Relock(t) => G,
         \A p \in Producer : PostCall(p) => G,
         \A p \in Producer : PostLock(p) => G,
         \A p \in Producer : PostFull(p) => G,
         \A p \in Producer : PostWake(p) => G,
         \A p \in Producer : PostSignal(p) => G,
         \A p \in Producer : PostInsert(p) => G
  PROVE  G
  BY Zenon DEF Next, Fetch, Post

LEMMA InitInv == Init => Inv
<1> SUFFICES ASSUME Init PROVE Inv
  OBVIOUS
<1>1. Blocked = {}
  BY MailboxAssumption DEF Init, Blocked
<1> QED
  BY <1>1, MailboxAssumption, FS_EmptySet
  DEF Init, Inv, TypeOK, LockInv, WaitSendCounts, NoLostWakeup, RoomAtInsert

\* The producers that are blocked are a finite set, and so is any part of it.
LEMMA BlockedFinite ==
  /\ IsFiniteSet(Blocked)
  /\ Cardinality(Blocked) \in Nat
  /\ \A p : /\ Cardinality(Blocked \cup {p})
               = IF p \in Blocked THEN Cardinality(Blocked) ELSE Cardinality(Blocked) + 1
            /\ Cardinality(Blocked \ {p})
               = IF p \in Blocked THEN Cardinality(Blocked) - 1 ELSE Cardinality(Blocked)
            /\ IsFiniteSet(Blocked \ {p})
<1>1. IsFiniteSet(Blocked)
  BY MailboxAssumption, FS_Subset, Blocked \in SUBSET Producer DEF Blocked
<1> QED BY <1>1, FS_CardinalityType, FS_AddElement, FS_RemoveElement

\* wait_send follows the set of blocked producers through every step.
LEMMA CountStep ==
  ASSUME Inv, Next
  PROVE  WaitSendCounts' /\ wait_send' \in Nat
<1> USE MailboxAssumption, BlockedFinite
    DEF Inv, TypeOK, WaitSendCounts, Goto
<1> DEFINE G == WaitSendCounts' /\ wait_send' \in Nat
<1>0. Blocked' = Blocked /\ wait_send' = wait_send => G
  OBVIOUS
<1>1. FetchCall => G    BY <1>0 DEF FetchCall, Blocked
<1>2. FetchLock => G    BY <1>0 DEF FetchLock, Blocked
<1>3. FetchEmpty => G   BY <1>0 DEF FetchEmpty, Blocked
<1>4. FetchWake => G    BY <1>0 DEF FetchWake, Blocked
<1>5. FetchTake => G    BY <1>0 DEF FetchTake, Blocked
<1>6. FetchSignal => G  BY <1>0 DEF FetchSignal, Blocked
<1>7. FetchReturn => G  BY <1>0 DEF FetchReturn, Blocked
<1>8. ASSUME NEW t \in Thread, Relock(t) PROVE G
  <2>1. CASE t = Server
    BY <1>0, <1>8, <2>1 DEF Relock, Blocked
  <2>2. CASE t \in Producer
    <3>1. t \in Blocked /\ Blocked' = Blocked \ {t}
      BY <1>8, <2>2 DEF Relock, Blocked
    <3>2. wait_send' = wait_send - 1
      BY <1>8, <2>2 DEF Relock
    <3>3. Cardinality(Blocked \ {t}) \in Nat
      BY FS_CardinalityType
    <3> QED BY <3>1, <3>2, <3>3
  <2> QED BY <2>1, <2>2
<1>9.  \A p \in Producer : PostCall(p) => G    BY <1>0 DEF PostCall, Blocked
<1>10. \A p \in Producer : PostLock(p) => G    BY <1>0 DEF PostLock, Blocked
<1>11. ASSUME NEW p \in Producer, PostFull(p) PROVE G
  <2>1. p \notin Blocked /\ Blocked' = Blocked \cup {p}
    BY <1>11 DEF PostFull, Blocked
  <2> QED BY <1>11, <2>1 DEF PostFull
<1>12. \A p \in Producer : PostWake(p) => G    BY <1>0 DEF PostWake, Blocked
<1>13. \A p \in Producer : PostSignal(p) => G  BY <1>0 DEF PostSignal, Blocked
<1>14. \A p \in Producer : PostInsert(p) => G  BY <1>0 DEF PostInsert, Blocked
<1> QED
  BY Steps, <1>1, <1>2, <1>3, <1>4, <1>5, <1>6, <1>7, <1>8, <1>9, <1>10, <1>11,
     <1>12, <1>13, <1>14

\* What the operations of the buffer make of a queue.
LEMMA BufferFacts ==
  ASSUME TypeOK
  PROVE  /\ queue # << >> => /\ Buffer!First = Head(queue)
                             /\ Buffer!First \in Producer
                             /\ Buffer!AfterRemove = Tail(queue)
                             /\ Buffer!AfterRemove \in Seq(Producer)
                             /\ Len(Buffer!AfterRemove) = Len(queue) - 1
         /\ Len(queue) < Capacity =>
               \A p \in Producer : /\ Buffer!AfterInsert(p) = Append(queue, p)
                                   /\ Buffer!AfterInsert(p) \in Seq(Producer)
                                   /\ Len(Buffer!AfterInsert(p)) = Len(queue) + 1
  BY MailboxAssumption, EmptySeq, LenProperties, HeadTailProperties, AppendProperties
  DEF TypeOK, Buffer!First, Buffer!AfterRemove, Buffer!AfterInsert, Buffer!IsFull,
      Buffer!IsEmpty

\* Typing and ownership of the mutex.
LEMMA TypeStep ==
  ASSUME Inv, Next
  PROVE  TypeOK' /\ LockInv'
<1> USE MailboxAssumption DEF Inv, TypeOK, LockInv, Goto, Acquire, Release
<1> DEFINE G == TypeOK' /\ LockInv'
<1>0. wait_send' \in Nat
  BY CountStep
<1>1. FetchCall => G    BY <1>0 DEF FetchCall
<1>2. FetchLock => G    BY <1>0 DEF FetchLock
<1>3. FetchEmpty => G   BY <1>0 DEF FetchEmpty
<1>4. FetchWake => G    BY <1>0 DEF FetchWake, NotEmpty!Down
<1>5. FetchTake => G
  BY <1>0, BufferFacts DEF FetchTake, Buffer!IsEmpty
<1>6. FetchSignal => G  BY <1>0 DEF FetchSignal, NotFull!Up
<1>7. FetchReturn => G  BY <1>0 DEF FetchReturn
<1>8. \A t \in Thread : Relock(t) => G          BY <1>0 DEF Relock
<1>9.  \A p \in Producer : PostCall(p) => G    BY <1>0 DEF PostCall
<1>10. \A p \in Producer : PostLock(p) => G    BY <1>0 DEF PostLock
<1>11. \A p \in Producer : PostFull(p) => G    BY <1>0 DEF PostFull
<1>12. \A p \in Producer : PostWake(p) => G    BY <1>0 DEF PostWake, NotFull!Down
<1>13. \A p \in Producer : PostSignal(p) => G  BY <1>0 DEF PostSignal, NotEmpty!Up
<1>14. \A p \in Producer : PostInsert(p) => G
  BY <1>0, BufferFacts DEF PostInsert, RoomAtInsert
<1> QED
  BY Steps, <1>1, <1>2, <1>3, <1>4, <1>5, <1>6, <1>7, <1>8, <1>9, <1>10, <1>11,
     <1>12, <1>13, <1>14

\* The server goes to sleep with the mutex on an empty buffer; a producer that
\* finds the buffer empty raises not_empty in the step that lets it insert.
LEMMA WakeupStep ==
  ASSUME Inv, Next
  PROVE  NoLostWakeup'
<1> USE MailboxAssumption
    DEF Inv, TypeOK, LockInv, NoLostWakeup, Goto, Acquire, Release
<1> DEFINE G == NoLostWakeup'
<1>1. FetchCall => G    BY DEF FetchCall
<1>2. FetchLock => G    BY DEF FetchLock
<1>3. FetchEmpty => G   BY DEF FetchEmpty, Buffer!IsEmpty
<1>4. FetchWake => G    BY DEF FetchWake
<1>5. FetchTake => G    BY DEF FetchTake
<1>6. FetchSignal => G  BY DEF FetchSignal
<1>7. FetchReturn => G  BY DEF FetchReturn
<1>8. \A t \in Thread : Relock(t) => G          BY DEF Relock
<1>9.  \A p \in Producer : PostCall(p) => G    BY DEF PostCall
<1>10. \A p \in Producer : PostLock(p) => G    BY DEF PostLock
<1>11. \A p \in Producer : PostFull(p) => G    BY DEF PostFull
<1>12. \A p \in Producer : PostWake(p) => G    BY DEF PostWake
<1>13. \A p \in Producer : PostSignal(p) => G
  BY DEF PostSignal, NotEmpty!Up, Buffer!IsEmpty
<1>14. \A p \in Producer : PostInsert(p) => G  BY DEF PostInsert
<1> QED
  BY Steps, <1>1, <1>2, <1>3, <1>4, <1>5, <1>6, <1>7, <1>8, <1>9, <1>10, <1>11,
     <1>12, <1>13, <1>14

\* A producer that may insert holds the mutex, so that nobody fills the buffer.
LEMMA RoomStep ==
  ASSUME Inv, Next
  PROVE  RoomAtInsert'
<1> USE MailboxAssumption
    DEF Inv, TypeOK, LockInv, RoomAtInsert, Goto, Acquire, Release
<1> DEFINE G == RoomAtInsert'
<1>1. FetchCall => G    BY DEF FetchCall
<1>2. FetchLock => G    BY DEF FetchLock
<1>3. FetchEmpty => G   BY DEF FetchEmpty
<1>4. FetchWake => G    BY DEF FetchWake
<1>5. FetchTake => G    BY DEF FetchTake
<1>6. FetchSignal => G  BY DEF FetchSignal
<1>7. FetchReturn => G  BY DEF FetchReturn
<1>8. \A t \in Thread : Relock(t) => G          BY DEF Relock
<1>9.  \A p \in Producer : PostCall(p) => G    BY DEF PostCall
<1>10. \A p \in Producer : PostLock(p) => G    BY DEF PostLock
<1>11. \A p \in Producer : PostFull(p) => G    BY DEF PostFull
<1>12. \A p \in Producer : PostWake(p) => G    BY DEF PostWake
<1>13. \A p \in Producer : PostSignal(p) => G
  BY LenProperties DEF PostSignal, Buffer!IsFull
<1>14. \A p \in Producer : PostInsert(p) => G  BY DEF PostInsert
<1> QED
  BY Steps, <1>1, <1>2, <1>3, <1>4, <1>5, <1>6, <1>7, <1>8, <1>9, <1>10, <1>11,
     <1>12, <1>13, <1>14

LEMMA NextInv == Inv /\ [Next]_vars => Inv'
<1>1. CASE UNCHANGED vars
  BY <1>1
  DEF Inv, TypeOK, LockInv, WaitSendCounts, NoLostWakeup, RoomAtInsert, Blocked, vars
<1>2. ASSUME Inv, Next PROVE Inv'
  BY <1>2, TypeStep, CountStep, WakeupStep, RoomStep DEF Inv
<1> QED BY <1>1, <1>2

LEMMA Invariance == Spec => []Inv
  BY InitInv, NextInv, PTL DEF Spec

(* The mailbox keeps to its size, and its mutex has one owner.             *)
THEOREM TypeCorrect == Spec => [](TypeOK /\ LockInv)
  BY Invariance, PTL DEF Inv

(* wait_send is the number of producers blocked, for any number of them.   *)
THEOREM WaitSendIsExact == Spec => []WaitSendCounts
  BY Invariance, PTL DEF Inv

(* The server never sleeps beside a message.                               *)
THEOREM NoWakeupIsLost == Spec => []NoLostWakeup
  BY Invariance, PTL DEF Inv

\* The insertion is the deposit of the channel, taking the head is its fetch,
\* the call of mbox_post asks; every other step is invisible.
LEMMA ChannelStep ==
  ASSUME Inv, Next
  PROVE  Channel!Next \/ UNCHANGED <<Asked, queue, msg>>
<1> USE MailboxAssumption DEF Inv, TypeOK, Goto, Asked
<1> DEFINE G == Channel!Next \/ UNCHANGED <<Asked, queue, msg>>
<1>1. FetchCall => G    BY DEF FetchCall
<1>2. FetchLock => G    BY DEF FetchLock
<1>3. FetchEmpty => G   BY DEF FetchEmpty
<1>4. FetchWake => G    BY DEF FetchWake
<1>5. FetchTake => G
  <2>1. FetchTake => Channel!Fetch
    BY BufferFacts DEF FetchTake, Channel!Fetch, Buffer!IsEmpty
  <2> QED BY <2>1 DEF Channel!Next
<1>6. FetchSignal => G  BY DEF FetchSignal
<1>7. FetchReturn => G  BY DEF FetchReturn
<1>8. \A t \in Thread : Relock(t) => G          BY DEF Relock
<1>9. ASSUME NEW p \in Producer, PostCall(p) PROVE G
  <2>1. Channel!Ask(p)  BY <1>9 DEF PostCall, Channel!Ask
  <2> QED BY <2>1 DEF Channel!Next
<1>10. \A p \in Producer : PostLock(p) => G    BY DEF PostLock
<1>11. \A p \in Producer : PostFull(p) => G    BY DEF PostFull
<1>12. \A p \in Producer : PostWake(p) => G    BY DEF PostWake
<1>13. \A p \in Producer : PostSignal(p) => G  BY DEF PostSignal
<1>14. ASSUME NEW p \in Producer, PostInsert(p) PROVE G
  <2>1. Channel!Deposit(p)
    BY <1>14, BufferFacts DEF PostInsert, RoomAtInsert, Channel!Deposit
  <2> QED BY <2>1 DEF Channel!Next
<1> QED
  BY Steps, <1>1, <1>2, <1>3, <1>4, <1>5, <1>6, <1>7, <1>8, <1>9, <1>10, <1>11,
     <1>12, <1>13, <1>14

(* The mailbox implements the bounded FIFO channel: no message is lost,    *)
(* duplicated, overwritten or reordered.                                   *)
THEOREM Refinement == Spec => IsChannel
<1>1. Init => Channel!Init
  BY MailboxAssumption DEF Init, Channel!Init, Asked
<1>2. Inv /\ [Next]_vars => [Channel!Next]_<<Asked, queue, msg>>
  BY ChannelStep DEF vars, Asked
<1> QED
  BY <1>1, <1>2, Invariance, PTL DEF Spec, IsChannel, Channel!Spec

(* Once mbox_fetch has entered the loop over the waiting producers it      *)
(* never leaves it, whatever the number of producers and of slots: it      *)
(* holds the mutex without which no producer can decrement wait_send.      *)
THEOREM LoopIsForever ==
  Spec => [][pc[Server] = "fetch_wake" /\ wait_send > 0
             => pc'[Server] = "fetch_wake" /\ wait_send' = wait_send]_vars
<1>1. ASSUME Inv, Next, pc[Server] = "fetch_wake", wait_send > 0
      PROVE  pc'[Server] = "fetch_wake" /\ wait_send' = wait_send
  <2> USE <1>1, MailboxAssumption DEF Inv, TypeOK, LockInv, Goto, Acquire
  <2> DEFINE G == pc'[Server] = "fetch_wake" /\ wait_send' = wait_send
  <2>0. mutex = Server
    OBVIOUS
  <2>1. FetchCall => G    BY DEF FetchCall
  <2>2. FetchLock => G    BY DEF FetchLock
  <2>3. FetchEmpty => G   BY DEF FetchEmpty
  <2>4. FetchWake => G    BY DEF FetchWake
  <2>5. FetchTake => G    BY DEF FetchTake
  <2>6. FetchSignal => G  BY DEF FetchSignal
  <2>7. FetchReturn => G  BY DEF FetchReturn
  <2>8. \A t \in Thread : Relock(t) => G          BY <2>0 DEF Relock
  <2>9.  \A p \in Producer : PostCall(p) => G    BY DEF PostCall
  <2>10. \A p \in Producer : PostLock(p) => G    BY DEF PostLock
  <2>11. \A p \in Producer : PostFull(p) => G    BY <2>0 DEF PostFull
  <2>12. \A p \in Producer : PostWake(p) => G    BY DEF PostWake
  <2>13. \A p \in Producer : PostSignal(p) => G  BY DEF PostSignal
  <2>14. \A p \in Producer : PostInsert(p) => G  BY DEF PostInsert
  <2> HIDE DEF G
  <2>15. G
    BY Steps, <2>1, <2>2, <2>3, <2>4, <2>5, <2>6, <2>7, <2>8, <2>9, <2>10, <2>11,
       <2>12, <2>13, <2>14
  <2> QED BY <2>15 DEF G
<1>2. Inv /\ [Next]_vars
      => [pc[Server] = "fetch_wake" /\ wait_send > 0
          => pc'[Server] = "fetch_wake" /\ wait_send' = wait_send]_vars
  BY <1>1
<1> QED BY <1>2, Invariance, PTL DEF Spec
-----------------------------------------------------------------------------
(* With clients that wait for their answer, each has at most one message   *)
(* in the mailbox, and none while it posts.                                *)

OneEach == \A k, l \in DOMAIN queue : queue[k] = queue[l] => k = l

PosterAbsent ==
    \A p \in Producer :
        pc[p] # "idle" => pc[p] \in {"post_lock", "post_test", "post_insert"}
                         /\ \A k \in DOMAIN queue : queue[k] # p

FewClients == WaitsForAnswer /\ Cardinality(Producer) <= Capacity

\* Distinct clients fill distinct slots, and the one that posts fills none.
LEMMA PosterFindsRoom ==
  ASSUME TypeOK, OneEach, FewClients, NEW p \in Producer,
         \A k \in DOMAIN queue : queue[k] # p
  PROVE  Len(queue) < Capacity
<1> DEFINE S == 1 .. Len(queue)
           T == Producer \ {p}
<1>1. Len(queue) \in Nat /\ queue \in [S -> Producer] /\ DOMAIN queue = S
  BY LenProperties DEF TypeOK
<1>2. IsFiniteSet(S) /\ Cardinality(S) = Len(queue)
  BY <1>1, FS_Interval
<1>3. IsFiniteSet(T) /\ Cardinality(T) = Cardinality(Producer) - 1
  BY MailboxAssumption, FS_RemoveElement
<1>4. queue \in [S -> T]
  BY <1>1
<1>5. Cardinality(T) \in Nat /\ Cardinality(Producer) \in Nat
  BY MailboxAssumption, <1>3, FS_CardinalityType
<1>6. ~(Cardinality(T) < Cardinality(S))
  <2> HIDE DEF S, T
  <2> QED BY <1>1, <1>2, <1>3, <1>4, FS_PigeonHole DEF OneEach
<1> QED BY <1>1, <1>2, <1>3, <1>5, <1>6, MailboxAssumption DEF FewClients

\* The two operations on a queue whose elements are distinct.
LEMMA DistinctTail ==
  ASSUME NEW s \in Seq(Producer), s # << >>, NEW r, r = Tail(s),
         \A k, l \in DOMAIN s : s[k] = s[l] => k = l
  PROVE  /\ \A k, l \in DOMAIN r : r[k] = r[l] => k = l
         /\ \A p : (\A k \in DOMAIN s : s[k] # p) => \A k \in DOMAIN r : r[k] # p
<1>1. /\ Len(s) \in Nat /\ DOMAIN s = 1 .. Len(s)
      /\ Len(r) = Len(s) - 1 /\ DOMAIN r = 1 .. Len(r)
      /\ \A k \in 1 .. Len(r) : r[k] = s[k + 1]
  BY HeadTailProperties, LenProperties
<1>2. \A k \in DOMAIN r : k \in Nat /\ k + 1 \in DOMAIN s /\ r[k] = s[k + 1]
  BY <1>1
<1>3. ASSUME NEW k \in DOMAIN r, NEW l \in DOMAIN r, r[k] = r[l] PROVE k = l
  <2>1. k + 1 = l + 1  BY <1>2, <1>3
  <2> QED BY <1>2, <2>1
<1> QED BY <1>2, <1>3

LEMMA DistinctAppend ==
  ASSUME NEW s \in Seq(Producer), NEW p \in Producer, NEW r, r = Append(s, p),
         \A k, l \in DOMAIN s : s[k] = s[l] => k = l,
         \A k \in DOMAIN s : s[k] # p
  PROVE  /\ \A k, l \in DOMAIN r : r[k] = r[l] => k = l
         /\ \A o : o # p /\ (\A k \in DOMAIN s : s[k] # o) => \A k \in DOMAIN r : r[k] # o
<1>1. /\ Len(s) \in Nat /\ DOMAIN s = 1 .. Len(s)
      /\ Len(r) = Len(s) + 1 /\ DOMAIN r = 1 .. Len(r)
      /\ \A k \in 1 .. Len(s) : r[k] = s[k]
      /\ r[Len(s) + 1] = p
  BY AppendProperties, LenProperties
<1>2. \A k \in DOMAIN r : \/ k \in DOMAIN s /\ r[k] = s[k]
                          \/ k = Len(s) + 1 /\ r[k] = p
  BY <1>1
<1> QED BY <1>2

LEMMA OneEachStep ==
  ASSUME Inv, OneEach, PosterAbsent, FewClients, Next
  PROVE  (OneEach /\ PosterAbsent)'
<1> USE MailboxAssumption
    DEF Inv, TypeOK, OneEach, PosterAbsent, Goto
<1> DEFINE G == (OneEach /\ PosterAbsent)'
<1>1. FetchCall => G    BY DEF FetchCall
<1>2. FetchLock => G    BY DEF FetchLock
<1>3. FetchEmpty => G   BY DEF FetchEmpty
<1>4. FetchWake => G    BY DEF FetchWake
<1>5. ASSUME FetchTake PROVE G
  <2>1. queue # << >> /\ queue' = Tail(queue)
    BY <1>5, BufferFacts DEF FetchTake, Buffer!IsEmpty
  <2>2. \A p \in Producer : pc'[p] = pc[p]
    BY <1>5 DEF FetchTake
  <2> QED BY <2>1, <2>2, DistinctTail
<1>6. FetchSignal => G  BY DEF FetchSignal
<1>7. FetchReturn => G  BY DEF FetchReturn
<1>8. \A t \in Thread : Relock(t) => G          BY DEF Relock
<1>9. \A p \in Producer : PostCall(p) => G
  BY DEF PostCall, MayPost, Unanswered, FewClients
<1>10. \A p \in Producer : PostLock(p) => G    BY DEF PostLock
<1>11. ASSUME NEW p \in Producer, PostFull(p) PROVE G
  <2>1. Len(queue) < Capacity
    BY <1>11, PosterFindsRoom DEF PostFull
  <2> QED BY <1>11, <2>1 DEF PostFull, Buffer!IsFull
<1>12. \A p \in Producer : PostWake(p) => G    BY DEF PostWake
<1>13. \A p \in Producer : PostSignal(p) => G  BY DEF PostSignal
<1>14. ASSUME NEW p \in Producer, PostInsert(p) PROVE G
  <2>1. queue' = Append(queue, p)
    BY <1>14, BufferFacts DEF PostInsert, RoomAtInsert
  <2>2. /\ \A k \in DOMAIN queue : queue[k] # p
        /\ \A r \in Producer : pc'[r] = IF r = p THEN "idle" ELSE pc[r]
    BY <1>14 DEF PostInsert
  <2>3. OneEach'
    BY <2>1, <2>2, DistinctAppend
  <2>4. PosterAbsent'
    BY <2>1, <2>2, DistinctAppend
  <2> QED BY <2>3, <2>4
<1> HIDE DEF G
<1>15. G
  BY Steps, <1>1, <1>2, <1>3, <1>4, <1>5, <1>6, <1>7, <1>8, <1>9, <1>10, <1>11,
     <1>12, <1>13, <1>14
<1> QED BY <1>15 DEF G

(* With no more clients than slots, each of which waits for its answer,    *)
(* no producer is ever blocked: practica3 with its default mailbox of 128  *)
(* and its at most 20 clients never enters the loop of mbox_fetch.         *)
THEOREM FewClientsNeverBlock ==
  ASSUME FewClients
  PROVE  Spec => []NobodyBlocks
<1>1. Init => OneEach /\ PosterAbsent
  BY DEF Init, OneEach, PosterAbsent, Thread
<1>2. Inv /\ OneEach /\ PosterAbsent /\ [Next]_vars => (OneEach /\ PosterAbsent)'
  <2>1. CASE UNCHANGED vars  BY <2>1 DEF OneEach, PosterAbsent, vars
  <2> QED BY <2>1, OneEachStep, FewClients
<1>3. Inv /\ PosterAbsent => NobodyBlocks
  <2> SUFFICES ASSUME Inv, PosterAbsent PROVE NobodyBlocks
    OBVIOUS
  <2>1. Blocked = {}
    BY DEF PosterAbsent, Blocked
  <2> QED BY <2>1, FS_EmptySet DEF Inv, WaitSendCounts, NobodyBlocks
<1> QED BY <1>1, <1>2, <1>3, Invariance, PTL DEF Spec

(* Whoever is about to insert holds the mutex and has room for its message:*)
(* the buffer never drops one to make room (mailbox.c:70-101).             *)
THEOREM RoomIsThere == Spec => [](LockInv /\ RoomAtInsert)
BY Invariance, PTL DEF Inv
=============================================================================

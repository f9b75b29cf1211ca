----------------------------- MODULE PartsProofs -----------------------------
(***************************************************************************)
(* Proofs about the parts of practica3 that stand on their own.            *)
(*                                                                         *)
(* cbuffer.c, for any size of the buffer.  Typing and the fact that no     *)
(* slot in use is unwritten are inductive together.  The refinement        *)
(* compares sequences element by element: an operation moves the window of *)
(* size slots that starts at head, and indices in a window of at most      *)
(* MaxSize slots are equal modulo MaxSize only if they are equal.          *)
(*                                                                         *)
(* sem.c, for any number of threads.  The inductive invariant is the       *)
(* conjunction of the typing, the ownership of the mutex, and two facts    *)
(* about the condition variable: only threads that wait are queued on it,  *)
(* and a signal that raised the counter over a sleeper has its broadcast   *)
(* still to do.                                                            *)
(*                                                                         *)
(* signal_handler.c, for any number of signals.  Typing needs a balance: a *)
(* signal that was sent is pending, or in its handler, or was handled, or  *)
(* is lost.  What main relies on when it goes on to free the mailbox is    *)
(* that no handler runs on a thread that has finished.                     *)
(***************************************************************************)
EXTENDS CBuffer, Sem, SignalHandler, SequenceTheorems, TLAPS

(* cbuffer.c *)

LEMMA ModFacts ==
  ASSUME NEW h \in Slot, NEW k \in 0 .. MaxSize
  PROVE  /\ (h + k) % MaxSize = IF h + k < MaxSize THEN h + k ELSE h + k - MaxSize
         /\ (h + k) % MaxSize \in Slot
  BY CBufferAssumption DEF Slot

LEMMA NextSlot ==
  ASSUME NEW h \in Slot
  PROVE  (h + 1) % MaxSize = IF h + 1 < MaxSize THEN h + 1 ELSE 0
<1>1. 1 \in 0 .. MaxSize /\ h \in Nat /\ h < MaxSize
  BY CBufferAssumption DEF Slot
<1> QED BY <1>1, ModFacts, CBufferAssumption

\* The element of Contents at i, without the modulo.
At(d, h, i) == d[IF h + i - 1 < MaxSize THEN h + i - 1 ELSE h + i - 1 - MaxSize]

NoJunk == \A i \in 1 .. size : At(data, head, i) \in Item

BufferInv == BufferTypeOK /\ NoJunk

LEMMA BufferInitInv == BufferInit => BufferInv
  BY CBufferAssumption DEF BufferInit, BufferInv, BufferTypeOK, NoJunk, Slot

LEMMA BufferNextInv == BufferInv /\ [BufferNext]_bufferVars => BufferInv'
<1> SUFFICES ASSUME BufferInv, [BufferNext]_bufferVars PROVE BufferInv'
  OBVIOUS
<1> USE CBufferAssumption DEF BufferInv, BufferTypeOK, NoJunk, Slot
<1>1. CASE UNCHANGED bufferVars  BY <1>1 DEF bufferVars, At
<1>2. ASSUME NEW x \in Item, InsertFull(x) PROVE BufferInv'
  <2>1. head' = IF head + 1 < MaxSize THEN head + 1 ELSE 0
    BY <1>2, NextSlot DEF InsertFull
  <2>2. BufferTypeOK'
    BY <1>2, <2>1 DEF InsertFull
  <2>3. ASSUME NEW k \in 1 .. size' PROVE At(data', head', k) \in Item
    <3>1. CASE k = size
      BY <1>2, <2>1, <3>1 DEF InsertFull, At
    <3>2. CASE k # size
      <4>1. k + 1 \in 1 .. size /\ At(data', head', k) = At(data, head, k + 1)
        BY <1>2, <2>1, <3>2 DEF InsertFull, At
      <4> QED BY <4>1
    <3> QED BY <3>1, <3>2
  <2> QED BY <2>2, <2>3
<1>3. ASSUME NEW x \in Item, InsertRoom(x) PROVE BufferInv'
  <2>1. (head + size) % MaxSize
        = IF head + size < MaxSize THEN head + size ELSE head + size - MaxSize
    BY ModFacts
  <2>2. BufferTypeOK'
    BY <1>3, <2>1 DEF InsertRoom
  <2>3. ASSUME NEW k \in 1 .. size' PROVE At(data', head', k) \in Item
    <3>1. CASE k = size + 1
      BY <1>3, <2>1, <3>1 DEF InsertRoom, At
    <3>2. CASE k # size + 1
      <4>1. k \in 1 .. size /\ At(data', head', k) = At(data, head, k)
        BY <1>3, <2>1, <3>2 DEF InsertRoom, At
      <4> QED BY <4>1
    <3> QED BY <3>1, <3>2
  <2> QED BY <2>2, <2>3
<1>4. CASE Remove
  <2>1. head' = IF head + 1 < MaxSize THEN head + 1 ELSE 0
    BY <1>4, NextSlot DEF Remove
  <2>2. BufferTypeOK'
    BY <1>4, <2>1 DEF Remove
  <2>3. ASSUME NEW k \in 1 .. size' PROVE At(data', head', k) \in Item
    <3>1. k + 1 \in 1 .. size /\ At(data', head', k) = At(data, head, k + 1)
      BY <1>4, <2>1 DEF Remove, At
    <3> QED BY <3>1
  <2> QED BY <2>2, <2>3
<1>5. CASE ReadHead
  BY <1>5 DEF ReadHead, At
<1> QED BY <1>1, <1>2, <1>3, <1>4, <1>5 DEF BufferNext

LEMMA BufferInvariance == BufferSpec => []BufferInv
  BY BufferInitInv, BufferNextInv, PTL DEF BufferSpec

(* Every index computed by cbuffer.c is inside the vector.                 *)
THEOREM BufferTypeCorrect == BufferSpec => []BufferTypeOK
  BY BufferInvariance, PTL DEF BufferInv
-----------------------------------------------------------------------------
LEMMA SeqOfFunction ==
  ASSUME NEW n \in Nat, NEW S, NEW s \in [1 .. n -> S]
  PROVE  s \in Seq(S) /\ Len(s) = n
  OBVIOUS

\* The elements in a window of n slots from h.
Window(d, h, n) == [k \in 1 .. n |-> d[(h + k - 1) % MaxSize]]

LEMMA WindowFacts ==
  ASSUME NEW d, NEW h \in Slot, NEW n \in 0 .. MaxSize,
         \A k \in 1 .. n : At(d, h, k) \in Item
  PROVE  /\ Window(d, h, n) \in Seq(Item)
         /\ Len(Window(d, h, n)) = n
         /\ \A k \in 1 .. n : Window(d, h, n)[k] = At(d, h, k)
<1> USE CBufferAssumption DEF Slot
<1>1. ASSUME NEW k \in 1 .. n PROVE d[(h + k - 1) % MaxSize] = At(d, h, k)
  <2>1. k - 1 \in 0 .. MaxSize /\ h + (k - 1) = h + k - 1
    OBVIOUS
  <2> QED BY <2>1, ModFacts DEF At
<1>2. Window(d, h, n) = [k \in 1 .. n |-> At(d, h, k)]
  BY <1>1 DEF Window
<1>3. Window(d, h, n) \in [1 .. n -> Item]
  BY <1>2
<1>4. Window(d, h, n) \in Seq(Item) /\ Len(Window(d, h, n)) = n
  <2>1. n \in Nat
    OBVIOUS
  <2> QED BY <1>3, <2>1, SeqOfFunction
<1> QED BY <1>2, <1>4

\* Contents in this state and in the next.
LEMMA ContentsFacts ==
  BufferInv => /\ Contents \in Seq(Item)
               /\ Len(Contents) = size
               /\ \A k \in 1 .. size : Contents[k] = At(data, head, k)
<1>1. Contents = Window(data, head, size)
  BY DEF Contents, Window
<1> QED BY <1>1, WindowFacts DEF BufferInv, BufferTypeOK, NoJunk

LEMMA ContentsFactsNext ==
  BufferInv' => /\ Contents' \in Seq(Item)
                /\ Len(Contents') = size'
                /\ \A k \in 1 .. size' : Contents'[k] = At(data', head', k)
<1>1. Contents' = Window(data', head', size')
  BY DEF Contents, Window
<1> QED BY <1>1, WindowFacts DEF BufferInv, BufferTypeOK, NoJunk

\* Inserting into a full buffer drops the oldest element.
LEMMA FullStep ==
  ASSUME BufferInv, BufferInv', NEW x \in Item, InsertFull(x)
  PROVE  Contents' = Append(Tail(Contents), x)
<1> DEFINE was == Contents
           now == Contents'
           new == Append(Tail(Contents), x)
<1>1. /\ was \in Seq(Item) /\ Len(was) = size /\ size = MaxSize /\ size \in Nat \ {0}
      /\ \A k \in 1 .. size : was[k] = At(data, head, k)
      /\ now \in Seq(Item) /\ Len(now) = size
      /\ \A k \in 1 .. size : now[k] = At(data', head', k)
  BY ContentsFacts, ContentsFactsNext, CBufferAssumption DEF InsertFull
<1>2. /\ Tail(was) \in Seq(Item) /\ Len(Tail(was)) = size - 1
      /\ \A k \in 1 .. size - 1 : Tail(was)[k] = was[k + 1]
  BY <1>1, EmptySeq, HeadTailProperties
<1>3. /\ new \in Seq(Item) /\ Len(new) = size
      /\ \A k \in 1 .. size - 1 : new[k] = was[k + 1]
      /\ new[size] = x
  BY <1>1, <1>2, AppendProperties
<1>4. head' = IF head + 1 < MaxSize THEN head + 1 ELSE 0
  BY NextSlot DEF InsertFull, BufferInv, BufferTypeOK
<1>5. ASSUME NEW k \in 1 .. size PROVE now[k] = new[k]
  <2>1. CASE k = size
    <3>1. At(data', head', k) = x
      BY <2>1, <1>4, CBufferAssumption DEF InsertFull, BufferInv, BufferTypeOK, Slot, At
    <3> QED BY <1>1, <2>1, <3>1, <1>3
  <2>2. CASE k # size
    <3>1. k + 1 \in 1 .. size /\ k \in 1 .. size - 1
      BY <1>1, <2>2
    <3>2. At(data', head', k) = At(data, head, k + 1)
      BY <3>1, <1>4, CBufferAssumption DEF InsertFull, BufferInv, BufferTypeOK, Slot, At
    <3> QED BY <1>1, <3>1, <3>2, <1>3
  <2> QED BY <2>1, <2>2
<1> HIDE DEF was, now, new
<1>6. now = new
  BY <1>1, <1>3, <1>5, SeqEqual
<1> QED BY <1>6 DEF now, new

\* Inserting into a buffer with room appends.
LEMMA RoomStep ==
  ASSUME BufferInv, BufferInv', NEW x \in Item, InsertRoom(x)
  PROVE  Contents' = Append(Contents, x)
<1> DEFINE was == Contents
           now == Contents'
           new == Append(Contents, x)
<1>0. size \in Nat /\ size < MaxSize /\ size' = size + 1
  BY CBufferAssumption DEF InsertRoom, BufferInv, BufferTypeOK
<1>1. /\ was \in Seq(Item) /\ Len(was) = size /\ size \in Nat /\ size < MaxSize
      /\ \A k \in 1 .. size : was[k] = At(data, head, k)
      /\ now \in Seq(Item) /\ Len(now) = size + 1
      /\ \A k \in 1 .. size + 1 : now[k] = At(data', head', k)
  BY <1>0, ContentsFacts, ContentsFactsNext
<1>2. /\ new \in Seq(Item) /\ Len(new) = size + 1
      /\ \A k \in 1 .. size : new[k] = was[k]
      /\ new[size + 1] = x
  BY <1>1, AppendProperties
<1>3. (head + size) % MaxSize
      = IF head + size < MaxSize THEN head + size ELSE head + size - MaxSize
  BY ModFacts DEF BufferInv, BufferTypeOK
<1>4. ASSUME NEW k \in 1 .. size + 1 PROVE now[k] = new[k]
  <2>1. CASE k = size + 1
    <3>1. At(data', head', k) = x
      BY <2>1, <1>3, CBufferAssumption DEF InsertRoom, BufferInv, BufferTypeOK, Slot, At
    <3> QED BY <1>1, <2>1, <3>1, <1>2
  <2>2. CASE k # size + 1
    <3>1. k \in 1 .. size
      BY <1>1, <2>2
    <3>2. At(data', head', k) = At(data, head, k)
      BY <3>1, <1>3, CBufferAssumption DEF InsertRoom, BufferInv, BufferTypeOK, Slot, At
    <3> QED BY <1>1, <3>1, <3>2, <1>2
  <2> QED BY <2>1, <2>2
<1> HIDE DEF was, now, new
<1>5. now = new
  BY <1>1, <1>2, <1>4, SeqEqual
<1> QED BY <1>5 DEF now, new

\* Removing drops the oldest element.
LEMMA RemoveStep ==
  ASSUME BufferInv, BufferInv', Remove
  PROVE  Contents # << >> /\ Contents' = Tail(Contents)
<1> DEFINE was == Contents
           now == Contents'
           new == Tail(Contents)
<1>1. /\ was \in Seq(Item) /\ Len(was) = size /\ size \in Nat \ {0} /\ was # << >>
      /\ \A k \in 1 .. size : was[k] = At(data, head, k)
      /\ now \in Seq(Item) /\ Len(now) = size - 1
      /\ \A k \in 1 .. size - 1 : now[k] = At(data', head', k)
  BY ContentsFacts, ContentsFactsNext, EmptySeq, CBufferAssumption
  DEF Remove, BufferInv, BufferTypeOK
<1>2. /\ new \in Seq(Item) /\ Len(new) = size - 1
      /\ \A k \in 1 .. size - 1 : new[k] = was[k + 1]
  BY <1>1, HeadTailProperties
<1>3. head' = IF head + 1 < MaxSize THEN head + 1 ELSE 0
  BY NextSlot DEF Remove, BufferInv, BufferTypeOK
<1>4. ASSUME NEW k \in 1 .. size - 1 PROVE now[k] = new[k]
  <2>1. k + 1 \in 1 .. size
    BY <1>1
  <2>2. At(data', head', k) = At(data, head, k + 1)
    BY <2>1, <1>3, CBufferAssumption DEF Remove, BufferInv, BufferTypeOK, Slot, At
  <2> QED BY <1>1, <2>1, <2>2, <1>2
<1> HIDE DEF was, now, new
<1>5. now = new
  BY <1>1, <1>2, <1>4, SeqEqual
<1> QED BY <1>1, <1>5 DEF was, now, new

(* cbuffer.c implements the FIFO queue that drops its oldest element.      *)
THEOREM BufferRefinement == BufferSpec => IsFifo
<1>1. BufferInit => Fifo!Init
  <2> SUFFICES ASSUME BufferInit PROVE Fifo!Init
    OBVIOUS
  <2>1. Contents \in Seq(Item) /\ Len(Contents) = 0
    BY BufferInitInv, ContentsFacts DEF BufferInit
  <2>2. Contents = << >>
    BY <2>1, EmptySeq
  <2> QED BY <2>2 DEF BufferInit, Fifo!Init
<1>2. BufferInv /\ BufferInv' /\ [BufferNext]_bufferVars => [Fifo!Next]_<<Contents, out>>
  <2> SUFFICES ASSUME BufferInv, BufferInv', [BufferNext]_bufferVars
               PROVE  Fifo!Next \/ UNCHANGED <<Contents, out>>
    OBVIOUS
  <2>1. Contents \in Seq(Item) /\ Len(Contents) = size
    BY ContentsFacts
  <2>2. CASE UNCHANGED bufferVars
    BY <2>2 DEF bufferVars, Contents
  <2>3. ASSUME NEW x \in Item, InsertFull(x) PROVE Fifo!Next
    <3>1. Fifo!Insert(x)
      BY <2>1, <2>3, FullStep
      DEF InsertFull, Fifo!Insert, Fifo!AfterInsert, Fifo!IsFull
    <3> QED BY <3>1 DEF Fifo!Next
  <2>4. ASSUME NEW x \in Item, InsertRoom(x) PROVE Fifo!Next
    <3>1. Fifo!Insert(x)
      BY <2>1, <2>4, RoomStep
      DEF InsertRoom, Fifo!Insert, Fifo!AfterInsert, Fifo!IsFull
    <3> QED BY <3>1 DEF Fifo!Next
  <2>5. CASE Remove
    <3>1. Fifo!Remove
      BY <2>5, RemoveStep DEF Remove, Fifo!Remove, Fifo!AfterRemove, Fifo!IsEmpty
    <3> QED BY <3>1 DEF Fifo!Next
  <2>6. CASE ReadHead
    <3>1. out' = Fifo!First
      <4>1. CASE size = 0
        BY <2>1, <2>6, <4>1, EmptySeq DEF ReadHead, Fifo!First, Fifo!IsEmpty
      <4>2. CASE size # 0
        <5>1. Contents # << >> /\ Head(Contents) = Contents[1] /\ 1 \in 1 .. size
          BY <2>1, <4>2, EmptySeq DEF BufferInv, BufferTypeOK
        <5>2. Contents[1] = data[head]
          BY <5>1, ContentsFacts, CBufferAssumption DEF At, BufferInv, BufferTypeOK, Slot
        <5> QED BY <2>6, <4>2, <5>1, <5>2 DEF ReadHead, Fifo!First, Fifo!IsEmpty
      <4> QED BY <4>1, <4>2
    <3>2. Contents' = Contents
      BY <2>6 DEF ReadHead, Contents
    <3>3. Fifo!ReadHead
      BY <3>1, <3>2 DEF Fifo!ReadHead
    <3> QED BY <3>3 DEF Fifo!Next
  <2> QED BY <2>2, <2>3, <2>4, <2>5, <2>6 DEF BufferNext
<1> QED
  BY <1>1, <1>2, BufferInvariance, PTL DEF BufferSpec, IsFifo, Fifo!Spec
-----------------------------------------------------------------------------
(* sem.c *)

SleepersWait == \A t \in sleepers : pc[t] = "w_cond"

SemInv == TypeOK /\ LockInv /\ SleepersWait /\ NoLostWakeup

LEMMA SemInitInv == Init => SemInv
  BY SemAssumption
  DEF Init, SemInv, TypeOK, LockInv, SleepersWait, NoLostWakeup, PC, Holding

\* Typing, ownership of the mutex and membership of the queue are preserved.
LEMMA LockStep ==
  ASSUME TypeOK, LockInv, SleepersWait, Next
  PROVE  TypeOK' /\ LockInv' /\ SleepersWait'
<1> USE SemAssumption
    DEF TypeOK, LockInv, SleepersWait, PC, Holding, Goto, Acquire, Release
<1> SUFFICES ASSUME NEW t \in Thread,
                    WaitCall(t) \/ SignalCall(t) \/ SpuriousWakeup(t) \/ Run(t)
             PROVE  TypeOK' /\ LockInv' /\ SleepersWait'
  BY DEF Next
<1>1. CASE WaitCall(t)        BY <1>1 DEF WaitCall
<1>2. CASE SignalCall(t)      BY <1>2 DEF SignalCall
<1>3. CASE SpuriousWakeup(t)  BY <1>3 DEF SpuriousWakeup
<1>4. CASE WaitLock(t)        BY <1>4 DEF WaitLock
<1>5. CASE WaitSleep(t)       BY <1>5 DEF WaitSleep
<1>6. CASE WaitRelock(t)      BY <1>6 DEF WaitRelock
<1>7. CASE WaitTake(t)        BY <1>7 DEF WaitTake
<1>8. CASE WaitUnlock(t)      BY <1>8 DEF WaitUnlock
<1>9. CASE SignalLock(t)      BY <1>9 DEF SignalLock
<1>10. CASE SignalSet(t)      BY <1>10 DEF SignalSet
<1>11. CASE SignalBroadcast(t) BY <1>11 DEF SignalBroadcast
<1>12. CASE SignalUnlock(t)   BY <1>12 DEF SignalUnlock
<1> QED
  BY <1>1, <1>2, <1>3, <1>4, <1>5, <1>6, <1>7, <1>8, <1>9, <1>10, <1>11, <1>12
  DEF Run

\* The counter goes up only in a step that leaves a broadcast to do, and a
\* thread goes to sleep only while the counter is down.
LEMMA WakeupStep ==
  ASSUME SemInv, Next
  PROVE  NoLostWakeup'
<1> USE DEF SemInv, TypeOK, LockInv, SleepersWait, NoLostWakeup, PC, Holding, Goto,
            Acquire, Release
<1> SUFFICES ASSUME NEW t \in Thread,
                    WaitCall(t) \/ SignalCall(t) \/ SpuriousWakeup(t) \/ Run(t)
             PROVE  NoLostWakeup'
  BY DEF Next
<1>1. CASE WaitCall(t)        BY <1>1 DEF WaitCall
<1>2. CASE SignalCall(t)      BY <1>2 DEF SignalCall
<1>3. CASE SpuriousWakeup(t)  BY <1>3 DEF SpuriousWakeup
<1>4. CASE WaitLock(t)        BY <1>4 DEF WaitLock
<1>5. CASE WaitSleep(t)       BY <1>5 DEF WaitSleep
<1>6. CASE WaitRelock(t)      BY <1>6 DEF WaitRelock
<1>7. CASE WaitTake(t)        BY <1>7 DEF WaitTake
<1>8. CASE WaitUnlock(t)      BY <1>8 DEF WaitUnlock
<1>9. CASE SignalLock(t)      BY <1>9 DEF SignalLock
<1>10. CASE SignalSet(t)      BY <1>10 DEF SignalSet
<1>11. CASE SignalBroadcast(t) BY <1>11 DEF SignalBroadcast
<1>12. CASE SignalUnlock(t)   BY <1>12 DEF SignalUnlock
<1> QED
  BY <1>1, <1>2, <1>3, <1>4, <1>5, <1>6, <1>7, <1>8, <1>9, <1>10, <1>11, <1>12
  DEF Run

LEMMA SemNextInv == SemInv /\ [Next]_vars => SemInv'
<1>1. CASE UNCHANGED vars
  BY <1>1 DEF SemInv, TypeOK, LockInv, SleepersWait, NoLostWakeup, vars
<1>2. ASSUME SemInv, Next PROVE SemInv'
  BY <1>2, LockStep, WakeupStep DEF SemInv
<1> QED BY <1>1, <1>2

LEMMA SemInvariance == Spec => []SemInv
  BY SemInitInv, SemNextInv, PTL DEF Spec

(* The counter of a semaphore is 0 or 1 and its mutex has one owner,       *)
(* whatever the threads that use it do.                                    *)
THEOREM SemTypeCorrect == Spec => [](TypeOK /\ LockInv)
  BY SemInvariance, PTL DEF SemInv

(* sys_sem_signal never leaves a thread asleep over a raised counter.      *)
THEOREM NoWakeupIsLost == Spec => []NoLostWakeup
  BY SemInvariance, PTL DEF SemInv

(* When sys_sem_wait returns, every sys_sem_signal that took the mutex has *)
(* released it: client_thread may free the semaphore at once.              *)
THEOREM SafeToFree == Spec => WaitReturnsAfterSignal
<1>1. SemInv /\ [Next]_vars
      => [\A t \in Thread :
            pc[t] = "w_unlock" /\ pc'[t] = "idle"
            => \A s \in Thread : pc[s] \notin {"s_set", "s_bcast", "s_unlock"}]_vars
  BY SemAssumption DEF SemInv, TypeOK, LockInv, Holding
<1> QED BY <1>1, SemInvariance, PTL DEF Spec, WaitReturnsAfterSignal

(* sem.c implements the atomic semaphore that the other modules use.       *)
THEOREM SemRefinement == Spec => IsBinarySem
<1>1. Init => Abstract!Init
  BY DEF Init, Abstract!Init, Waiting
<1>2. SemInv /\ [Next]_vars => [Abstract!Next]_<<c, Waiting>>
  <2> SUFFICES ASSUME SemInv, [Next]_vars
               PROVE  Abstract!Next \/ UNCHANGED <<c, Waiting>>
    OBVIOUS
  <2> USE SemAssumption DEF SemInv, TypeOK, PC, Holding, Goto, Waiting
  <2>1. CASE UNCHANGED vars  BY <2>1 DEF vars
  <2> SUFFICES ASSUME NEW t \in Thread,
                      WaitCall(t) \/ SignalCall(t) \/ SpuriousWakeup(t) \/ Run(t)
               PROVE  Abstract!Next \/ UNCHANGED <<c, Waiting>>
    BY <2>1 DEF Next
  <2>2. CASE WaitCall(t)
    <3>1. Abstract!Enter(t)  BY <2>2 DEF WaitCall, Abstract!Enter
    <3> QED BY <3>1 DEF Abstract!Next
  <2>3. CASE WaitTake(t)
    <3>1. Abstract!Pass(t)  BY <2>3 DEF WaitTake, Abstract!Pass, Abstract!Down
    <3> QED BY <3>1 DEF Abstract!Next
  <2>4. CASE SignalSet(t)
    <3>1. Abstract!Signal  BY <2>4 DEF SignalSet, Abstract!Signal, Abstract!Up
    <3> QED BY <3>1 DEF Abstract!Next
  <2>5. CASE SignalCall(t)      BY <2>5 DEF SignalCall
  <2>6. CASE SpuriousWakeup(t)  BY <2>6 DEF SpuriousWakeup
  <2>7. CASE WaitLock(t)        BY <2>7 DEF WaitLock
  <2>8. CASE WaitSleep(t)       BY <2>8 DEF WaitSleep
  <2>9. CASE WaitRelock(t)      BY <2>9 DEF WaitRelock
  <2>10. CASE WaitUnlock(t)     BY <2>10 DEF WaitUnlock
  <2>11. CASE SignalLock(t)     BY <2>11 DEF SignalLock
  <2>12. CASE SignalBroadcast(t) BY <2>12 DEF SignalBroadcast
  <2>13. CASE SignalUnlock(t)   BY <2>13 DEF SignalUnlock
  <2> QED
    BY <2>2, <2>3, <2>4, <2>5, <2>6, <2>7, <2>8, <2>9, <2>10, <2>11, <2>12, <2>13
    DEF Run
<1> QED
  BY <1>1, <1>2, SemInvariance, PTL DEF Spec, IsBinarySem, Abstract!Spec
-----------------------------------------------------------------------------
(* signal_handler.c *)

OnItsWay == (IF pending = TRUE THEN 1 ELSE 0) + (IF handler = "create" THEN 1 ELSE 0)

Balance == created + OnItsWay <= sent

FinishedIsQuiet ==
    /\ thread = "exited" => handler = "out"
    /\ main = "done" => thread = "exited"
    /\ thread \in {"unmask", "install"} => handler = "out"

HandlerInv ==
    HandlerTypeOK /\ HandlerLockInv /\ SleeperIsPaused /\ Balance /\ FinishedIsQuiet

LEMMA HandlerInitInv == HandlerInit => HandlerInv
<1> SUFFICES ASSUME HandlerInit PROVE HandlerInv
  OBVIOUS
<1> USE SignalHandlerAssumption DEF HandlerInit
<1>0. /\ pending \in BOOLEAN /\ killed \in BOOLEAN
      /\ finish_thread \in BOOLEAN /\ sleeping \in BOOLEAN
  BY Zenon
<1>1. HandlerTypeOK
  BY <1>0 DEF HandlerTypeOK
<1>2. OnItsWay = 0
  BY DEF OnItsWay
<1>3. HandlerLockInv /\ SleeperIsPaused /\ FinishedIsQuiet
  BY DEF HandlerLockInv, SleeperIsPaused, FinishedIsQuiet
<1> QED BY <1>1, <1>2, <1>3 DEF HandlerInv, Balance

LEMMA HandlerNextInv == HandlerInv /\ [HandlerNext]_handlerVars => HandlerInv'
<1> SUFFICES ASSUME HandlerInv, [HandlerNext]_handlerVars PROVE HandlerInv'
  OBVIOUS
<1> USE SignalHandlerAssumption
    DEF HandlerInv, HandlerTypeOK, HandlerLockInv, SleeperIsPaused, Balance, OnItsWay,
        FinishedIsQuiet, SignalVars, TakeLock, DropLock, Resume
<1>1. CASE UNCHANGED handlerVars  BY <1>1 DEF handlerVars
<1>2. CASE SendUSR1        BY <1>2 DEF SendUSR1
<1>3. CASE Deliver
  <2>1. pending = TRUE
    BY <1>3 DEF Deliver, DeliverUSR1, DeliverDefault
  <2>2. CASE DeliverUSR1
    <3>1. pending' \in BOOLEAN  BY <2>2, Zenon DEF DeliverUSR1
    <3> QED BY <2>1, <2>2, <3>1 DEF DeliverUSR1
  <2>3. CASE DeliverDefault
    <3>1. pending' \in BOOLEAN /\ killed' \in BOOLEAN
      BY <2>3, Zenon DEF DeliverDefault
    <3> QED BY <2>1, <2>3, <3>1 DEF DeliverDefault
  <2> QED BY <1>3, <2>2, <2>3 DEF Deliver
<1>4. CASE HandlerStep
  <2>1. CASE CreateClient   BY <2>1 DEF CreateClient, HandlerGoes
  <2>2. CASE HandlerLock    BY <2>2 DEF HandlerLock, HandlerGoes
  <2>3. CASE HandlerResume  BY <2>3 DEF HandlerResume, HandlerGoes
  <2>4. CASE HandlerReturn  BY <2>4 DEF HandlerReturn, HandlerGoes
  <2> QED BY <1>4, <2>1, <2>2, <2>3, <2>4 DEF HandlerStep
<1>5. CASE ThreadStep
  <2>1. CASE Unmask      BY <2>1 DEF Unmask, ThreadGoes
  <2>2. CASE Install("install", "install_INT") \/ Install("install_INT", "loop")
    BY <2>2 DEF Install, ThreadGoes
  <2>3. CASE LoopTest    BY <2>3 DEF LoopTest, ThreadGoes
  <2>4. CASE PauseSet    BY <2>4 DEF PauseSet, ThreadGoes
  <2>5. CASE PauseLock   BY <2>5 DEF PauseLock, ThreadGoes
  <2>6. CASE PauseSleep  BY <2>6 DEF PauseSleep, ThreadGoes
  <2>7. CASE PauseWake   BY <2>7 DEF PauseWake, ThreadGoes
  <2>8. CASE PauseOver   BY <2>8 DEF PauseOver, ThreadGoes
  <2>9. CASE PauseReturn BY <2>9 DEF PauseReturn, ThreadGoes
  <2> QED
    BY <1>5, <2>1, <2>2, <2>3, <2>4, <2>5, <2>6, <2>7, <2>8, <2>9 DEF ThreadStep
<1>6. CASE SpuriousWake  BY <1>6 DEF SpuriousWake, ThreadGoes
<1>7. CASE FinishSet       BY <1>7 DEF FinishSet, MainGoes
<1>8. CASE Finish
  <2>1. CASE FinishLock    BY <2>1 DEF FinishLock, MainGoes
  <2>2. CASE FinishResume  BY <2>2 DEF FinishResume, MainGoes
  <2>3. CASE FinishUnlock  BY <2>3 DEF FinishUnlock, MainGoes
  <2>4. CASE FinishJoin    BY <2>4 DEF FinishJoin, MainGoes
  <2> QED BY <1>8, <2>1, <2>2, <2>3, <2>4 DEF Finish
<1> QED BY <1>1, <1>2, <1>3, <1>4, <1>5, <1>6, <1>7, <1>8 DEF HandlerNext

LEMMA HandlerInvariance == HandlerSpec => []HandlerInv
  BY HandlerInitInv, HandlerNextInv, PTL DEF HandlerSpec

(* No client is made out of nothing, and lock has one owner.               *)
THEOREM HandlerTypeCorrect == HandlerSpec => [](HandlerTypeOK /\ HandlerLockInv)
  BY HandlerInvariance, PTL DEF HandlerInv

(* The thread never sleeps on after it was resumed.                        *)
THEOREM ResumeWakes == HandlerSpec => []SleeperIsPaused
  BY HandlerInvariance, PTL DEF HandlerInv

(* When finish_signal_handler returns, the last client has been created.   *)
THEOREM NoLateClient == HandlerSpec => NoClientAfterFinish
<1>1. HandlerInv /\ [HandlerNext]_handlerVars => [main = "done" => created' = created]_handlerVars
  <2> SUFFICES ASSUME HandlerInv, HandlerNext, main = "done" PROVE created' = created
    BY DEF handlerVars
  <2> USE DEF HandlerInv, FinishedIsQuiet, SignalVars
  <2>1. CASE HandlerStep
    BY <2>1 DEF HandlerStep, CreateClient, HandlerLock, HandlerResume, HandlerReturn,
                HandlerGoes
  <2>2. CASE ThreadStep
    BY <2>2 DEF ThreadStep, Unmask, Install, LoopTest, PauseSet, PauseLock, PauseSleep,
                PauseWake, PauseOver, PauseReturn, ThreadGoes
  <2>3. CASE SendUSR1 \/ Deliver \/ SpuriousWake
    BY <2>3 DEF SendUSR1, Deliver, DeliverUSR1, DeliverDefault, SpuriousWake, ThreadGoes
  <2>4. CASE FinishSet \/ Finish
    BY <2>4 DEF FinishSet, Finish, FinishLock, FinishResume, FinishUnlock, FinishJoin,
                MainGoes
  <2> QED BY <2>1, <2>2, <2>3, <2>4 DEF HandlerNext
<1> QED BY <1>1, HandlerInvariance, PTL DEF HandlerSpec, NoClientAfterFinish
=============================================================================

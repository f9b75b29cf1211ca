-------------------------------- MODULE Sem --------------------------------
(***************************************************************************)
(* sem.c: the binary semaphore that practica3 builds from a mutex and a    *)
(* condition variable.  A thread runs sys_sem_wait or sys_sem_signal one   *)
(* library call or one access to the counter at a time, as often as it     *)
(* likes.  The condition variable may also wake a thread for no reason.    *)
(*                                                                         *)
(* WakeToTake, UnlockBeforeBroadcast and BroadcastLost are plausible       *)
(* mistakes; they are no part of Next.                                     *)
(***************************************************************************)
EXTENDS Naturals

CONSTANTS Thread, InitialCount, NoThread

ASSUME SemAssumption ==
    /\ NoThread \notin Thread
    /\ InitialCount \in {0, 1}     \* it is a binary semaphore

VARIABLES c,         \* sem->c
          mutex,     \* the owner of sem->mutex, or NoThread
          sleepers,  \* the threads queued on sem->cond
          pc         \* where each thread is

vars == <<c, mutex, sleepers, pc>>

\* sys_sem_new
Init ==
    /\ c = InitialCount
    /\ mutex = NoThread
    /\ sleepers = {}
    /\ pc = [t \in Thread |-> "idle"]

Goto(t, from, to) == pc[t] = from /\ pc' = [pc EXCEPT ![t] = to]
Acquire(t) == mutex = NoThread /\ mutex' = t
Release    == mutex' = NoThread
-----------------------------------------------------------------------------
(* sys_sem_wait *)

WaitCall(t) == Goto(t, "idle", "w_lock") /\ UNCHANGED <<c, mutex, sleepers>>

WaitLock(t) ==
    Goto(t, "w_lock", "w_test") /\ Acquire(t) /\ UNCHANGED <<c, sleepers>>

\* pthread_cond_wait: the mutex is released as the thread is queued
WaitSleep(t) ==
    /\ c = 0
    /\ Goto(t, "w_test", "w_cond")
    /\ Release
    /\ sleepers' = sleepers \cup {t}
    /\ c' = c

SpuriousWakeup(t) ==
    t \in sleepers /\ sleepers' = sleepers \ {t} /\ UNCHANGED <<c, mutex, pc>>

WakeToTake(t) ==
    /\ t \notin sleepers
    /\ pc[t] = "w_cond"
    /\ Acquire(t)
    /\ c' = IF c > 0 THEN c - 1 ELSE 0
    /\ pc' = [pc EXCEPT ![t] = "w_unlock"]
    /\ UNCHANGED sleepers

\* A thread that was woken takes the mutex back and evaluates the loop again.
WaitRelock(t) ==
    /\ t \notin sleepers
    /\ Goto(t, "w_cond", "w_test")
    /\ Acquire(t)
    /\ UNCHANGED <<c, sleepers>>

WaitTake(t) ==
    /\ c # 0
    /\ Goto(t, "w_test", "w_unlock")
    /\ c' = c - 1
    /\ UNCHANGED <<mutex, sleepers>>

WaitUnlock(t) ==
    Goto(t, "w_unlock", "idle") /\ Release /\ UNCHANGED <<c, sleepers>>
-----------------------------------------------------------------------------
(* sys_sem_signal *)

SignalCall(t) == Goto(t, "idle", "s_lock") /\ UNCHANGED <<c, mutex, sleepers>>

SignalLock(t) ==
    Goto(t, "s_lock", "s_set") /\ Acquire(t) /\ UNCHANGED <<c, sleepers>>

UnlockBeforeBroadcast(t) ==
    Goto(t, "s_set", "s_bcast") /\ c' = 1 /\ Release /\ UNCHANGED sleepers

SignalSet(t) ==
    Goto(t, "s_set", "s_bcast") /\ c' = 1 /\ UNCHANGED <<mutex, sleepers>>

BroadcastLost(t) ==
    Goto(t, "s_bcast", "s_unlock") /\ UNCHANGED <<c, mutex, sleepers>>

SignalBroadcast(t) ==
    /\ Goto(t, "s_bcast", "s_unlock")
    /\ sleepers' = {}
    /\ UNCHANGED <<c, mutex>>

SignalUnlock(t) ==
    Goto(t, "s_unlock", "idle") /\ Release /\ UNCHANGED <<c, sleepers>>
-----------------------------------------------------------------------------
\* What a thread does once it is inside a call; a call may never be made.
Run(t) == \/ WaitLock(t) \/ WaitSleep(t) \/ WaitRelock(t)
          \/ WaitTake(t) \/ WaitUnlock(t)
          \/ SignalLock(t) \/ SignalSet(t) \/ SignalBroadcast(t)
          \/ SignalUnlock(t)

Next == \E t \in Thread : \/ WaitCall(t) \/ SignalCall(t) \/ SpuriousWakeup(t)
                          \/ Run(t)

Spec == Init /\ [][Next]_vars

\* Every thread inside a call is scheduled; nobody has to call.
FairSpec == Spec /\ \A t \in Thread : WF_vars(Run(t))
-----------------------------------------------------------------------------
Holding  == {"w_test", "w_unlock", "s_set", "s_bcast", "s_unlock"}
PC       == Holding \cup {"idle", "w_lock", "w_cond", "s_lock"}
Waiting  == {t \in Thread : pc[t] \in {"w_lock", "w_test", "w_cond"}}
Signalling == {t \in Thread : pc[t] \in {"s_lock", "s_set", "s_bcast", "s_unlock"}}

(* The counter of the "semaforo binario" is 0 or 1: no decrement takes it  *)
(* below zero and two signals do not add up.                               *)
TypeOK ==
    /\ c \in {0, 1}
    /\ mutex \in Thread \cup {NoThread}
    /\ sleepers \subseteq Thread
    /\ pc \in [Thread -> PC]

\* The mutex is held by exactly the thread that is inside a critical section.
LockInv == \A t \in Thread : pc[t] \in Holding <=> mutex = t

(* No wake-up is lost: a thread sleeps on the condition variable while the *)
(* counter is up only if the signal that raised it has not come to its     *)
(* broadcast yet (sem.c sets c, then broadcasts).                          *)
NoLostWakeup ==
    c > 0 /\ sleepers # {} => \E t \in Thread : pc[t] = "s_bcast"

(* When sys_sem_wait returns, no thread is between its lock and its unlock *)
(* in sys_sem_signal.  This is what lets client_thread free the message,   *)
(* and the op_completed in it, as soon as its wait returns: the signal of  *)
(* the server has touched the semaphore for the last time.                 *)
WaitReturnsAfterSignal ==
    [][\A t \in Thread :
         pc[t] = "w_unlock" /\ pc'[t] = "idle"
         => \A s \in Thread : pc[s] \notin {"s_set", "s_bcast", "s_unlock"}]_vars

Abstract == INSTANCE BinarySem WITH waiting <- Waiting

(* sys_sem_wait and sys_sem_signal appear to happen at one instant, the    *)
(* decrement and the assignment, and do what BinarySem says: of the        *)
(* threads that compete for a signal only one passes.                      *)
IsBinarySem == Abstract!Spec

(* While the counter is up, nobody is signalling and a thread waits, some  *)
(* thread eventually takes the counter down, or somebody signals again.    *)
SignalIsConsumed ==
    (c > 0 /\ Waiting # {} /\ Signalling = {}) ~> (c = 0 \/ Signalling # {})
=============================================================================

--------------------------- MODULE SignalHandler ---------------------------
(***************************************************************************)
(* signal_handler.c of practica3: the one thread that receives the signals *)
(* of the process.  It pauses until it is resumed, by the handler of a     *)
(* USR1, which runs on this very thread and interrupts it between any two  *)
(* of its steps, or by main, which wants the thread to finish.             *)
(*                                                                         *)
(* A pending USR1 is one bit: a second one sent before the first is        *)
(* delivered is lost, as the system does.  The handler of SIGINT only      *)
(* prints and is left out.  SleepLate, ResumeSilently, LockKept and        *)
(* JoinNobody are plausible mistakes; they are no part of Next.            *)
(***************************************************************************)
EXTENDS Naturals

CONSTANT MaxSignals      \* bound: how many USR1 are sent

ASSUME SignalHandlerAssumption == MaxSignals \in Nat

VARIABLES sent,          \* how many USR1 have been sent
          pending,       \* a USR1 is pending for the process
          created,       \* how many times the handler called create_client
          killed,        \* a USR1 was delivered with its default action
          _pause,
          finish_thread,
          lock,          \* who holds lock: "nobody", "thread", "handler", "main"
          sleeping,      \* the thread is queued on cond
          thread,        \* where signal_handler_thread is
          handler,       \* where USR1_handler is, "out" if it is not running
          main           \* where finish_signal_handler is

handlerVars == <<sent, pending, created, killed, _pause, finish_thread, lock,
                 sleeping, thread, handler, main>>

HandlerInit ==
    /\ sent = 0
    /\ pending = FALSE
    /\ created = 0
    /\ killed = FALSE
    /\ _pause = 1
    /\ finish_thread = FALSE
    /\ lock = "nobody"
    /\ sleeping = FALSE
    /\ thread = "unmask"
    /\ handler = "out"
    /\ main = "running"

TakeLock(who) == lock = "nobody" /\ lock' = who
DropLock      == lock' = "nobody"

\* The second half of my_resume: _pause=0 and pthread_cond_signal, under lock.
Resume == _pause' = 0 /\ sleeping' = FALSE

SignalVars == <<sent, pending, created, killed>>
-----------------------------------------------------------------------------
(* The system: a signal is sent, and delivered to the only thread whose    *)
(* mask is open.                                                           *)

SendUSR1 ==
    /\ ~killed
    /\ sent < MaxSignals
    /\ sent' = sent + 1
    /\ pending' = TRUE
    /\ UNCHANGED <<created, killed, _pause, finish_thread, lock, sleeping,
                   thread, handler, main>>

\* USR1 is masked while its handler runs.
DeliverUSR1 ==
    /\ ~killed /\ pending
    /\ handler = "out"
    /\ thread \notin {"unmask", "install", "exited"}
    /\ pending' = FALSE
    /\ handler' = "create"
    /\ UNCHANGED <<sent, created, killed, _pause, finish_thread, lock,
                   sleeping, thread, main>>

\* The mask is opened (line 84) before the handler is installed (line 90).
DeliverDefault ==
    /\ ~killed /\ pending
    /\ thread = "install"
    /\ killed' = TRUE
    /\ pending' = FALSE
    /\ UNCHANGED <<sent, created, _pause, finish_thread, lock, sleeping,
                   thread, handler, main>>
-----------------------------------------------------------------------------
(* USR1_handler *)

HandlerGoes(from, to) ==
    /\ ~killed
    /\ handler = from
    /\ handler' = to
    /\ UNCHANGED <<sent, pending, killed, finish_thread, thread, main>>

CreateClient ==
    /\ HandlerGoes("create", "lock")
    /\ created' = created + 1
    /\ UNCHANGED <<_pause, lock, sleeping>>

\* The handler waits for ever if it interrupted the thread with the lock.
HandlerLock ==
    /\ HandlerGoes("lock", "resume")
    /\ TakeLock("handler")
    /\ UNCHANGED <<created, _pause, sleeping>>

HandlerResume ==
    HandlerGoes("resume", "unlock") /\ Resume /\ UNCHANGED <<created, lock>>

HandlerReturn ==
    HandlerGoes("unlock", "out") /\ DropLock /\ UNCHANGED <<created, _pause, sleeping>>
-----------------------------------------------------------------------------
(* signal_handler_thread and my_pause: a step of the thread is a step of   *)
(* the process in which no handler is running on it.                       *)

ThreadGoes(from, to) ==
    /\ ~killed
    /\ handler = "out"
    /\ thread = from
    /\ thread' = to
    /\ UNCHANGED <<SignalVars, finish_thread, handler, main>>

Unmask == ThreadGoes("unmask", "install") /\ UNCHANGED <<_pause, lock, sleeping>>

\* The two sigaction.  When one fails the thread says so and returns.
Install(from, next) ==
    /\ \E to \in {next, "exited"} : ThreadGoes(from, to)
    /\ UNCHANGED <<_pause, lock, sleeping>>

LoopTest ==
    /\ ThreadGoes("loop", IF finish_thread THEN "exited" ELSE "set")
    /\ UNCHANGED <<_pause, lock, sleeping>>

\* _pause=1, before the lock is taken
PauseSet ==
    ThreadGoes("set", "lock") /\ _pause' = 1 /\ UNCHANGED <<lock, sleeping>>

PauseLock ==
    ThreadGoes("lock", "test") /\ TakeLock("thread") /\ UNCHANGED <<_pause, sleeping>>

SleepLate ==
    /\ ThreadGoes("test", "cond")
    /\ sleeping' = TRUE
    /\ DropLock
    /\ UNCHANGED _pause

PauseSleep ==
    /\ _pause = 1
    /\ ThreadGoes("test", "cond")
    /\ sleeping' = TRUE
    /\ DropLock
    /\ UNCHANGED _pause

SpuriousWake ==
    /\ sleeping
    /\ ThreadGoes("cond", "cond")
    /\ sleeping' = FALSE
    /\ UNCHANGED <<_pause, lock>>

PauseWake ==
    /\ ~sleeping
    /\ ThreadGoes("cond", "test")
    /\ TakeLock("thread")
    /\ UNCHANGED <<_pause, sleeping>>

PauseOver ==
    /\ _pause = 0
    /\ ThreadGoes("test", "unlock")
    /\ UNCHANGED <<_pause, lock, sleeping>>

PauseReturn ==
    ThreadGoes("unlock", "loop") /\ DropLock /\ UNCHANGED <<_pause, sleeping>>
-----------------------------------------------------------------------------
(* finish_signal_handler, called by main at the end of the program *)

MainGoes(from, to) ==
    /\ ~killed
    /\ main = from
    /\ main' = to
    /\ UNCHANGED <<SignalVars, thread, handler>>

FinishSet ==
    /\ MainGoes("running", "lock")
    /\ finish_thread' = TRUE
    /\ UNCHANGED <<_pause, lock, sleeping>>

FinishLock ==
    /\ MainGoes("lock", "resume")
    /\ TakeLock("main")
    /\ UNCHANGED <<_pause, finish_thread, sleeping>>

ResumeSilently ==
    /\ MainGoes("resume", "unlock")
    /\ _pause' = 0
    /\ UNCHANGED <<finish_thread, lock, sleeping>>

FinishResume ==
    MainGoes("resume", "unlock") /\ Resume /\ UNCHANGED <<finish_thread, lock>>

LockKept ==
    MainGoes("unlock", "join") /\ UNCHANGED <<_pause, finish_thread, lock, sleeping>>

FinishUnlock ==
    MainGoes("unlock", "join") /\ DropLock /\ UNCHANGED <<_pause, finish_thread, sleeping>>

JoinNobody ==
    MainGoes("join", "done") /\ UNCHANGED <<_pause, finish_thread, lock, sleeping>>

\* pthread_join
FinishJoin ==
    /\ thread = "exited"
    /\ MainGoes("join", "done")
    /\ UNCHANGED <<_pause, finish_thread, lock, sleeping>>
-----------------------------------------------------------------------------
Deliver     == DeliverUSR1 \/ DeliverDefault
HandlerStep == CreateClient \/ HandlerLock \/ HandlerResume \/ HandlerReturn
ThreadStep  == \/ Unmask \/ Install("install", "install_INT") \/ Install("install_INT", "loop")
               \/ LoopTest \/ PauseSet \/ PauseLock \/ PauseSleep
               \/ PauseWake \/ PauseOver \/ PauseReturn
Finish      == FinishLock \/ FinishResume \/ FinishUnlock \/ FinishJoin

HandlerNext ==
    \/ SendUSR1 \/ Deliver \/ HandlerStep \/ ThreadStep \/ SpuriousWake
    \/ FinishSet \/ Finish

HandlerSpec == HandlerInit /\ [][HandlerNext]_handlerVars

\* A pending signal is delivered and every thread is scheduled; the user need
\* not send a signal or end the program.  The thread may be woken for no
\* reason for ever, without keeping main out of the lock for ever.
FairHandlerSpec ==
    /\ HandlerSpec
    /\ WF_handlerVars(Deliver) /\ WF_handlerVars(HandlerStep)
    /\ WF_handlerVars(ThreadStep) /\ WF_handlerVars(Finish)
    /\ SF_handlerVars(FinishLock)
-----------------------------------------------------------------------------
HandlerTypeOK ==
    /\ sent \in 0 .. MaxSignals
    /\ created \in 0 .. sent
    /\ pending \in BOOLEAN /\ killed \in BOOLEAN
    /\ finish_thread \in BOOLEAN /\ sleeping \in BOOLEAN
    /\ _pause \in {0, 1}
    /\ lock \in {"nobody", "thread", "handler", "main"}
    /\ thread \in {"unmask", "install", "install_INT", "loop", "set", "lock", "test",
                   "cond", "unlock", "exited"}
    /\ handler \in {"out", "create", "lock", "resume", "unlock"}
    /\ main \in {"running", "lock", "resume", "unlock", "join", "done"}

\* lock is held by exactly the code that is between its lock and its unlock.
HandlerLockInv ==
    /\ lock = "thread"  <=> thread \in {"test", "unlock"}
    /\ lock = "handler" <=> handler \in {"resume", "unlock"}
    /\ lock = "main"    <=> main \in {"resume", "unlock"}

(* The thread is never asleep after it was resumed: _pause is 1 whenever   *)
(* it is queued on the condition variable.  The write of _pause outside    *)
(* the lock (line 26) does not break this.                                 *)
SleeperIsPaused == sleeping => _pause = 1 /\ thread = "cond"

(* Once finish_signal_handler has returned, main frees the mailbox: no     *)
(* USR1 makes a client from then on.                                       *)
NoClientAfterFinish == [][main = "done" => created' = created]_handlerVars

\* The resume of main came before the thread set _pause for its last sleep.
ResumeUndone == main = "join" /\ _pause = 1 /\ thread \in {"lock", "test", "cond"}

\* The handler wants the lock that the code it interrupted holds.
LockedByItself == handler = "lock" /\ lock = "thread"

(* finish_signal_handler returns, and with it main, but for two accidents  *)
(* of the handler thread (main.c:239, signal_handler.c:17): my_pause sets  *)
(* _pause after the resume, or a USR1 finds the lock in the hands of its   *)
(* own thread.                                                             *)
FinishEndsUnless ==
    main = "lock" ~> main = "done" \/ ResumeUndone \/ LockedByItself \/ killed

(* A handler of USR1 blocks on nothing but the lock of its own thread.     *)
HandlerEndsUnless == handler = "lock" ~> handler = "out" \/ LockedByItself
=============================================================================

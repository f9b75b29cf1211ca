------------------------------- MODULE Sched -------------------------------
(***************************************************************************)
(* schedsim, sched.c: one thread per simulated CPU.  In every step of the  *)
(* simulation a CPU charges a tick to its current task, wakes the tasks    *)
(* whose time has come, balances the load with the other CPUs, selects the *)
(* next task, and meets the others twice at a barrier.  Code under the     *)
(* lock of one run queue is one action; the balancer, which reads the      *)
(* other queues without a lock and takes a second one, is split at every   *)
(* read and every lock.                                                    *)
(*                                                                         *)
(* The scheduling class of the repository is an empty stub: here a run     *)
(* queue is a set, any of its tasks may be picked or stolen, and the class *)
(* may ask for a reschedule at any tick.  The barrier is that of pthread.  *)
(* Log files, statistics and the times of the idle tasks are left out.     *)
(* A simulation of one CPU skips the barrier, and counts the same.         *)
(*                                                                         *)
(* Definitions that nothing uses are plausible mistakes, each before the   *)
(* definition it is a mistake of.                                          *)
(***************************************************************************)
EXTENDS Integers, Sequences, FiniteSets

CONSTANTS NrCpus,     \* nr_cpus
          File,       \* the input: <<start time, phase, phase, ...>> per line
          Blank,      \* a token of a line that is no number
          MaxSteps,   \* max_simulation_steps
          Period,     \* load_balancing_period
          MaxTrials,  \* max_trials of load_balance
          Idle,       \* the idle task of any CPU
          Free        \* the owner of a lock that nobody holds

CPU  == 0 .. NrCpus - 1
Task == 0 .. Len(File) - 1

\* read_task_list_from_file: the other tokens are skipped, and the phases that
\* remain are CPU and IO in turn, beginning with CPU.
Arrival(t)  == File[t + 1][1]
Phases(t)   == LET IsNumber(x) == x # Blank IN SelectSeq(Tail(File[t + 1]), IsNumber)

\* The vector for the phases of a task.  Before every token there has to be room
\* in it, which the code does not test: a longer line writes past its end.
MAX_EXEC_PHASES == 10

ASSUME PhasesFit ==
    LET IsNumber(x) == x # Blank IN
    \A t \in Task :
        Len(SelectSeq(SubSeq(File[t + 1], 2, Len(File[t + 1]) - 1), IsNumber)) < MAX_EXEC_PHASES

ASSUME SchedAssumption ==
    /\ NrCpus \in Nat \ {0} /\ MaxSteps \in Nat \ {0}
    /\ Period \in Nat \ {0} /\ MaxTrials \in Nat
    /\ Len(File) \in Nat /\ Idle \notin Task /\ Free \notin CPU
    /\ \A t \in Task : Arrival(t) \in Nat /\ Phases(t) \in Seq(Nat) \ {<<>>}

VARIABLES
    pc,         \* where the thread of each CPU is
    step,       \* simulation_step of each thread
    lock,       \* lock[c]: who holds the lock of run queue c, or Free
    rq,         \* the tasks queued on each CPU, without the current one
    cur,        \* cur_task
    nr,         \* nr_runnable
    resched,    \* need_resched
    nextLB,     \* next_load_balancing
    events,     \* sched_events: [task, timeout], soonest first
    task,       \* the task descriptors
    load,       \* load_cpus of each balancer, as far as it was read
    trials,     \* nr_trials of each balancer
    hand,       \* the task a balancer has stolen and not enqueued yet
    completed,  \* cpus_completed
    early       \* history: how often a task was found by a CPU at its first
                \* pick when another CPU had pushed it there in that step

queues == <<rq, cur, nr, resched>>
balancer == <<nextLB, load, trials, hand>>
vars == <<pc, step, lock, queues, balancer, events, task, completed, early>>

Goto(c, from, to) == pc[c] = from /\ pc' = [pc EXCEPT ![c] = to]
-----------------------------------------------------------------------------
\* insert_sched_event: sorted_insert_slist, behind the events of that time
InsertEvent(q, e) ==
    LET k == Cardinality({i \in DOMAIN q : q[i].timeout <= e.timeout})
    IN  SubSeq(q, 1, k) \o <<e>> \o SubSeq(q, k + 1, Len(q))

\* sched_start: task i of the list starts on CPU i % nr_cpus.
NewTasks(c) ==
    LET f[n \in 0 .. Len(File)] ==
            IF n = 0 THEN <<>>
            ELSE IF (n - 1) % NrCpus # c THEN f[n - 1]
            ELSE InsertEvent(f[n - 1], [task |-> n - 1, timeout |-> Arrival(n - 1)])
    IN  f[Len(File)]

\* sched_init, init_runqueue, sched_start
Init ==
    /\ pc = [c \in CPU |-> "wake"]
    /\ step = [c \in CPU |-> -1]     \* the first step has no tick
    /\ lock = [c \in CPU |-> Free]
    /\ rq = [c \in CPU |-> {}]
    /\ cur = [c \in CPU |-> Idle]
    /\ nr = [c \in CPU |-> 0]
    /\ resched = [c \in CPU |-> FALSE]
    /\ nextLB = [c \in CPU |-> c % NrCpus]
    /\ events = [c \in CPU |-> NewTasks(c)]
    /\ task = [t \in Task |-> [state |-> "new", phase |-> 1, left |-> 0,
                               since |-> 0, real |-> 0, cpu |-> t % NrCpus]]
    /\ load = [c \in CPU |-> <<>>]
    /\ trials = [c \in CPU |-> 0]
    /\ hand = [c \in CPU |-> Idle]
    /\ completed = 0
    /\ early = [t \in Task |-> 0]
-----------------------------------------------------------------------------
(* process_sched_events, for the step that follows; step is -1 before the  *)
(* loop of sched_cpu, whose first call is for step 0.                      *)

Due(c) == events[c] # <<>> /\ Head(events[c]).timeout = step[c] + 1

LastPhase(t) == task[t].phase >= Len(Phases(t))

\* Enqueued for the first time, or awake: NEW_TASK and TASK_AWAKEN both
\* enqueue the task if another CPU phase is left.
Wake(c) ==
    /\ pc[c] = "wake" /\ Due(c)
    /\ LET t == Head(events[c]).task
           k == IF task[t].state = "new" THEN 1 ELSE task[t].phase + 1
       IN  IF k > Len(Phases(t))
           THEN /\ task' = [task EXCEPT ![t].state = "completed", ![t].phase = k]
                /\ UNCHANGED <<rq, nr>>
           ELSE /\ lock[c] = Free
                /\ task' = [task EXCEPT ![t].state = "runnable", ![t].phase = k,
                                        ![t].left = Phases(t)[k],
                                        ![t].since = step[c] + 1]
                /\ rq' = [rq EXCEPT ![c] = @ \cup {t}]
                /\ nr' = [nr EXCEPT ![c] = @ + 1]
    /\ events' = [events EXCEPT ![c] = Tail(@)]
    /\ UNCHANGED <<pc, step, lock, cur, resched, balancer, completed, early>>

WakeAtMostOne(c) ==
    /\ Goto(c, "wake", IF step[c] = -1 THEN "first" ELSE "balance")
    /\ UNCHANGED <<step, lock, queues, balancer, events, task, completed, early>>

WakeDone(c) ==
    /\ ~Due(c)
    /\ Goto(c, "wake", IF step[c] = -1 THEN "first" ELSE "balance")
    /\ UNCHANGED <<step, lock, queues, balancer, events, task, completed, early>>
-----------------------------------------------------------------------------
\* The condition of the loop of sched_cpu, after simulation_step++.
LoopTest(c) ==
    /\ step' = [step EXCEPT ![c] = @ + 1]
    /\ pc' = [pc EXCEPT ![c] =
                IF completed < NrCpus /\ step[c] + 1 < MaxSteps THEN "tick" ELSE "done"]

\* sched_cpu: the first task of the CPU
FirstPick(c) ==
    /\ pc[c] = "first" /\ lock[c] = Free
    /\ \/ rq[c] = {} /\ UNCHANGED <<rq, cur, task, early>>
       \/ \E t \in rq[c] :
            /\ rq' = [rq EXCEPT ![c] = @ \ {t}]
            /\ cur' = [cur EXCEPT ![c] = t]
            /\ task' = [task EXCEPT ![t].state = "onproc"]
            /\ early' = [early EXCEPT ![t] = @ + task[t].since]
    /\ LoopTest(c)
    /\ UNCHANGED <<lock, nr, resched, balancer, events, completed>>

ResetAfterTest(c) ==
    /\ pc[c] = "next" /\ LoopTest(c)
    /\ completed' = IF c = 0 THEN 0 ELSE completed
    /\ UNCHANGED <<lock, queues, balancer, events, task, early>>

Continue(c) ==
    /\ pc[c] = "next" /\ LoopTest(c)
    /\ UNCHANGED <<lock, queues, balancer, events, task, completed, early>>

\* put_task_to_sleep: the event goes on the list of the task's last CPU.
SleepUntil(tk, t, timeout) ==
    events' = [events EXCEPT ![tk.cpu] = InsertEvent(@, [task |-> t, timeout |-> timeout])]

\* The current task is charged a tick on CPU c.
Charged(c, t) == [task[t] EXCEPT !.left = @ - 1, !.real = @ + 1, !.cpu = c]

\* scheduler_tick.  The class counts the task out as its CPU phase ends.
Tick(c) ==
    /\ Goto(c, "tick", "wake") /\ lock[c] = Free
    /\ LET t  == cur[c]
           tk == Charged(c, t)
           io == Phases(t)[tk.phase + 1]
       IN  \/ t = Idle /\ UNCHANGED <<nr, resched, events, task>>
           \/ /\ t # Idle /\ tk.left # 0
              /\ task' = [task EXCEPT ![t] = tk]
              /\ \E ask \in BOOLEAN : resched' = [resched EXCEPT ![c] = @ \/ ask]
              /\ UNCHANGED <<nr, events>>
           \/ /\ t # Idle /\ tk.left = 0
              /\ resched' = [resched EXCEPT ![c] = TRUE]
              /\ nr' = [nr EXCEPT ![c] = @ - 1]
              /\ IF tk.phase = Len(Phases(t))
                 THEN /\ task' = [task EXCEPT ![t] =
                            [tk EXCEPT !.phase = @ + 1, !.state = "completed"]]
                      /\ UNCHANGED events
                 ELSE /\ task' = [task EXCEPT ![t] =
                            [tk EXCEPT !.phase = @ + 1, !.state = "sleep", !.real = @ + io]]
                      /\ SleepUntil(tk, t, step[c] + io + 1)
    /\ UNCHANGED <<step, lock, rq, cur, balancer, completed, early>>
-----------------------------------------------------------------------------
(* load_balance *)

\* It is time to balance when the period has passed, or when the CPU is idle.
BalanceBegin(c) ==
    /\ pc[c] = "balance" /\ lock[c] = Free
    /\ nextLB' = [nextLB EXCEPT ![c] = IF nr[c] = 0 THEN step[c] ELSE @]
    /\ IF NrCpus = 1 \/ nextLB'[c] # step[c]
       THEN /\ pc' = [pc EXCEPT ![c] = "schedule"]
            /\ UNCHANGED lock
       ELSE /\ pc' = [pc EXCEPT ![c] = "trial"]
            /\ lock' = [lock EXCEPT ![c] = c]
    /\ UNCHANGED <<step, queues, load, trials, hand, events, task, completed, early>>

\* The load of one CPU, read without its lock
ReadLoad(c) ==
    /\ pc[c] = "trial" /\ trials[c] < MaxTrials /\ Len(load[c]) < NrCpus
    /\ load' = [load EXCEPT ![c] = Append(@, nr[Len(@)])]
    /\ UNCHANGED <<pc, step, lock, queues, nextLB, trials, hand, events, task,
                   completed, early>>

\* The greatest and the least of the loads l, and the first CPU of load x
Loads(l)   == {l[i] : i \in DOMAIN l}
MaxLoad(l) == CHOOSE x \in Loads(l) : \A y \in Loads(l) : y <= x
MinLoad(l) == CHOOSE x \in Loads(l) : \A y \in Loads(l) : x <= y
FirstWith(l, x) ==
    CHOOSE d \in CPU : l[d + 1] = x /\ \A e \in 0 .. d - 1 : l[e + 1] # x

Decided(c)  == pc[c] = "trial" /\ Len(load[c]) = NrCpus
Balanced(c) == MaxLoad(load[c]) - MinLoad(load[c]) <= 1
Pushes(c)   == load[c][c + 1] = MaxLoad(load[c])   \* else it may pull
Remote(c)   == FirstWith(load[c], IF Pushes(c) THEN MinLoad(load[c]) ELSE MaxLoad(load[c]))
AtAnEnd(c)  == load[c][c + 1] \in {MaxLoad(load[c]), MinLoad(load[c])}
Source(c)   == IF Pushes(c) THEN c ELSE Remote(c)
Target(c)   == IF Pushes(c) THEN Remote(c) ELSE c

\* The loads differ by more than one, and this CPU is not one of the two.
SkipTrial(c) ==
    /\ Decided(c) /\ ~Balanced(c) /\ ~AtAnEnd(c)
    /\ trials' = [trials EXCEPT ![c] = @ + 1]
    /\ load' = [load EXCEPT ![c] = <<>>]
    /\ UNCHANGED <<pc, step, lock, queues, nextLB, hand, events, task, completed, early>>

DoubleLockHolding(c) ==
    /\ Decided(c) /\ ~Balanced(c) /\ AtAnEnd(c)
    /\ pc' = [pc EXCEPT ![c] = "lockRemote"]
    /\ UNCHANGED <<step, lock, queues, balancer, events, task, completed, early>>

\* double_lock_rq: the lock of this run queue is given up if the other one
\* comes before it in the locking order.
DoubleLock(c) ==
    /\ Decided(c) /\ ~Balanced(c) /\ AtAnEnd(c)
    /\ pc' = [pc EXCEPT ![c] = "lockRemote"]
    /\ lock' = [lock EXCEPT ![c] = IF c > Remote(c) THEN c ELSE Free]
    /\ UNCHANGED <<step, queues, balancer, events, task, completed, early>>

LockRemote(c) ==
    /\ Goto(c, "lockRemote", IF c > Remote(c) THEN "move" ELSE "lockThis")
    /\ lock[Remote(c)] = Free
    /\ lock' = [lock EXCEPT ![Remote(c)] = c]
    /\ UNCHANGED <<step, queues, balancer, events, task, completed, early>>

LockThisAtOnce(c) ==
    /\ Goto(c, "lockThis", "move")
    /\ lock' = [lock EXCEPT ![c] = c]
    /\ UNCHANGED <<step, queues, balancer, events, task, completed, early>>

LockThis(c) ==
    /\ Goto(c, "lockThis", "move")
    /\ lock[c] = Free
    /\ lock' = [lock EXCEPT ![c] = c]
    /\ UNCHANGED <<step, queues, balancer, events, task, completed, early>>

\* The end of a trial: the lock of the other CPU is released.
EndTrial(c) ==
    /\ pc' = [pc EXCEPT ![c] = "trial"]
    /\ lock' = [lock EXCEPT ![Remote(c)] = Free]
    /\ trials' = [trials EXCEPT ![c] = @ + 1]
    /\ load' = [load EXCEPT ![c] = <<>>]

TrustTheLoads(c) == TRUE
AtLeastOne(c)    == nr[Source(c)] - nr[Target(c)] >= 1

\* With both locks held: is the imbalance still there?
Improves(c) == nr[Source(c)] - nr[Target(c)] > 1

NoMove(c) ==
    /\ pc[c] = "move" /\ ~Improves(c)
    /\ EndTrial(c)
    /\ UNCHANGED <<step, queues, nextLB, hand, events, task, completed, early>>

\* move_one_task: steal_task takes any queued task of the source ...
Steal(c) ==
    /\ Goto(c, "move", "give") /\ Improves(c)
    /\ \E t \in rq[Source(c)] :
         /\ rq' = [rq EXCEPT ![Source(c)] = @ \ {t}]
         /\ hand' = [hand EXCEPT ![c] = t]
    /\ nr' = [nr EXCEPT ![Source(c)] = @ - 1]
    /\ UNCHANGED <<step, lock, cur, resched, nextLB, load, trials, events, task,
                   completed, early>>

GiveUncharged(c, t) == [task[t] EXCEPT !.since = step[c] + 1]

\* The time it has waited is charged, and it waits from the next step on.
Moved(c, t) ==
    [task[t] EXCEPT !.real = @ + (step[c] - task[t].since + 1), !.since = step[c] + 1]

\* ... and it is enqueued on the target.
Give(c) ==
    /\ pc[c] = "give"
    /\ LET t == hand[c] IN
         /\ rq' = [rq EXCEPT ![Target(c)] = @ \cup {t}]
         /\ task' = [task EXCEPT ![t] = Moved(c, t)]
    /\ nr' = [nr EXCEPT ![Target(c)] = @ + 1]
    /\ hand' = [hand EXCEPT ![c] = Idle]
    /\ EndTrial(c)
    /\ UNCHANGED <<step, cur, resched, nextLB, events, completed, early>>

KeepDate(c) == nextLB[c]

NextDate(c) == nextLB[c] + Period

BalanceEnd(c) ==
    /\ Goto(c, "trial", "schedule")
    /\ trials[c] = MaxTrials \/ (Decided(c) /\ Balanced(c))
    /\ nextLB' = [nextLB EXCEPT ![c] = NextDate(c)]
    /\ lock' = [lock EXCEPT ![c] = Free]
    /\ trials' = [trials EXCEPT ![c] = 0]
    /\ load' = [load EXCEPT ![c] = <<>>]
    /\ UNCHANGED <<step, queues, hand, events, task, completed, early>>
-----------------------------------------------------------------------------
(* schedule *)

\* What pick_next_task may choose from: the queue, and the current task, which
\* is put back first if it still runs.
PutBackAny(c) == rq[c] \cup ({cur[c]} \ {Idle})

PutBack(c) ==
    rq[c] \cup {t \in {cur[c]} \ {Idle} : task[t].state = "onproc"}

\* The states and times of the two tasks of a context switch
Switched(c, prev, next) ==
    [t \in Task |->
        IF prev = next \/ t \notin {prev, next} THEN task[t]
        ELSE IF t = next
        THEN [task[t] EXCEPT !.state = "onproc",
                             !.real = @ + (step[c] - task[t].since + 1)]
        ELSE IF task[t].state = "onproc"
        THEN [task[t] EXCEPT !.state = "runnable", !.since = step[c] + 1]
        ELSE task[t]]

Schedule(c) ==
    /\ Goto(c, "schedule", "sync") /\ lock[c] = Free
    /\ IF resched[c] \/ cur[c] = Idle
       THEN \E next \in (IF PutBack(c) = {} THEN {Idle} ELSE PutBack(c)) :
              /\ rq' = [rq EXCEPT ![c] = PutBack(c) \ {next}]
              /\ cur' = [cur EXCEPT ![c] = next]
              /\ task' = Switched(c, cur[c], next)
       ELSE UNCHANGED <<rq, cur, task>>
    /\ resched' = [resched EXCEPT ![c] = FALSE]
    /\ UNCHANGED <<step, lock, nr, balancer, events, completed, early>>
-----------------------------------------------------------------------------
(* synchronize_cpus *)

\* sys_barrier_wait, pthread_barrier_wait in the build: the last CPU to arrive lets all of them go.
Barrier(c, from, inside, to) ==
    /\ pc[c] = from
    /\ pc' = IF \A d \in CPU \ {c} : pc[d] = inside
             THEN [d \in CPU |-> to]
             ELSE [pc EXCEPT ![c] = inside]

\* CPU 0 resets the count before the first barrier.
FirstBarrier(c) ==
    /\ Barrier(c, "sync", "sync_in", "count")
    /\ completed' = IF c = 0 THEN 0 ELSE completed
    /\ UNCHANGED <<step, lock, queues, balancer, events, task, early>>

QueueIsEmpty(c) == nr[c] = 0

CpuHasCompleted(c) == nr[c] = 0 /\ events[c] = <<>>

Count(c) ==
    /\ Goto(c, "count", "counted")
    /\ completed' = IF CpuHasCompleted(c) THEN completed + 1 ELSE completed
    /\ UNCHANGED <<step, lock, queues, balancer, events, task, early>>

SecondBarrier(c) ==
    /\ Barrier(c, "counted", "counted_in", "next")
    /\ UNCHANGED <<step, lock, queues, balancer, events, task, completed, early>>
-----------------------------------------------------------------------------
Run(c) == \/ Wake(c) \/ WakeDone(c) \/ FirstPick(c) \/ Continue(c) \/ Tick(c)
          \/ BalanceBegin(c) \/ ReadLoad(c) \/ SkipTrial(c) \/ DoubleLock(c)
          \/ LockRemote(c) \/ LockThis(c) \/ NoMove(c) \/ Steal(c) \/ Give(c)
          \/ BalanceEnd(c) \/ Schedule(c)
          \/ FirstBarrier(c) \/ Count(c) \/ SecondBarrier(c)

Next == \E c \in CPU : Run(c)

\* Every thread is scheduled, and takes a lock that stays free.
Spec == Init /\ [][Next]_vars /\ \A c \in CPU : WF_vars(Run(c))
-----------------------------------------------------------------------------
Balancing == {"trial", "lockRemote", "lockThis", "move", "give"}

TypeOK ==
    /\ pc \in [CPU -> Balancing \cup {"wake", "first", "tick", "balance", "schedule",
                  "sync", "sync_in", "count", "counted", "counted_in", "next", "done"}]
    /\ step \in [CPU -> -1 .. MaxSteps]
    /\ lock \in [CPU -> CPU \cup {Free}]
    /\ rq \in [CPU -> SUBSET Task]
    /\ cur \in [CPU -> Task \cup {Idle}]
    /\ nr \in [CPU -> Nat]
    /\ resched \in [CPU -> BOOLEAN]
    /\ nextLB \in [CPU -> Nat]
    /\ events \in [CPU -> Seq([task : Task, timeout : Nat])]
    /\ task \in [Task -> [state : {"new", "runnable", "onproc", "sleep", "completed"},
                          phase : Nat, left : Int, since : Nat, real : Int, cpu : CPU]]
    /\ load \in [CPU -> Seq(Nat)]
    /\ trials \in [CPU -> 0 .. MaxTrials]
    /\ hand \in [CPU -> Task \cup {Idle}]
    /\ completed \in 0 .. NrCpus
    /\ early \in [Task -> Nat]

(* The locks a balancer holds are those the code between lock and unlock   *)
(* relies on: both of them while it retests the loads and moves a task,    *)
(* its own while it reads the loads, and never both in the wrong order.    *)
LockInv == \A c \in CPU :
    /\ pc[c] \in {"trial", "move", "give"} => lock[c] = c
    /\ pc[c] \in {"move", "give"} => lock[Remote(c)] = c
    /\ pc[c] = "lockRemote" => (lock[c] = c <=> c > Remote(c))
    /\ pc[c] = "lockThis" => lock[Remote(c)] = c
    /\ pc[c] \notin Balancing => \A d \in CPU : lock[d] # c

(* A task is always in one place, the one its state says: in one list of   *)
(* events before it starts and while it sleeps, queued on one CPU or in    *)
(* the hands of one balancer while it is runnable, current on one CPU      *)
(* while it runs.                                                          *)
OnePlace == \A t \in Task :
    LET waits  == {c \in CPU : \E i \in DOMAIN events[c] : events[c][i].task = t}
        queued == {c \in CPU : t \in rq[c]}
        held   == {c \in CPU : hand[c] = t}
        runs   == {c \in CPU : cur[c] = t /\ task[t].state = "onproc"}
        one    == [new |-> waits, sleep |-> waits, onproc |-> runs,
                   runnable |-> queued \cup held, completed |-> {}]
    IN  /\ Cardinality(waits) + Cardinality(queued) + Cardinality(held)
               + Cardinality(runs) = Cardinality(one[task[t].state])
        /\ task[t].state # "completed" => Cardinality(one[task[t].state]) = 1

(* nr_runnable, by which the balancer decides and the simulation ends, is  *)
(* the number of tasks the CPU has to run: the queued ones and the current *)
(* one, as long as it has not finished its CPU phase.                      *)
LoadIsCount == \A c \in CPU :
    nr[c] = Cardinality(rq[c])
              + (IF cur[c] # Idle /\ task[cur[c]].state = "onproc" THEN 1 ELSE 0)

(* move_one_task uses what steal_task returns without a test: there is a   *)
(* task to steal, although nr_runnable also counts the current task, which *)
(* cannot be stolen, and the loads are only compared.                      *)
StealFinds == \A c \in CPU :
    pc[c] = "move" /\ Improves(c) => rq[Source(c)] # {}

(* Under the locks the code takes, no task is lost, doubled or miscounted  *)
(* by the CPUs that hand it around, at any point of a balancing.           *)
Consistent == TypeOK /\ LockInv /\ OnePlace /\ LoadIsCount /\ StealFinds

(* No wake-up is late: an event is looked for only in its very step, and   *)
(* only at the head of the list, so one whose step has passed would block  *)
(* the list for ever.                                                      *)
NoEventMissed == \A c \in CPU : \A i \in DOMAIN events[c] :
    /\ events[c][i].timeout >= step[c] + 1
    /\ pc[c] \notin {"wake", "tick", "done"} =>
           events[c][i].timeout > step[c] + 1

(* A date of balancing is met or ahead: one that has passed would never    *)
(* equal the step again, and a CPU that is never idle would not balance.   *)
DateAhead == \A c \in CPU : pc[c] # "done" =>
    nextLB[c] >= step[c] + (IF pc[c] \in {"schedule", "sync", "sync_in", "count",
                                          "counted", "counted_in", "next"} THEN 1 ELSE 0)

(* Neither an event nor a date of balancing is ever left behind by the     *)
(* clock of its CPU.                                                       *)
NothingOverdue == NoEventMissed /\ (NrCpus > 1 => DateAhead)

(* The step the clock of a CPU shows to its current task *)
Now(c) == IF pc[c] \in {"tick", "done"} THEN step[c] ELSE step[c] + 1

(* real_time is the time since the task entered the system, at any moment: *)
(* up to when it was enqueued, when it wakes up, or now.  The one error is *)
(* a tick too many each time it was pushed to a CPU before its thread made *)
(* its first pick: it waits and runs in step 0, since the threads are not  *)
(* held at a barrier before they start.                                    *)
TimesAddUp == \A t \in Task :
    /\ task[t].state = "runnable" =>
           task[t].real = task[t].since - Arrival(t) + early[t]
    /\ \A c \in CPU : cur[c] = t /\ task[t].state = "onproc" =>
           task[t].real = Now(c) - Arrival(t) + early[t]
    /\ \A c \in CPU : \A i \in DOMAIN events[c] :
           events[c][i].task = t /\ task[t].state = "sleep" =>
               task[t].real = events[c][i].timeout - Arrival(t) + early[t]

(* The threads agree on the end: once one of them has left the loop, no    *)
(* other will go back to the barrier, where it would wait for ever.        *)
AllStopTogether ==
    (\E c \in CPU : pc[c] = "done") =>
        \A d \in CPU : \/ pc[d] = "done"
                       \/ pc[d] \in {"first", "next"}
                          /\ (completed >= NrCpus \/ step[d] + 1 >= MaxSteps)

(* The simulation ends before its last step only when every task has run   *)
(* all its phases: none is asleep, or in the hands of a balancer, as the   *)
(* CPUs count themselves.                                                  *)
EndsDone == \A c \in CPU : pc[c] = "done" /\ step[c] < MaxSteps =>
    \A t \in Task : task[t].state = "completed"

(* A migration decided on loads read without locks, some of them old by    *)
(* now, never makes the imbalance of the two CPUs worse or turns it round. *)
MigrationHelps ==
    [][\A c \in CPU : pc[c] = "give" /\ pc'[c] = "trial" =>
          nr'[Source(c)] >= nr'[Target(c)]]_vars

(* Every simulation ends: no thread waits for ever at the barrier or for   *)
(* the lock of a run queue.                                                *)
Terminates == <>(\A c \in CPU : pc[c] = "done")
=============================================================================

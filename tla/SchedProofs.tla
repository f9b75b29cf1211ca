---------------------------- MODULE SchedProofs ----------------------------
(***************************************************************************)
(* Proofs about sched.c, for any number of CPUs and any list of tasks: the *)
(* threads agree on the step at which they stop, and balancers that hand   *)
(* tasks around lose, double and miscount none, run late for none, and     *)
(* never turn an imbalance round.                                          *)
(***************************************************************************)
EXTENDS Sched, FiniteSetTheorems, SequenceTheorems, WellFoundedInduction, TLAPS

-----------------------------------------------------------------------------
(* The rounds of the simulation.  All threads are in the same round: that  *)
(* of the step they are in, or that of the next one when they are done     *)
(* with the second barrier.  cpus_completed changes only while all of them *)
(* are between the barriers, or as CPU 0 resets it in a round that was     *)
(* entered with a smaller count than the number of CPUs.                   *)

\* Where a thread is in the body of the loop, before the first barrier ends ...
Body == Balancing \cup {"tick", "balance", "schedule", "sync", "sync_in"}

\* ... and between the barriers.
Between == {"count", "counted", "counted_in"}

Place == Body \cup Between \cup {"wake", "first", "next", "done"}

Before(c) == pc[c] \in {"first", "next"} \/ (pc[c] = "wake" /\ step[c] = -1)

Round(c) == IF Before(c) THEN step[c] + 1 ELSE step[c]

RoundTypeOK ==
    /\ pc \in [CPU -> Place]
    /\ step \in [CPU -> Int]
    /\ completed \in Int
    /\ \A c \in CPU : /\ step[c] >= -1
                      /\ step[c] = -1 => pc[c] \in {"wake", "first"}
                      /\ pc[c] = "first" => step[c] = -1

SameRound == \A c, d \in CPU :
    /\ Round(c) = Round(d)
    /\ pc[c] \in Between => pc[d] \in Between

CountInTime == \A c \in CPU :
    /\ pc[c] \in Body \cup {"wake"} /\ ~Before(c) =>
          completed < NrCpus /\ step[c] < MaxSteps
    /\ pc[c] = "done" => completed >= NrCpus \/ step[c] >= MaxSteps
    /\ step[c] = -1 => completed = 0

RoundInv == RoundTypeOK /\ SameRound /\ CountInTime

\* A step inside the body of the loop, or of the first wake-up, that neither
\* begins the body nor waits at its end
Inside(c, p, q) ==
    /\ pc[c] = p /\ pc' = [pc EXCEPT ![c] = q]
    /\ p \in Body \cup {"wake"} /\ q \in (Body \cup {"wake"}) \ {"tick", "sync_in"}
    /\ step[c] = -1 => q = "wake"
    /\ UNCHANGED <<step, completed>>

EnterLoop(c) ==
    /\ pc[c] = "wake" /\ step[c] = -1
    /\ pc' = [pc EXCEPT ![c] = "first"]
    /\ UNCHANGED <<step, completed>>

TestLoop(c) ==
    /\ pc[c] \in {"first", "next"} /\ LoopTest(c)
    /\ UNCHANGED completed

\* What a step of a CPU does to its round
LEMMA RoundSteps ==
  ASSUME RoundTypeOK, NEW c \in CPU, Run(c), NEW G,
         \A p, q : Inside(c, p, q) => G,
         EnterLoop(c) => G, TestLoop(c) => G,
         FirstBarrier(c) => G, Count(c) => G, SecondBarrier(c) => G
  PROVE  G
<1> USE DEF RoundTypeOK, Body, Balancing, Goto
<1>1. CASE Wake(c)
  <2>1. Inside(c, "wake", "wake")
    BY <1>1 DEF Wake, Inside
  <2> QED BY <2>1
<1>2. CASE WakeDone(c)
  <2>1. step[c] = -1 => EnterLoop(c)
    BY <1>2 DEF WakeDone, EnterLoop
  <2>2. step[c] # -1 => Inside(c, "wake", "balance")
    BY <1>2 DEF WakeDone, Inside
  <2> QED BY <2>1, <2>2
<1>3. CASE FirstPick(c)
  BY <1>3 DEF FirstPick, TestLoop
<1>4. CASE Continue(c)
  BY <1>4 DEF Continue, TestLoop
<1>5. CASE Tick(c)
  <2>1. Inside(c, "tick", "wake")
    BY <1>5 DEF Tick, Inside
  <2> QED BY <2>1
<1>6. CASE BalanceBegin(c)
  <2>1. Inside(c, "balance", "schedule") \/ Inside(c, "balance", "trial")
    BY <1>6 DEF BalanceBegin, Inside
  <2> QED BY <2>1
<1>7. CASE ReadLoad(c) \/ SkipTrial(c)
  <2>1. Inside(c, "trial", "trial")
    BY <1>7 DEF ReadLoad, SkipTrial, Decided, Inside
  <2> QED BY <2>1
<1>8. CASE DoubleLock(c)
  <2>1. Inside(c, "trial", "lockRemote")
    BY <1>8 DEF DoubleLock, Decided, Inside
  <2> QED BY <2>1
<1>9. CASE LockRemote(c)
  <2>1. Inside(c, "lockRemote", "move") \/ Inside(c, "lockRemote", "lockThis")
    BY <1>9 DEF LockRemote, Inside
  <2> QED BY <2>1
<1>10. CASE LockThis(c)
  <2>1. Inside(c, "lockThis", "move")
    BY <1>10 DEF LockThis, Inside
  <2> QED BY <2>1
<1>11. CASE NoMove(c)
  <2>1. Inside(c, "move", "trial")
    BY <1>11 DEF NoMove, EndTrial, Inside
  <2> QED BY <2>1
<1>12. CASE Steal(c)
  <2>1. Inside(c, "move", "give")
    BY <1>12 DEF Steal, Inside
  <2> QED BY <2>1
<1>13. CASE Give(c)
  <2>1. Inside(c, "give", "trial")
    BY <1>13 DEF Give, EndTrial, Inside
  <2> QED BY <2>1
<1>14. CASE BalanceEnd(c)
  <2>1. Inside(c, "trial", "schedule")
    BY <1>14 DEF BalanceEnd, Inside
  <2> QED BY <2>1
<1>15. CASE Schedule(c)
  <2>1. Inside(c, "schedule", "sync")
    BY <1>15 DEF Schedule, Inside
  <2> QED BY <2>1
<1> QED
  BY <1>1, <1>2, <1>3, <1>4, <1>5, <1>6, <1>7, <1>8, <1>9, <1>10, <1>11, <1>12,
     <1>13, <1>14, <1>15 DEF Run

LEMMA RoundInit == Init => RoundInv
BY SchedAssumption
DEF Init, RoundInv, RoundTypeOK, SameRound, CountInTime, Round, Before, CPU, Place,
    Body, Between, Balancing

LEMMA RoundNext == RoundInv /\ [Next]_vars => RoundInv'
<1> SUFFICES ASSUME RoundInv, [Next]_vars PROVE RoundInv'
  OBVIOUS
<1> USE SchedAssumption DEF RoundInv
<1>1. ASSUME NEW c \in CPU, Run(c) PROVE RoundInv'
  <2> USE DEF RoundTypeOK, SameRound, CountInTime, Round, Before, Place, Body,
              Between, Balancing
  <2>1. ASSUME NEW p, NEW q, Inside(c, p, q) PROVE RoundInv'
    BY <2>1 DEF Inside
  <2>2. CASE EnterLoop(c)
    BY <2>2 DEF EnterLoop
  <2>3. CASE TestLoop(c)
    BY <2>3 DEF TestLoop, LoopTest
  <2>4. CASE FirstBarrier(c)
    <3>1. /\ pc[c] = "sync" /\ step' = step
          /\ completed' = completed \/ completed' = 0
          /\ completed < NrCpus /\ 0 < NrCpus
          /\ step[c] < MaxSteps /\ step[c] >= 0 /\ Round(c) = step[c]
      BY <2>4 DEF FirstBarrier, Barrier
    <3>2. \A d \in CPU : pc[d] = "done" => completed' >= NrCpus \/ step[d] >= MaxSteps
      BY <3>1
    <3>3. CASE pc' = [pc EXCEPT ![c] = "sync_in"]
      BY <3>1, <3>2, <3>3
    <3>4. CASE pc' = [d \in CPU |-> "count"] /\ \A d \in CPU \ {c} : pc[d] = "sync_in"
      <4>1. \A d \in CPU : pc'[d] = "count" /\ step'[d] = step[d] /\ step[d] = step[c]
        BY <3>1, <3>4
      <4>2. SameRound'
        BY <4>1
      <4>3. RoundTypeOK' /\ CountInTime'
        BY <3>1, <3>4, <4>1
      <4> QED BY <4>2, <4>3
    <3> QED BY <2>4, <3>3, <3>4 DEF FirstBarrier, Barrier
  <2>5. CASE Count(c)
    BY <2>5 DEF Count, Goto
  <2>6. CASE SecondBarrier(c)
    BY <2>6 DEF SecondBarrier, Barrier
  <2> QED
    BY <1>1, <2>1, <2>2, <2>3, <2>4, <2>5, <2>6, RoundSteps
<1>2. CASE UNCHANGED vars
  BY <1>2 DEF vars, RoundTypeOK, SameRound, CountInTime, Round, Before
<1> QED
  BY <1>1, <1>2 DEF Next

(* The threads leave the loop in the same round: no thread goes back to    *)
(* the barrier once another one has left, for any number of CPUs, although *)
(* CPU 0 resets cpus_completed while others may still be on their way      *)
(* (sched.c:643-722).                                                      *)
THEOREM StopTogether == Spec => []AllStopTogether
<1>1. RoundInv => AllStopTogether
  <2> SUFFICES ASSUME RoundInv, NEW c \in CPU, pc[c] = "done", NEW d \in CPU,
                      pc[d] # "done"
               PROVE  /\ pc[d] \in {"first", "next"}
                      /\ completed >= NrCpus \/ step[d] + 1 >= MaxSteps
    BY DEF AllStopTogether
  <2> USE SchedAssumption DEF RoundInv, RoundTypeOK
  <2>1. Round(c) = step[c] /\ Round(d) = step[c] /\ pc[d] \notin Between
    BY DEF SameRound, Round, Before, Between
  <2>2. completed >= NrCpus \/ step[c] >= MaxSteps
    BY DEF CountInTime
  <2>3. Before(d)
    BY <2>1, <2>2 DEF CountInTime, Round, Before, Place
  <2>4. step[c] = step[d] + 1
    BY <2>1, <2>3 DEF Round
  <2>5. ~(pc[d] = "wake" /\ step[d] = -1)
    BY <2>2, <2>4 DEF CountInTime
  <2> QED BY <2>2, <2>3, <2>4, <2>5 DEF Before
<1> QED
  BY <1>1, RoundInit, RoundNext, PTL DEF Spec
-----------------------------------------------------------------------------
(* The balancer.  Which CPU it takes for the most and the least loaded:    *)
(* they exist, as the loads are finitely many.                             *)

LEMMA LeastNat ==
  ASSUME NEW T, T \subseteq Nat, T # {}
  PROVE  \E x \in T : \A y \in T : x <= y
<1>1. PICK x \in T : \A y \in T : <<y, x>> \notin OpToRel(<, Nat)
  BY NatLessThanWellFounded, WFMin
<1>2. ASSUME NEW y \in T, y < x PROVE <<y, x>> \in OpToRel(<, Nat)
  <2>1. <<y, x>> \in Nat \X Nat /\ <<y, x>>[1] < <<y, x>>[2]
    BY <1>2
  <2> QED BY <2>1, Zenon DEF OpToRel
<1>3. \A y \in T : ~(y < x)
  BY <1>1, <1>2
<1> QED BY <1>3

\* An index whose value has the fewest others above it has none above it.
LEMMA GreatestExists ==
  ASSUME NEW n \in Nat \ {0}, NEW l \in [1 .. n -> Int]
  PROVE  \E i \in 1 .. n : \A j \in 1 .. n : l[j] <= l[i]
<1> DEFINE above(i) == {j \in 1 .. n : l[j] > l[i]}
           T == {k \in Nat : \E i \in 1 .. n : k = Cardinality(above(i))}
<1>1. \A i \in 1 .. n : IsFiniteSet(above(i)) /\ Cardinality(above(i)) \in Nat
  <2> SUFFICES ASSUME NEW i \in 1 .. n
               PROVE  IsFiniteSet(above(i)) /\ Cardinality(above(i)) \in Nat
    OBVIOUS
  <2>1. IsFiniteSet(1 .. n) /\ above(i) \in SUBSET (1 .. n)
    BY FS_Interval
  <2> QED BY <2>1, FS_Subset, FS_CardinalityType
<1>2. PICK i \in 1 .. n : \A j \in 1 .. n : Cardinality(above(i)) <= Cardinality(above(j))
  <2> HIDE DEF above
  <2>1. 1 \in 1 .. n
    OBVIOUS
  <2>2. Cardinality(above(1)) \in T
    BY <1>1, <2>1
  <2>3. PICK x \in T : \A y \in T : x <= y
    BY <2>2, LeastNat
  <2>4. PICK i \in 1 .. n : x = Cardinality(above(i))
    OBVIOUS
  <2>5. \A j \in 1 .. n : Cardinality(above(j)) \in T
    BY <1>1
  <2> QED BY <2>3, <2>4, <2>5
<1>3. SUFFICES ASSUME NEW j \in 1 .. n, l[j] > l[i] PROVE FALSE
  BY <1>2
<1>4. above(j) \in SUBSET above(i) /\ j \in above(i) /\ j \notin above(j)
  <2>1. \A k \in above(j) : k \in above(i)
    BY <1>3
  <2> QED BY <1>3, <2>1
<1> HIDE DEF above
<1>5. above(j) # above(i)
  BY <1>4
<1>6. /\ IsFiniteSet(above(i)) /\ Cardinality(above(i)) \in Nat
      /\ Cardinality(above(j)) \in Nat
      /\ Cardinality(above(i)) <= Cardinality(above(j))
  BY <1>1, <1>2
<1>7. /\ Cardinality(above(j)) <= Cardinality(above(i))
      /\ Cardinality(above(i)) = Cardinality(above(j)) => above(i) = above(j)
  BY <1>4, <1>6, FS_Subset
<1> QED BY <1>5, <1>6, <1>7

LEMMA ExtremesExist ==
  ASSUME NEW l \in Seq(Int), Len(l) = NrCpus
  PROVE  /\ \E x \in Loads(l) : \A y \in Loads(l) : y <= x
         /\ \E x \in Loads(l) : \A y \in Loads(l) : x <= y
<1>1. NrCpus \in Nat \ {0} /\ l \in [1 .. NrCpus -> Int]
  BY SchedAssumption
<1>2. \E i \in 1 .. NrCpus : \A j \in 1 .. NrCpus : l[j] <= l[i]
  BY <1>1, GreatestExists
<1>3. \E i \in 1 .. NrCpus : \A j \in 1 .. NrCpus : l[i] <= l[j]
  <2> DEFINE m == [i \in 1 .. NrCpus |-> 0 - l[i]]
  <2>1. m \in [1 .. NrCpus -> Int]
    BY <1>1
  <2>2. PICK i \in 1 .. NrCpus : \A j \in 1 .. NrCpus : m[j] <= m[i]
    BY <1>1, <2>1, GreatestExists
  <2>3. ASSUME NEW j \in 1 .. NrCpus PROVE l[i] <= l[j]
    <3>1. m[j] = 0 - l[j] /\ m[i] = 0 - l[i] /\ m[j] <= m[i]
      BY <1>1, <2>2
    <3>2. l[j] \in Int /\ l[i] \in Int
      BY <1>1
    <3> QED BY <3>1, <3>2
  <2> QED BY <2>2, <2>3
<1>4. /\ \A x \in Loads(l) : \E i \in 1 .. NrCpus : x = l[i]
      /\ \A i \in 1 .. NrCpus : l[i] \in Loads(l)
  BY <1>1 DEF Loads
<1> QED BY <1>2, <1>3, <1>4

LEMMA FirstExists ==
  ASSUME NEW l \in Seq(Int), Len(l) = NrCpus, NEW x \in Loads(l)
  PROVE  FirstWith(l, x) \in CPU /\ l[FirstWith(l, x) + 1] = x
<1> DEFINE T == {d \in CPU : l[d + 1] = x}
<1>1. NrCpus \in Nat \ {0} /\ T \subseteq Nat
  BY SchedAssumption DEF CPU
<1>2. PICK i \in 1 .. NrCpus : l[i] = x
  BY <1>1 DEF Loads
<1>3. i - 1 \in T
  BY <1>1, <1>2 DEF CPU
<1>4. PICK d \in T : \A e \in T : d <= e
  BY <1>1, <1>3, LeastNat
<1>5. \A e \in 0 .. d - 1 : l[e + 1] # x
  BY <1>1, <1>4 DEF CPU
<1> QED BY <1>4, <1>5 DEF FirstWith

\* The CPU that a balancer chooses to trade with is another one.
LEMMA RemoteIsAnother ==
  ASSUME NEW c \in CPU, load[c] \in Seq(Int), Len(load[c]) = NrCpus,
         ~Balanced(c), AtAnEnd(c)
  PROVE  Remote(c) \in CPU \ {c}
<1>1. /\ MaxLoad(load[c]) \in Loads(load[c])
      /\ MinLoad(load[c]) \in Loads(load[c])
  BY ExtremesExist DEF MaxLoad, MinLoad
<1>2. Loads(load[c]) \subseteq Int
  BY DEF Loads
<1>3. MaxLoad(load[c]) # MinLoad(load[c])
  BY <1>1, <1>2 DEF Balanced
<1> QED
  BY <1>1, <1>3, FirstExists DEF Remote, Pushes, AtAnEnd
-----------------------------------------------------------------------------
(* The locks.  LockInv alone is not inductive: which locks a balancer      *)
(* gives back depends on those it holds, and that it holds them on the     *)
(* other CPU being another one.                                            *)

Trading == {"lockRemote", "lockThis", "move", "give"}

LockTypeOK ==
    /\ pc \in [CPU -> Place]
    /\ lock \in [CPU -> CPU \cup {Free}]
    /\ nr \in [CPU -> Int]
    /\ load \in [CPU -> Seq(Int)]

RemoteOK == \A c \in CPU : pc[c] \in Trading => Remote(c) \in CPU \ {c}

\* The run queues whose locks a CPU holds, from one step to the next
Held(c) ==
    IF pc[c] = "trial" \/ (pc[c] = "lockRemote" /\ c > Remote(c)) THEN {c}
    ELSE IF pc[c] = "lockThis" THEN {Remote(c)}
    ELSE IF pc[c] \in {"move", "give"} THEN {c, Remote(c)}
    ELSE {}

HoldsExactly == \A c, d \in CPU : lock[d] = c <=> d \in Held(c)

\* Of the difference of at least two that was seen under both locks, one is
\* left while the task is in the hands of the balancer.
StillUneven == \A c \in CPU : pc[c] = "give" => nr[Source(c)] - nr[Target(c)] >= 1

BalanceInv == LockTypeOK /\ RemoteOK /\ HoldsExactly /\ StillUneven

\* What a step of c leaves to the other CPUs: the locks they hold, the counts
\* of the queues under these locks, their loads and, while they balance, their
\* place.
Respects(c) ==
    /\ \A x \in CPU : /\ lock[x] \notin {Free, c} => lock'[x] = lock[x] /\ nr'[x] = nr[x]
                      /\ lock'[x] \in {lock[x], Free, c}
    /\ \A d \in CPU \ {c} :
          /\ load'[d] = load[d]
          /\ pc'[d] = pc[d] \/ {pc[d], pc'[d]} \cap Balancing = {}

\* What it does for the invariant of its own CPU
Own(c) ==
    /\ pc[c]' \in Trading => Remote(c)' \in CPU \ {c}
    /\ \A d \in CPU : lock'[d] = c <=> d \in Held(c)'
    /\ pc[c]' = "give" => (nr[Source(c)] - nr[Target(c)])' >= 1

LEMMA StepKeepsBalance ==
  ASSUME BalanceInv, NEW c \in CPU, LockTypeOK', Respects(c), Own(c)
  PROVE  BalanceInv'
<1> USE SchedAssumption DEF BalanceInv, LockTypeOK
<1>1. ASSUME NEW d \in CPU \ {c}
      PROVE  /\ pc[d] \in Balancing \/ pc'[d] \in Balancing => pc'[d] = pc[d]
             /\ (pc[d] \in Trading => Remote(d) \in CPU \ {d})
             /\ Remote(d)' = Remote(d) /\ Source(d)' = Source(d) /\ Target(d)' = Target(d)
             /\ Held(d)' = Held(d)
             /\ \A x \in CPU : lock'[x] = d <=> lock[x] = d
             /\ \A x \in Held(d) : x \in CPU => nr'[x] = nr[x]
  <2>1. load'[d] = load[d] /\ (pc[d] \in Balancing \/ pc'[d] \in Balancing => pc'[d] = pc[d])
    BY DEF Respects
  <2>2. Remote(d)' = Remote(d) /\ (Pushes(d)' <=> Pushes(d))
    BY <2>1 DEF Remote, Pushes
  <2>3. Source(d)' = Source(d) /\ Target(d)' = Target(d)
    BY <2>2 DEF Source, Target
  <2>4. Held(d)' = Held(d)
    BY <2>1, <2>2 DEF Held, Balancing
  <2>5. \A x \in CPU : lock'[x] = d <=> lock[x] = d
    BY DEF Respects
  <2>6. \A x \in Held(d) : x \in CPU => nr'[x] = nr[x]
    BY DEF HoldsExactly, Respects
  <2> QED BY <2>1, <2>2, <2>3, <2>4, <2>5, <2>6 DEF RemoteOK
<1>2. RemoteOK'
  <2>1. ASSUME NEW d \in CPU \ {c}, pc'[d] \in Trading PROVE Remote(d)' \in CPU \ {d}
    BY <1>1, <2>1 DEF Trading, Balancing
  <2> QED BY <2>1 DEF RemoteOK, Own
<1>3. HoldsExactly'
  <2>1. ASSUME NEW d \in CPU \ {c}, NEW x \in CPU
        PROVE  lock'[x] = d <=> x \in Held(d)'
    BY <1>1 DEF HoldsExactly
  <2> QED BY <2>1 DEF HoldsExactly, Own
<1>4. ASSUME NEW d \in CPU \ {c}, pc'[d] = "give"
      PROVE  (nr[Source(d)] - nr[Target(d)])' >= 1
  <2>1. pc[d] = "give" /\ Remote(d) \in CPU
    BY <1>1, <1>4 DEF Trading, Balancing
  <2>2. {Source(d), Target(d)} \subseteq Held(d) \cap CPU
    BY <2>1 DEF Source, Target, Held
  <2> QED BY <1>1, <2>1, <2>2 DEF StillUneven
<1>5. StillUneven'
  BY <1>4 DEF StillUneven, Own
<1> QED BY <1>2, <1>3, <1>5

\* A step outside of load_balance, which may count a task in or out while the
\* lock of its queue is free.
LEMMA QuietStep ==
  ASSUME BalanceInv, NEW c \in CPU,
         pc' \in [CPU -> Place],
         pc[c] \notin Balancing, pc'[c] \notin Balancing,
         \A d \in CPU \ {c} : pc'[d] = pc[d] \/ {pc[d], pc'[d]} \cap Balancing = {},
         lock' = lock, load' = load,
         nr' \in [CPU -> Int],
         \A x \in CPU : lock[x] \notin {Free, c} => nr'[x] = nr[x]
  PROVE  LockTypeOK' /\ Respects(c) /\ Own(c)
<1> USE DEF BalanceInv
<1>1. Held(c) = {} /\ Held(c)' = {} /\ pc'[c] \notin Trading
  BY DEF Held, Trading, Balancing
<1> QED BY <1>1 DEF LockTypeOK, Respects, Own, HoldsExactly, Trading

LEMMA QuietSteps ==
  ASSUME BalanceInv, NEW c \in CPU,
         \/ Wake(c) \/ WakeDone(c) \/ FirstPick(c) \/ Continue(c) \/ Tick(c)
         \/ Schedule(c) \/ FirstBarrier(c) \/ Count(c) \/ SecondBarrier(c)
  PROVE  LockTypeOK' /\ Respects(c) /\ Own(c)
<1> USE DEF Place, Body, Between, Balancing, Goto, balancer, queues
<1>0. LockTypeOK
  BY DEF BalanceInv
<1>1. CASE Wake(c)
  <2>1. /\ nr' = [nr EXCEPT ![c] = @ + 1] \/ nr' = nr
        /\ pc' = pc /\ pc[c] = "wake" /\ lock' = lock /\ load' = load
        /\ nr' = nr \/ lock[c] = Free
    BY <1>1 DEF Wake
  <2>2. /\ pc' \in [CPU -> Place] /\ nr' \in [CPU -> Int]
        /\ \A x \in CPU : lock[x] \notin {Free, c} => nr'[x] = nr[x]
    BY <1>0, <2>1 DEF LockTypeOK
  <2> QED BY <2>1, <2>2, QuietStep
<1>2. CASE WakeDone(c)
  <2>1. /\ pc[c] = "wake" /\ (\E q \in {"first", "balance"} : pc' = [pc EXCEPT ![c] = q])
        /\ lock' = lock /\ load' = load /\ nr' = nr
    BY <1>2 DEF WakeDone
  <2> QED BY <1>0, <2>1, QuietStep DEF LockTypeOK
<1>3. CASE FirstPick(c) \/ Continue(c)
  <2>1. /\ pc[c] \in {"first", "next"}
        /\ \E q \in {"tick", "done"} : pc' = [pc EXCEPT ![c] = q]
        /\ lock' = lock /\ load' = load /\ nr' = nr
    BY <1>3 DEF FirstPick, Continue, LoopTest
  <2> QED BY <1>0, <2>1, QuietStep DEF LockTypeOK
<1>4. CASE Tick(c)
  <2>1. /\ nr' = [nr EXCEPT ![c] = @ - 1] \/ nr' = nr
        /\ pc[c] = "tick" /\ pc' = [pc EXCEPT ![c] = "wake"]
        /\ lock' = lock /\ load' = load
        /\ lock[c] = Free
    BY <1>4 DEF Tick
  <2>2. /\ nr' \in [CPU -> Int]
        /\ \A x \in CPU : lock[x] \notin {Free, c} => nr'[x] = nr[x]
    BY <1>0, <2>1 DEF LockTypeOK
  <2>3. /\ pc' \in [CPU -> Place] /\ pc'[c] = "wake"
        /\ \A d \in CPU \ {c} : pc'[d] = pc[d]
    BY <1>0, <2>1 DEF LockTypeOK
  <2> QED BY <2>1, <2>2, <2>3, QuietStep
<1>5. CASE Schedule(c) \/ Count(c)
  <2>1. /\ pc[c] \in {"schedule", "count"}
        /\ \E q \in {"sync", "counted"} : pc' = [pc EXCEPT ![c] = q]
        /\ lock' = lock /\ load' = load /\ nr' = nr
    BY <1>5 DEF Schedule, Count
  <2> QED BY <1>0, <2>1, QuietStep DEF LockTypeOK
<1>6. CASE FirstBarrier(c) \/ SecondBarrier(c)
  <2>1. /\ pc[c] \in {"sync", "counted"} /\ lock' = lock /\ load' = load /\ nr' = nr
        /\ \/ \E q \in {"sync_in", "counted_in"} : pc' = [pc EXCEPT ![c] = q]
           \/ /\ \A d \in CPU \ {c} : pc[d] \in {"sync_in", "counted_in"}
              /\ \E q \in {"count", "next"} : pc' = [d \in CPU |-> q]
    BY <1>6, Zenon DEF FirstBarrier, SecondBarrier, Barrier
  <2>2. /\ pc' \in [CPU -> Place] /\ pc'[c] \notin Balancing
        /\ \A d \in CPU \ {c} : pc'[d] = pc[d] \/ {pc[d], pc'[d]} \cap Balancing = {}
    <3>1. CASE \E q \in {"sync_in", "counted_in"} : pc' = [pc EXCEPT ![c] = q]
      BY <1>0, <3>1 DEF LockTypeOK
    <3>2. CASE /\ \A d \in CPU \ {c} : pc[d] \in {"sync_in", "counted_in"}
               /\ \E q \in {"count", "next"} : pc' = [d \in CPU |-> q]
      BY <3>2
    <3> QED BY <2>1, <3>1, <3>2
  <2> QED BY <1>0, <2>1, <2>2, QuietStep DEF LockTypeOK
<1> QED BY <1>1, <1>2, <1>3, <1>4, <1>5, <1>6

LEMMA BalanceSteps ==
  ASSUME BalanceInv, NEW c \in CPU,
         \/ BalanceBegin(c) \/ ReadLoad(c) \/ SkipTrial(c) \/ DoubleLock(c)
         \/ LockRemote(c) \/ LockThis(c) \/ NoMove(c) \/ Steal(c) \/ Give(c)
         \/ BalanceEnd(c)
  PROVE  LockTypeOK' /\ Respects(c) /\ Own(c)
<1>13. Free \notin CPU /\ NrCpus \in Nat \ {0}
  BY SchedAssumption
<1> USE <1>13 DEF Place, Body, Between, Balancing, Trading, Goto, balancer, queues
<1>0. LockTypeOK
  BY DEF BalanceInv
<1>1. CASE BalanceBegin(c)
  <2>1. Held(c) = {} /\ pc[c] = "balance"
    BY <1>1 DEF BalanceBegin, Held
  <2>2. /\ nr' = nr /\ load' = load
        /\ \/ pc' = [pc EXCEPT ![c] = "schedule"] /\ lock' = lock
           \/ /\ pc' = [pc EXCEPT ![c] = "trial"] /\ lock[c] = Free
              /\ lock' = [lock EXCEPT ![c] = c]
    BY <1>1 DEF BalanceBegin
  <2>3. LockTypeOK' /\ Respects(c)
    BY <1>0, <2>1, <2>2 DEF LockTypeOK, Respects
  <2>4. \A d \in CPU : lock[d] # c
    BY <2>1 DEF BalanceInv, HoldsExactly
  <2>5. CASE pc' = [pc EXCEPT ![c] = "schedule"] /\ lock' = lock
    <3>1. pc'[c] = "schedule"
      BY <1>0, <2>5 DEF LockTypeOK
    <3>2. Held(c)' = {}
      BY <3>1 DEF Held
    <3>3. \A d \in CPU : lock'[d] = c <=> d \in Held(c)'
      BY <2>4, <2>5, <3>2
    <3>4. pc'[c] \notin Trading /\ pc'[c] # "give"
      BY <3>1
    <3> QED BY <2>3, <3>3, <3>4 DEF Own
  <2>6. CASE pc' = [pc EXCEPT ![c] = "trial"] /\ lock' = [lock EXCEPT ![c] = c]
    <3>1. pc'[c] = "trial" /\ \A d \in CPU : lock'[d] = IF d = c THEN c ELSE lock[d]
      BY <1>0, <2>6 DEF LockTypeOK
    <3>2. Held(c)' = {c}
      BY <3>1 DEF Held
    <3>3. \A d \in CPU : lock'[d] = c <=> d \in Held(c)'
      BY <2>4, <3>1, <3>2
    <3>4. pc'[c] \notin Trading /\ pc'[c] # "give"
      BY <3>1
    <3> QED BY <2>3, <3>3, <3>4 DEF Own
  <2> QED BY <2>2, <2>3, <2>5, <2>6
<1>2. CASE ReadLoad(c)
  <2>1. nr[Len(load[c])] \in Int
    BY <1>0, <1>2 DEF ReadLoad, LockTypeOK, CPU
  <2>2. LockTypeOK' /\ Respects(c)
    BY <1>0, <1>2, <2>1 DEF ReadLoad, LockTypeOK, Respects
  <2>3. Own(c)
    BY <1>0, <1>2 DEF ReadLoad, LockTypeOK, Own, Held, BalanceInv, HoldsExactly
  <2> QED BY <2>2, <2>3
<1>3. CASE SkipTrial(c)
  <2>2. LockTypeOK' /\ Respects(c)
    BY <1>0, <1>3 DEF SkipTrial, Decided, LockTypeOK, Respects
  <2>3. Own(c)
    BY <1>0, <1>3 DEF SkipTrial, Decided, LockTypeOK, Own, Held, BalanceInv, HoldsExactly
  <2> QED BY <2>2, <2>3
<1>4. ASSUME load'[c] = load[c]
      PROVE  /\ Remote(c)' = Remote(c)
             /\ Source(c)' = Source(c) /\ Target(c)' = Target(c)
  BY <1>4 DEF Remote, Source, Target, Pushes
<1>5. CASE DoubleLock(c)
  <2>1. Remote(c) \in CPU \ {c} /\ pc[c] = "trial"
    BY <1>0, <1>5, RemoteIsAnother DEF DoubleLock, Decided, LockTypeOK
  <2>2. LockTypeOK' /\ Respects(c)
    BY <1>0, <1>5, <2>1 DEF DoubleLock, LockTypeOK, Respects, BalanceInv, HoldsExactly, Held
  <2>3. Own(c)
    BY <1>0, <1>4, <1>5, <2>1
    DEF DoubleLock, LockTypeOK, Own, Held, BalanceInv, HoldsExactly
  <2> QED BY <2>2, <2>3
<1>6. CASE LockRemote(c)
  <2>1. Remote(c) \in CPU \ {c} /\ pc[c] = "lockRemote"
    BY <1>6 DEF LockRemote, BalanceInv, RemoteOK
  <2>2. LockTypeOK' /\ Respects(c)
    BY <1>0, <1>6, <2>1 DEF LockRemote, LockTypeOK, Respects
  <2>3. Own(c)
    BY <1>0, <1>4, <1>6, <2>1
    DEF LockRemote, LockTypeOK, Own, Held, BalanceInv, HoldsExactly
  <2> QED BY <2>2, <2>3
<1>7. CASE LockThis(c)
  <2>1. Remote(c) \in CPU \ {c} /\ pc[c] = "lockThis"
    BY <1>7 DEF LockThis, BalanceInv, RemoteOK
  <2>2. LockTypeOK' /\ Respects(c)
    BY <1>0, <1>7, <2>1 DEF LockThis, LockTypeOK, Respects
  <2>3. Own(c)
    BY <1>0, <1>4, <1>7, <2>1
    DEF LockThis, LockTypeOK, Own, Held, BalanceInv, HoldsExactly
  <2> QED BY <2>2, <2>3
<1>8. ASSUME pc[c] \in {"move", "give"}
      PROVE  /\ Remote(c) \in CPU \ {c} /\ lock[c] = c /\ lock[Remote(c)] = c
             /\ Source(c) \in {c, Remote(c)} /\ Target(c) \in {c, Remote(c)}
             /\ \A d \in CPU : lock[d] = c <=> d \in {c, Remote(c)}
  BY <1>8 DEF BalanceInv, RemoteOK, HoldsExactly, Held, Source, Target
<1>9. CASE NoMove(c)
  <2>1. pc[c] = "move"
    BY <1>9 DEF NoMove
  <2>2. LockTypeOK' /\ Respects(c)
    BY <1>0, <1>8, <1>9, <2>1 DEF NoMove, EndTrial, LockTypeOK, Respects
  <2>3. Own(c)
    BY <1>0, <1>8, <1>9, <2>1 DEF NoMove, EndTrial, LockTypeOK, Own, Held
  <2> QED BY <2>2, <2>3
<1>10. CASE Steal(c)
  <2>1. pc[c] = "move"
    BY <1>10 DEF Steal
  <2>2. /\ pc' = [pc EXCEPT ![c] = "give"] /\ lock' = lock /\ load' = load
        /\ nr' = [nr EXCEPT ![Source(c)] = @ - 1]
        /\ nr[Source(c)] - nr[Target(c)] > 1
    BY <1>10 DEF Steal, Improves
  <2>3. LockTypeOK' /\ Respects(c)
    BY <1>0, <1>8, <2>1, <2>2 DEF LockTypeOK, Respects
  <2>4. (nr[Source(c)] - nr[Target(c)])' >= 1
    BY <1>0, <1>4, <1>8, <2>1, <2>2 DEF LockTypeOK
  <2>5. Own(c)
    BY <1>0, <1>4, <1>8, <2>1, <2>2, <2>4 DEF LockTypeOK, Own, Held
  <2> QED BY <2>3, <2>5
<1>11. CASE Give(c)
  <2>1. pc[c] = "give"
    BY <1>11 DEF Give
  <2>2. /\ pc' = [pc EXCEPT ![c] = "trial"] /\ lock' = [lock EXCEPT ![Remote(c)] = Free]
        /\ nr' = [nr EXCEPT ![Target(c)] = @ + 1] /\ load' = [load EXCEPT ![c] = <<>>]
    BY <1>11 DEF Give, EndTrial
  <2>3. LockTypeOK' /\ Respects(c)
    BY <1>0, <1>8, <2>1, <2>2 DEF LockTypeOK, Respects
  <2>4. Own(c)
    BY <1>0, <1>8, <2>1, <2>2 DEF LockTypeOK, Own, Held
  <2> QED BY <2>3, <2>4
<1>12. CASE BalanceEnd(c)
  <2>1. pc[c] = "trial" /\ \A d \in CPU : lock[d] = c <=> d = c
    BY <1>12 DEF BalanceEnd, BalanceInv, HoldsExactly, Held
  <2>2. LockTypeOK' /\ Respects(c)
    BY <1>0, <1>12, <2>1 DEF BalanceEnd, LockTypeOK, Respects
  <2>3. Own(c)
    BY <1>0, <1>12, <2>1 DEF BalanceEnd, LockTypeOK, Own, Held
  <2> QED BY <2>2, <2>3
<1> QED
  BY <1>1, <1>2, <1>3, <1>5, <1>6, <1>7, <1>9, <1>10, <1>11, <1>12

LEMMA BalanceInit == Init => BalanceInv
<1> SUFFICES ASSUME Init PROVE BalanceInv
  OBVIOUS
<1>1. LockTypeOK
  BY DEF Init, LockTypeOK, Place
<1>2. \A c \in CPU : pc[c] = "wake" /\ lock[c] = Free /\ Free \notin CPU
  BY SchedAssumption DEF Init
<1> QED
  BY <1>1, <1>2 DEF BalanceInv, RemoteOK, HoldsExactly, StillUneven, Held, Trading

LEMMA BalanceNext == BalanceInv /\ [Next]_vars => BalanceInv'
<1> SUFFICES ASSUME BalanceInv, [Next]_vars PROVE BalanceInv'
  OBVIOUS
<1>1. ASSUME NEW c \in CPU, Run(c) PROVE BalanceInv'
  BY <1>1, QuietSteps, BalanceSteps, StepKeepsBalance DEF Run
<1>2. CASE UNCHANGED vars
  BY <1>2
  DEF vars, queues, balancer, BalanceInv, LockTypeOK, RemoteOK, HoldsExactly,
      StillUneven, Held, Remote, Source, Target, Pushes
<1> QED
  BY <1>1, <1>2 DEF Next

LEMMA BalanceInvariance == Spec => []BalanceInv
BY BalanceInit, BalanceNext, PTL DEF Spec

(* Every balancer holds just the locks that the code between lock_rq and   *)
(* unlock_rq relies on, of the two queues it chose, for any number of CPUs *)
(* (sched.c:59-72, 503-589).                                               *)
THEOREM LocksAreHeld == Spec => []LockInv
<1>1. BalanceInv => LockInv
  BY SchedAssumption
  DEF BalanceInv, LockTypeOK, RemoteOK, HoldsExactly, Held, Trading, Balancing, LockInv
<1> QED
  BY <1>1, BalanceInvariance, PTL

(* A migration leaves the CPU that gave the task at least as loaded as the *)
(* one that took it, for any number of CPUs, although both were chosen by  *)
(* loads read without their locks (sched.c:482-498, 528-580).              *)
THEOREM Improvement == Spec => MigrationHelps
<1>1. ASSUME BalanceInv, [Next]_vars, NEW c \in CPU, pc[c] = "give", pc'[c] = "trial"
      PROVE  nr'[Source(c)] >= nr'[Target(c)]
  <2> USE DEF BalanceInv, LockTypeOK
  <2>1. Give(c)
    <3>1. PICK d \in CPU : Run(d)
      BY <1>1 DEF Next, vars
    <3>2. d = c
      BY <1>1, <3>1, QuietSteps, BalanceSteps DEF Run, Respects, Balancing
    <3> QED
      BY <1>1, <3>1, <3>2
      DEF Run, Wake, WakeDone, FirstPick, Continue, Tick, BalanceBegin, ReadLoad,
          SkipTrial, DoubleLock, Decided, LockRemote, LockThis, NoMove, Steal,
          BalanceEnd, Schedule, FirstBarrier, Count, SecondBarrier, Barrier, Goto
  <2>2. Remote(c) \in CPU /\ {Source(c), Target(c)} \subseteq CPU
    BY <1>1 DEF RemoteOK, Trading, Source, Target
  <2>3. nr' = [nr EXCEPT ![Target(c)] = @ + 1] /\ nr[Source(c)] - nr[Target(c)] >= 1
    BY <1>1, <2>1 DEF Give, StillUneven
  <2>4. nr[Source(c)] \in Int /\ nr[Target(c)] \in Int
    BY <1>1, <2>2
  <2>5. /\ nr'[Target(c)] = nr[Target(c)] + 1
        /\ Source(c) # Target(c) => nr'[Source(c)] = nr[Source(c)]
    BY <1>1, <2>2, <2>3
  <2> QED BY <2>3, <2>4, <2>5
<1>2. BalanceInv /\ [Next]_vars =>
        [\A c \in CPU : pc[c] = "give" /\ pc'[c] = "trial" =>
            nr'[Source(c)] >= nr'[Target(c)]]_vars
  BY <1>1
<1> QED
  BY <1>2, BalanceInvariance, PTL DEF Spec, MigrationHelps
-----------------------------------------------------------------------------
(* The dates of balancing *)

DateInv == nextLB \in [CPU -> Nat] /\ (NrCpus > 1 => DateAhead)

Behind == {"schedule", "sync", "sync_in", "count", "counted", "counted_in", "next"}

\* A step that leaves the dates alone, and whose thread does not pass from the
\* part of the round before the balancing to the part behind it.
LEMMA SameDates ==
  ASSUME RoundInv, DateInv, NEW c \in CPU, nextLB' = nextLB,
         \/ /\ \E p \in Place, q \in Place :
                  /\ pc[c] = p /\ pc' = [pc EXCEPT ![c] = q]
                  /\ (p \in Behind <=> q \in Behind) /\ p # "done" /\ q # "done"
            /\ step' = step
         \/ TestLoop(c) \/ FirstBarrier(c) \/ SecondBarrier(c)
  PROVE  DateInv'
<1> USE DEF DateInv, DateAhead, RoundInv, RoundTypeOK, Behind
<1>1. CASE TestLoop(c)
  BY <1>1, SchedAssumption DEF TestLoop, LoopTest
<1>2. CASE FirstBarrier(c) \/ SecondBarrier(c)
  <2>1. step' = step /\ \A d \in CPU : pc'[d] \in Behind <=> pc[d] \in Behind
    BY <1>2 DEF FirstBarrier, SecondBarrier, Barrier
  <2>2. \A d \in CPU : (pc'[d] # "done" /\ pc[d] # "done") \/ pc'[d] = pc[d]
    BY <1>2 DEF FirstBarrier, SecondBarrier, Barrier
  <2> QED BY <2>1, <2>2
<1>3. CASE /\ \E p \in Place, q \in Place :
                 /\ pc[c] = p /\ pc' = [pc EXCEPT ![c] = q]
                 /\ (p \in Behind <=> q \in Behind) /\ p # "done" /\ q # "done"
           /\ step' = step
  BY <1>3
<1> QED BY <1>1, <1>2, <1>3

LEMMA DateInit == Init => DateInv
BY SchedAssumption DEF Init, DateInv, DateAhead, CPU

LEMMA DateNext == RoundInv /\ DateInv /\ [Next]_vars => DateInv'
<1> SUFFICES ASSUME RoundInv, DateInv, [Next]_vars PROVE DateInv'
  OBVIOUS
<1>1. ASSUME NEW c \in CPU, Run(c) PROVE DateInv'
  <2> USE DEF Goto, balancer, queues
  <2>0. /\ step[c] \in Int /\ step[c] >= -1 /\ pc \in [CPU -> Place]
        /\ step[c] = -1 => pc[c] \in {"wake", "first"}
    BY DEF RoundInv, RoundTypeOK
  <2>1. CASE BalanceBegin(c)
    <3>1. /\ pc[c] = "balance" /\ step' = step /\ step[c] \in Nat
          /\ nextLB' = [nextLB EXCEPT ![c] = IF nr[c] = 0 THEN step[c] ELSE @]
          /\ \/ pc' = [pc EXCEPT ![c] = "trial"]
             \/ /\ pc' = [pc EXCEPT ![c] = "schedule"]
                /\ NrCpus = 1 \/ nextLB'[c] # step[c]
      BY <2>0, <2>1 DEF BalanceBegin
    <3>2. nextLB' \in [CPU -> Nat] /\ \A d \in CPU \ {c} : nextLB'[d] = nextLB[d]
      BY <3>1 DEF DateInv
    <3>3. NrCpus > 1 => nextLB'[c] >= step[c] + (IF pc'[c] = "schedule" THEN 1 ELSE 0)
      BY <2>0, <3>1 DEF DateInv, DateAhead
    <3> QED BY <2>0, <3>1, <3>2, <3>3 DEF DateInv, DateAhead
  <2>2. CASE BalanceEnd(c)
    <3>1. /\ pc[c] = "trial" /\ step' = step /\ pc' = [pc EXCEPT ![c] = "schedule"]
          /\ nextLB' = [nextLB EXCEPT ![c] = @ + Period]
      BY <2>2 DEF BalanceEnd, NextDate
    <3> QED BY <2>0, <3>1, SchedAssumption DEF DateInv, DateAhead
  <2>3. CASE FirstPick(c) \/ Continue(c)
    BY <2>3, SameDates DEF FirstPick, Continue, TestLoop
  <2>4. CASE FirstBarrier(c) \/ SecondBarrier(c)
    BY <2>4, SameDates DEF FirstBarrier, SecondBarrier
  <2>5. CASE \/ Wake(c) \/ WakeDone(c) \/ Tick(c)
    <3>1. /\ nextLB' = nextLB /\ step' = step
          /\ \E p \in {"wake", "tick"}, q \in {"wake", "first", "balance"} :
                pc[c] = p /\ pc' = [pc EXCEPT ![c] = q]
      BY <2>0, <2>5 DEF Wake, WakeDone, Tick
    <3> QED BY <3>1, SameDates DEF Behind, Place, Body, Balancing
  <2>6. CASE Schedule(c) \/ Count(c)
    <3>1. /\ nextLB' = nextLB /\ step' = step
          /\ \E p \in {"schedule", "count"}, q \in {"sync", "counted"} :
                pc[c] = p /\ pc' = [pc EXCEPT ![c] = q]
      BY <2>6 DEF Schedule, Count
    <3> QED BY <3>1, SameDates DEF Behind, Place, Body, Between
  <2>7. CASE \/ ReadLoad(c) \/ SkipTrial(c) \/ DoubleLock(c) \/ LockRemote(c)
             \/ LockThis(c) \/ NoMove(c) \/ Steal(c) \/ Give(c)
    <3>1. /\ nextLB' = nextLB /\ step' = step
          /\ \E p \in Balancing, q \in Balancing :
                pc[c] = p /\ pc' = [pc EXCEPT ![c] = q]
      BY <2>0, <2>7
      DEF ReadLoad, SkipTrial, Decided, DoubleLock, LockRemote, LockThis, NoMove,
          Steal, Give, EndTrial, Balancing
    <3>2. \A p \in Balancing : p \in Place /\ p \notin Behind /\ p # "done"
      BY DEF Behind, Place, Body, Balancing
    <3> QED BY <2>7, <3>1, <3>2, SameDates
  <2> QED BY <1>1, <2>1, <2>2, <2>3, <2>4, <2>5, <2>6, <2>7 DEF Run
<1>2. CASE UNCHANGED vars
  BY <1>2 DEF vars, balancer, DateInv, DateAhead
<1> QED
  BY <1>1, <1>2 DEF Next

(* The date of the next balancing is never behind the clock of its CPU,    *)
(* for any number of CPUs from two on and any period (sched.c:503-524,     *)
(* 585-586): the test of the date is for equality.                         *)
THEOREM DatesAreAhead == Spec => [](NrCpus > 1 => DateAhead)
<1>1. DateInv => (NrCpus > 1 => DateAhead)
  BY DEF DateInv
<1> QED
  BY <1>1, RoundInit, RoundNext, DateInit, DateNext, PTL DEF Spec
-----------------------------------------------------------------------------
(* The lists of events.  Each is sorted and has one event per task at      *)
(* most; insert_sched_event keeps it so, and sched_start builds it so from *)
(* the list of tasks, which the proof follows by induction.                *)

\* What insert_sched_event is given
Event == [task : Task, timeout : Nat]

\* The events of a list
Entries(q) == {q[i] : i \in DOMAIN q}

\* A list of events: the soonest first, one event per task
EventList(q) ==
    /\ q \in Seq(Event)
    /\ \A i, j \in DOMAIN q : i <= j => q[i].timeout <= q[j].timeout
    /\ \A i, j \in DOMAIN q : q[i].task = q[j].task => i = j

\* The events of a list, typed
LEMMA ListElements ==
  ASSUME NEW q, EventList(q)
  PROVE  /\ q \in Seq(Event) /\ Len(q) \in Nat /\ DOMAIN q = 1 .. Len(q)
         /\ \A i \in 1 .. Len(q) : q[i] \in Event /\ q[i].timeout \in Nat /\ q[i].task \in Task
<1>1. q \in Seq(Event)
  BY DEF EventList
<1>2. Len(q) \in Nat /\ DOMAIN q = 1 .. Len(q)
  BY <1>1, LenProperties
<1>3. ASSUME NEW i \in 1 .. Len(q) PROVE q[i] \in Event
  BY <1>1, ElementOfSeq
<1>4. \A e \in Event : e.timeout \in Nat /\ e.task \in Task
  BY DEF Event
<1> QED BY <1>1, <1>2, <1>3, <1>4

\* How many events an event goes behind
LEMMA InsertPoint ==
  ASSUME NEW q, EventList(q), NEW e \in Event
  PROVE  \E k \in 0 .. Len(q) :
            /\ {i \in DOMAIN q : q[i].timeout <= e.timeout} = 1 .. k
            /\ Cardinality(1 .. k) = k
<1> DEFINE T == {i \in DOMAIN q : q[i].timeout > e.timeout}
<1>1. Len(q) \in Nat /\ DOMAIN q = 1 .. Len(q) /\ T \subseteq Nat /\ e.timeout \in Nat
      /\ \A i \in 1 .. Len(q) : q[i] \in Event /\ q[i].timeout \in Nat
  BY ListElements DEF Event
<1>2. \A k \in 0 .. Len(q) : Cardinality(1 .. k) = k
  BY <1>1, FS_Interval
<1>3. CASE T = {}
  <2>1. {i \in DOMAIN q : q[i].timeout <= e.timeout} = 1 .. Len(q)
    BY <1>1, <1>3
  <2> QED BY <1>1, <1>2, <2>1
<1>4. CASE T # {}
  <2>1. PICK m \in T : \A y \in T : m <= y
    BY <1>1, <1>4, LeastNat
  <2>2. m - 1 \in 0 .. Len(q)
    BY <1>1
  <2>3. ASSUME NEW i \in 1 .. Len(q) PROVE q[i].timeout <= e.timeout <=> i <= m - 1
    <3>1. CASE i < m
      BY <1>1, <2>1, <3>1
    <3>2. CASE i >= m
      <4>1. q[m].timeout <= q[i].timeout /\ q[m].timeout > e.timeout
        BY <1>1, <3>2 DEF EventList
      <4> QED BY <1>1, <3>2, <4>1
    <3> QED BY <1>1, <3>1, <3>2
  <2>4. {i \in DOMAIN q : q[i].timeout <= e.timeout} = 1 .. m - 1
    BY <1>1, <2>2, <2>3
  <2> QED BY <1>2, <2>2, <2>4
<1> QED BY <1>3, <1>4

\* insert_sched_event keeps a list of events one, and adds that event to it.
LEMMA InsertResult ==
  ASSUME NEW q, EventList(q), NEW e \in Event, \A x \in Entries(q) : x.task # e.task
  PROVE  /\ EventList(InsertEvent(q, e))
         /\ Entries(InsertEvent(q, e)) = Entries(q) \cup {e}
<1> DEFINE r == InsertEvent(q, e)
<1>0. /\ q \in Seq(Event) /\ Len(q) \in Nat /\ DOMAIN q = 1 .. Len(q)
      /\ \A i \in 1 .. Len(q) : q[i] \in Event /\ q[i].timeout \in Nat /\ q[i].task \in Task
  BY ListElements
<1>1. PICK k \in 0 .. Len(q) :
            /\ {i \in DOMAIN q : q[i].timeout <= e.timeout} = 1 .. k
            /\ Cardinality(1 .. k) = k
  BY InsertPoint
<1>2. r = SubSeq(q, 1, k) \o <<e>> \o SubSeq(q, k + 1, Len(q))
  BY <1>1 DEF InsertEvent
<1>3. /\ r \in Seq(Event) /\ Len(r) = Len(q) + 1
      /\ \A i \in 1 .. Len(r) : r[i] = IF i <= k THEN q[i] ELSE IF i = k + 1 THEN e ELSE q[i - 1]
  <2> DEFINE before == SubSeq(q, 1, k)
             behind == SubSeq(q, k + 1, Len(q))
  <2>1. /\ before \in Seq(Event) /\ Len(before) = k
        /\ \A i \in 1 .. k : before[i] = q[i]
    <3>1. \A i \in 1 .. k : q[i] \in Event
      BY <1>0
    <3>2. /\ before \in Seq(Event) /\ Len(before) = IF 1 <= k THEN k - 1 + 1 ELSE 0
          /\ \A i \in 1 .. k - 1 + 1 : before[i] = q[1 + i - 1]
      BY <3>1, SubSeqProperties
    <3> QED BY <3>2
  <2>2. /\ behind \in Seq(Event) /\ Len(behind) = Len(q) - k
        /\ \A i \in 1 .. Len(q) - k : behind[i] = q[k + i]
    <3>1. \A i \in k + 1 .. Len(q) : q[i] \in Event
      BY <1>0
    <3>2. /\ behind \in Seq(Event)
          /\ Len(behind) = IF k + 1 <= Len(q) THEN Len(q) - (k + 1) + 1 ELSE 0
          /\ \A i \in 1 .. Len(q) - (k + 1) + 1 : behind[i] = q[(k + 1) + i - 1]
      BY <1>0, <3>1, SubSeqProperties
    <3> QED BY <1>0, <3>2
  <2>3. /\ <<e>> \in Seq(Event) /\ Len(<<e>>) = 1 /\ <<e>>[1] = e
    OBVIOUS
  <2>6. r = (before \o <<e>>) \o behind
    BY <1>2
  <2> HIDE DEF before, behind, r
  <2>4. /\ before \o <<e>> \in Seq(Event) /\ Len(before \o <<e>>) = k + 1
        /\ \A i \in 1 .. k + 1 : (before \o <<e>>)[i] = IF i <= k THEN q[i] ELSE e
    <3>1. /\ before \o <<e>> \in Seq(Event) /\ Len(before \o <<e>>) = k + 1
          /\ \A i \in 1 .. k + 1 : (before \o <<e>>)[i] =
                IF i <= k THEN before[i] ELSE <<e>>[i - k]
      BY <2>1, <2>3, ConcatProperties
    <3> QED BY <2>1, <2>3, <3>1
  <2>5. /\ r \in Seq(Event) /\ Len(r) = k + 1 + (Len(q) - k)
        /\ \A i \in 1 .. k + 1 + (Len(q) - k) : r[i] =
              IF i <= k + 1 THEN (before \o <<e>>)[i] ELSE behind[i - (k + 1)]
    <3> DEFINE front == before \o <<e>>
    <3>1. front \in Seq(Event) /\ Len(front) = k + 1 /\ r = front \o behind
      BY <2>6, <2>4
    <3> HIDE DEF front
    <3>2. /\ r \in Seq(Event) /\ Len(r) = Len(front) + Len(behind)
          /\ \A i \in 1 .. Len(front) + Len(behind) : r[i] =
                IF i <= Len(front) THEN front[i] ELSE behind[i - Len(front)]
      BY <2>2, <3>1, ConcatProperties
    <3> QED BY <2>2, <3>1, <3>2 DEF front
  <2> QED BY <1>0, <2>2, <2>4, <2>5
<1> HIDE DEF r
<1>4. \A i \in 1 .. k : q[i].timeout <= e.timeout
  BY <1>1
<1>5. \A i \in k + 1 .. Len(q) : q[i].timeout > e.timeout
  <2>1. \A i \in k + 1 .. Len(q) : ~(q[i].timeout <= e.timeout)
    BY <1>0, <1>1
  <2>2. e.timeout \in Nat
    BY DEF Event
  <2> QED BY <1>0, <2>1, <2>2
<1>6. \A i \in 1 .. Len(q) : q[i].task # e.task /\ q[i].timeout \in Nat
  BY <1>0 DEF Entries
<1>7. DOMAIN r = 1 .. Len(r) /\ e.timeout \in Nat
  BY <1>3, LenProperties DEF Event
<1>11. /\ \A i, j \in 1 .. Len(q) : i <= j => q[i].timeout <= q[j].timeout
      /\ \A i, j \in 1 .. Len(q) : q[i].task = q[j].task => i = j
  BY <1>0 DEF EventList
<1>8. ASSUME NEW i \in 1 .. Len(r), NEW j \in 1 .. Len(r), i <= j
      PROVE  r[i].timeout <= r[j].timeout
  <2>1. CASE j <= k
    <3>1. /\ r[i] = q[i] /\ r[j] = q[j] /\ i \in 1 .. Len(q) /\ j \in 1 .. Len(q)
      BY <1>0, <1>3, <1>8, <2>1
    <3> QED BY <1>8, <1>11, <3>1
  <2>2. CASE j = k + 1
    <3>1. r[j] = e /\ r[i] = (IF i <= k THEN q[i] ELSE e)
      BY <1>0, <1>3, <1>8, <2>2
    <3> QED BY <1>4, <1>7, <3>1
  <2>3. CASE j > k + 1
    <3>1. r[j] = q[j - 1] /\ j - 1 \in k + 1 .. Len(q)
      BY <1>0, <1>3, <2>3
    <3>2. CASE i <= k
      <4>1. r[i] = q[i] /\ i \in 1 .. Len(q) /\ i <= j - 1
        BY <1>0, <1>3, <3>2, <2>3
      <4> QED BY <1>11, <1>0, <3>1, <4>1
    <3>3. CASE i = k + 1
      <4>1. r[i] = e
        BY <1>0, <1>3, <3>3
      <4> QED BY <1>0, <1>5, <1>7, <3>1, <4>1
    <3>4. CASE i > k + 1
      <4>1. i - 1 \in 1 .. Len(q) /\ i - 1 <= j - 1
        BY <1>0, <1>3, <1>8, <3>4
      <4>2. r[i] = q[i - 1]
        BY <1>0, <1>3, <3>4
      <4> QED BY <1>11, <1>0, <3>1, <4>1, <4>2
    <3> QED BY <1>0, <3>2, <3>3, <3>4
  <2> QED BY <1>0, <2>1, <2>2, <2>3
<1>9. ASSUME NEW i \in 1 .. Len(r), NEW j \in 1 .. Len(r), r[i].task = r[j].task
      PROVE  i = j
  <2>1. ASSUME NEW m \in 1 .. Len(r)
        PROVE  (m = k + 1 /\ r[m] = e) \/ \E a \in 1 .. Len(q) :
                  r[m] = q[a] /\ (IF m <= k THEN a = m ELSE m > k + 1 /\ a = m - 1)
    <3>1. CASE m <= k
      BY <1>0, <1>3, <3>1
    <3>2. CASE m > k + 1
      <4>1. m - 1 \in 1 .. Len(q) /\ r[m] = q[m - 1]
        BY <1>0, <1>3, <3>2
      <4> QED BY <3>2, <4>1
    <3> QED BY <1>0, <1>3, <3>1, <3>2
  <2>3. CASE i = k + 1 /\ r[i] = e
    BY <1>6, <1>9, <2>1, <2>3
  <2>4. CASE j = k + 1 /\ r[j] = e
    BY <1>6, <1>9, <2>1, <2>4
  <2>5. ASSUME NEW a \in 1 .. Len(q), NEW b \in 1 .. Len(q), r[i] = q[a], r[j] = q[b],
               IF i <= k THEN a = i ELSE i > k + 1 /\ a = i - 1,
               IF j <= k THEN b = j ELSE j > k + 1 /\ b = j - 1
        PROVE  i = j
    <3>1. a = b
      BY <1>9, <1>11, <2>5
    <3> QED BY <1>3, <1>0, <2>5, <3>1
  <2> QED BY <2>1, <2>3, <2>4, <2>5
<1>10. Entries(r) = Entries(q) \cup {e}
  <2>1. \A i \in 1 .. Len(r) : r[i] \in Entries(q) \cup {e}
    <3>1. ASSUME NEW i \in 1 .. Len(r)
          PROVE  \/ r[i] = e
                 \/ i \in 1 .. Len(q) /\ r[i] = q[i]
                 \/ i - 1 \in 1 .. Len(q) /\ r[i] = q[i - 1]
      BY <1>0, <1>3
    <3> QED BY <1>0, <3>1 DEF Entries
  <2>2. \A i \in 1 .. Len(q) : \E j \in 1 .. Len(r) : q[i] = r[j]
    <3>1. ASSUME NEW i \in 1 .. Len(q) PROVE \E j \in 1 .. Len(r) : q[i] = r[j]
      <4>1. CASE i <= k
        BY <1>0, <1>3, <4>1
      <4>2. CASE i > k
        <5>1. i + 1 \in 1 .. Len(r) /\ r[i + 1] = q[i]
          BY <1>0, <1>3, <4>2
        <5> QED BY <5>1
      <4> QED BY <1>0, <4>1, <4>2
    <3> QED BY <3>1
  <2>3. k + 1 \in 1 .. Len(r) /\ r[k + 1] = e
    BY <1>0, <1>3
  <2> QED BY <1>0, <1>7, <2>1, <2>2, <2>3 DEF Entries
<1> QED BY <1>3, <1>7, <1>8, <1>9, <1>10 DEF EventList, r

\* Taking the first event from a list of events
LEMMA TailResult ==
  ASSUME NEW q, EventList(q), q # <<>>
  PROVE  /\ EventList(Tail(q)) /\ Head(q) \in Entries(q) /\ Head(q) \in Event
         /\ Entries(Tail(q)) = Entries(q) \ {Head(q)}
         /\ \A x \in Entries(q) : x.timeout >= Head(q).timeout
         /\ \A x \in Entries(q) : x # Head(q) => x.task # Head(q).task
<1>1. /\ q \in Seq(Event) /\ Len(q) \in Nat \ {0} /\ DOMAIN q = 1 .. Len(q)
      /\ Tail(q) \in Seq(Event) /\ Len(Tail(q)) = Len(q) - 1
      /\ DOMAIN Tail(q) = 1 .. Len(q) - 1
      /\ \A i \in 1 .. Len(q) - 1 : Tail(q)[i] = q[i + 1]
      /\ Head(q) = q[1] /\ 1 \in 1 .. Len(q)
  BY DEF EventList
<1>2. EventList(Tail(q))
  <2>1. \A i, j \in 1 .. Len(q) - 1 : i <= j => q[i + 1].timeout <= q[j + 1].timeout
    BY <1>1 DEF EventList
  <2>2. \A i, j \in 1 .. Len(q) - 1 : q[i + 1].task = q[j + 1].task => i = j
    BY <1>1 DEF EventList
  <2> QED BY <1>1, <2>1, <2>2 DEF EventList
<1>3. \A i \in 1 .. Len(q) : i # 1 => q[i].task # q[1].task
  BY <1>1 DEF EventList
<1>4. \A i \in 1 .. Len(q) : q[i].timeout >= q[1].timeout
  <2>1. \A i \in 1 .. Len(q) : q[1].timeout <= q[i].timeout /\ q[i] \in Event
    BY <1>1 DEF EventList
  <2> QED BY <1>1, <2>1 DEF Event
<1>5. ASSUME NEW i \in 1 .. Len(q), i # 1
      PROVE  \E j \in 1 .. Len(q) - 1 : q[i] = Tail(q)[j]
  <2>1. i - 1 \in 1 .. Len(q) - 1 /\ Tail(q)[i - 1] = q[i]
    BY <1>1, <1>5
  <2> QED BY <2>1
<1>6. \A j \in 1 .. Len(q) - 1 : j + 1 \in 1 .. Len(q) /\ j + 1 # 1
  BY <1>1
<1>7. Entries(q) = {q[i] : i \in 1 .. Len(q)}
      /\ Entries(Tail(q)) = {Tail(q)[i] : i \in 1 .. Len(q) - 1}
  BY <1>1 DEF Entries
<1>8. Entries(Tail(q)) = Entries(q) \ {Head(q)}
  BY <1>1, <1>3, <1>5, <1>6, <1>7
<1> QED BY <1>1, <1>2, <1>3, <1>4, <1>7, <1>8

\* Induction over the natural numbers, for a set of them
LEMMA NatSet ==
  ASSUME NEW S, 0 \in S, \A n \in Nat : n \in S => n + 1 \in S
  PROVE  \A n \in Nat : n \in S
<1> SUFFICES ASSUME NEW n \in Nat, n \notin S PROVE FALSE
  OBVIOUS
<1>1. PICK x \in Nat \ S : \A y \in Nat \ S : x <= y
  <2>1. Nat \ S \subseteq Nat /\ Nat \ S # {}
    OBVIOUS
  <2> QED BY <2>1, LeastNat
<1>2. x # 0 /\ x - 1 \in Nat
  BY <1>1
<1>3. x - 1 \in S
  BY <1>1, <1>2
<1>4. (x - 1) + 1 \in S /\ (x - 1) + 1 = x
  BY <1>1, <1>2, <1>3
<1> QED BY <1>1, <1>4

\* The function by which sched_start fills a list of events exists.
LEMMA NewTasksFunction ==
  ASSUME NEW c \in CPU
  PROVE  \E f : /\ NewTasks(c) = f[Len(File)]
                /\ f[0] = <<>>
                /\ \A n \in 1 .. Len(File) : f[n] =
                      IF (n - 1) % NrCpus # c THEN f[n - 1]
                      ELSE InsertEvent(f[n - 1], [task |-> n - 1, timeout |-> Arrival(n - 1)])
<1> DEFINE N == Len(File)
           Add(q, n) == IF (n - 1) % NrCpus # c THEN q
                        ELSE InsertEvent(q, [task |-> n - 1, timeout |-> Arrival(n - 1)])
           G == {n \in Nat : \E g : g = [m \in 0 .. n |-> IF m = 0 THEN <<>> ELSE Add(g[m - 1], m)]}
           f == CHOOSE g : g = [m \in 0 .. N |-> IF m = 0 THEN <<>> ELSE Add(g[m - 1], m)]
<1>1. NewTasks(c) = f[N]
  BY DEF NewTasks
<1> HIDE DEF Add
<1>2. 0 \in G
  <2> DEFINE g == [m \in 0 .. 0 |-> <<>>]
  <2>1. g = [m \in 0 .. 0 |-> IF m = 0 THEN <<>> ELSE Add(g[m - 1], m)]
    OBVIOUS
  <2> QED BY <2>1
<1>3. \A n \in Nat : n \in G => n + 1 \in G
  <2> SUFFICES ASSUME NEW n \in Nat, n \in G PROVE n + 1 \in G
    OBVIOUS
  <2> PICK g : g = [m \in 0 .. n |-> IF m = 0 THEN <<>> ELSE Add(g[m - 1], m)]
    OBVIOUS
  <2> DEFINE h == [m \in 0 .. n + 1 |-> IF m = n + 1 THEN Add(g[n], n + 1) ELSE g[m]]
  <2>0. ASSUME NEW m \in 0 .. n
        PROVE  g[m] = IF m = 0 THEN <<>> ELSE Add(g[m - 1], m)
    <3> DEFINE b == [x \in 0 .. n |-> IF x = 0 THEN <<>> ELSE Add(g[x - 1], x)]
    <3>1. g = b
      OBVIOUS
    <3>2. b[m] = IF m = 0 THEN <<>> ELSE Add(g[m - 1], m)
      OBVIOUS
    <3> HIDE DEF b
    <3> QED BY <3>1, <3>2
  <2>1. \A m \in 0 .. n : h[m] = g[m] /\ g[m] = IF m = 0 THEN <<>> ELSE Add(g[m - 1], m)
    <3>1. \A m \in 0 .. n : m \in 0 .. n + 1 /\ m # n + 1
      OBVIOUS
    <3> QED BY <2>0, <3>1, Zenon
  <2>2. ASSUME NEW m \in 0 .. n + 1
        PROVE  h[m] = IF m = 0 THEN <<>> ELSE Add(h[m - 1], m)
    <3>1. CASE m = 0
      BY <2>1, <3>1
    <3>2. CASE m \in 1 .. n
      <4>1. m - 1 \in 0 .. n /\ m \in 0 .. n
        BY <3>2
      <4> QED BY <2>1, <3>2, <4>1
    <3>3. CASE m = n + 1
      <4>1. h[m] = Add(g[n], n + 1) /\ h[n] = g[n] /\ m - 1 = n
        BY <2>1, <3>3
      <4> QED BY <3>3, <4>1
    <3> QED BY <3>1, <3>2, <3>3
  <2>3. h = [m \in 0 .. n + 1 |-> IF m = 0 THEN <<>> ELSE Add(h[m - 1], m)]
    <3> DEFINE k == [m \in 0 .. n + 1 |-> IF m = 0 THEN <<>> ELSE Add(h[m - 1], m)]
    <3>1. \A m \in 0 .. n + 1 : h[m] = k[m]
      BY <2>2
    <3>2. DOMAIN h = 0 .. n + 1 /\ DOMAIN k = 0 .. n + 1
      OBVIOUS
    <3> HIDE DEF k
    <3> QED BY <3>1, <3>2 DEF k
  <2> HIDE DEF h
  <2> QED BY <2>3
<1>4. N \in G
  BY <1>2, <1>3, NatSet, SchedAssumption
<1> HIDE DEF G
<1>5. \E g : g = [m \in 0 .. N |-> IF m = 0 THEN <<>> ELSE Add(g[m - 1], m)]
  BY <1>4 DEF G
<1>6. f = [m \in 0 .. N |-> IF m = 0 THEN <<>> ELSE Add(f[m - 1], m)]
  BY <1>5
<1> HIDE DEF f
<1>7. f[0] = <<>> /\ \A n \in 1 .. N : f[n] = Add(f[n - 1], n)
  BY <1>6, SchedAssumption
<1> QED BY <1>1, <1>7 DEF Add

(* What sched_start puts on the list of a CPU, for any list of tasks: one  *)
(* event for each task that starts there, at the time of its arrival, and  *)
(* the soonest first (sched.c:727-775, 785-793).                           *)
THEOREM NewTasksResult ==
  ASSUME NEW c \in CPU
  PROVE  /\ EventList(NewTasks(c))
         /\ \A x \in Entries(NewTasks(c)) :
               x.task \in Task /\ x.timeout = Arrival(x.task) /\ x.task % NrCpus = c
         /\ \A t \in Task : t % NrCpus = c => \E x \in Entries(NewTasks(c)) : x.task = t
<1> DEFINE N == Len(File)
           Ev(n) == [task |-> n - 1, timeout |-> Arrival(n - 1)]
<1>1. PICK f : /\ NewTasks(c) = f[N]
               /\ f[0] = <<>>
               /\ \A n \in 1 .. N : f[n] =
                     IF (n - 1) % NrCpus # c THEN f[n - 1] ELSE InsertEvent(f[n - 1], Ev(n))
  BY NewTasksFunction
<1> DEFINE Good(q, n) ==
             /\ EventList(q)
             /\ \A x \in Entries(q) :
                   /\ x.task \in 0 .. n - 1 /\ x.timeout = Arrival(x.task)
                   /\ x.task % NrCpus = c
             /\ \A t \in 0 .. n - 1 : t % NrCpus = c => \E x \in Entries(q) : x.task = t
           S == {n \in Nat : n <= N => Good(f[n], n)}
<1>2. 0 \in S
  <2>1. EventList(<<>>) /\ Entries(<<>>) = {}
    BY DEF EventList, Entries
  <2> QED BY <1>1, <2>1
<1>3. ASSUME NEW n \in Nat, n \in S PROVE n + 1 \in S
  <2> SUFFICES ASSUME n + 1 <= N PROVE Good(f[n + 1], n + 1)
    OBVIOUS
  <2>1. /\ N \in Nat /\ n + 1 \in 1 .. N /\ n \in Task /\ Arrival(n) \in Nat
        /\ NrCpus \in Nat \ {0}
    BY SchedAssumption DEF Task
  <2>2. /\ Good(f[n], n)
        /\ f[n + 1] = IF n % NrCpus # c THEN f[n] ELSE InsertEvent(f[n], Ev(n + 1))
        /\ Ev(n + 1) = [task |-> n, timeout |-> Arrival(n)]
    <3>1. (n + 1) - 1 = n /\ n <= N
      BY <2>1
    <3>2. f[n + 1] = IF (n + 1) - 1 # n \/ n % NrCpus # c THEN f[n]
                     ELSE InsertEvent(f[n], Ev(n + 1))
      <4> HIDE DEF Ev
      <4> QED BY <1>1, <2>1, <3>1
    <3>3. Good(f[n], n)
      BY <1>3, <3>1
    <3>4. Ev(n + 1) = [task |-> n, timeout |-> Arrival(n)]
      BY <3>1
    <3> HIDE DEF Ev, Good
    <3> QED BY <3>1, <3>2, <3>3, <3>4
  <2>3. 0 .. (n + 1) - 1 = (0 .. n - 1) \cup {n} /\ n \notin 0 .. n - 1
    OBVIOUS
  <2>4. CASE n % NrCpus # c
    BY <2>2, <2>3, <2>4
  <2>5. CASE n % NrCpus = c
    <3>1. Ev(n + 1) \in Event /\ Ev(n + 1).task = n /\ Ev(n + 1).timeout = Arrival(n)
      BY <2>1, <2>2 DEF Event
    <3> HIDE DEF Ev
    <3>2. \A x \in Entries(f[n]) : x.task # Ev(n + 1).task
      BY <2>2, <2>3, <3>1
    <3>3. /\ EventList(f[n + 1])
          /\ Entries(f[n + 1]) = Entries(f[n]) \cup {Ev(n + 1)}
      BY <2>2, <2>5, <3>1, <3>2, InsertResult
    <3> QED BY <2>2, <2>3, <2>5, <3>1, <3>3
  <2> QED BY <2>4, <2>5
<1> HIDE DEF S, Good
<1>4. N \in S /\ N \in Nat /\ Task = 0 .. N - 1
  BY <1>2, <1>3, NatSet, SchedAssumption DEF Task
<1>5. Good(f[N], N)
  BY <1>4 DEF S
<1> QED BY <1>1, <1>4, <1>5 DEF Good
-----------------------------------------------------------------------------
(* The places of the tasks.  A task is in the place its state says, of     *)
(* which there is one: TaskOK.  A CPU whose current task has finished its  *)
(* phase is about to replace it, and no event of its list is late: CpuOK.  *)
(* Each part of the invariant speaks of one task or of one CPU, so that a  *)
(* step is proved on the task and the CPU it changes, and the others are   *)
(* left as they were: OtherTask, OtherCpu.                                 *)

\* A task that goes to sleep for no time at all would be awake before its CPU
\* has let go of it.
IoTakesTime == \A t \in Task : \A k \in DOMAIN Phases(t) : k % 2 = 0 => Phases(t)[k] > 0

\* The task descriptors
Descriptor == [state : {"new", "runnable", "onproc", "sleep", "completed"},
               phase : Nat, left : Int, since : Nat, real : Int, cpu : CPU]

\* The types of what the tasks are kept in
TaskTypeOK ==
    /\ rq \in [CPU -> SUBSET Task]
    /\ cur \in [CPU -> Task \cup {Idle}]
    /\ resched \in [CPU -> BOOLEAN]
    /\ task \in [Task -> Descriptor]
    /\ hand \in [CPU -> Task \cup {Idle}]
    /\ events \in [CPU -> Seq(Event)]
    /\ \A c \in CPU : EventList(events[c])

\* Task t is on the list of events of CPU c.
Waits(c, t) == \E x \in Entries(events[c]) : x.task = t

\* The CPU phases of a task are those of an odd number.
PhaseOK(t) ==
    /\ task[t].state \in {"runnable", "onproc"} =>
          task[t].phase \in 1 .. Len(Phases(t)) /\ task[t].phase % 2 = 1
    /\ task[t].state = "sleep" =>
          task[t].phase \in 1 .. Len(Phases(t)) /\ task[t].phase % 2 = 0

\* A task that has not started, or sleeps, is on just one list of events.
WaitOK(t) ==
    /\ task[t].state \in {"new", "sleep"} => \E c \in CPU : Waits(c, t)
    /\ \A c \in CPU : Waits(c, t) =>
          /\ task[t].state \in {"new", "sleep"}
          /\ \A d \in CPU : Waits(d, t) => c = d

\* A runnable one is in one queue, or in the hands of one balancer.
QueueOK(t) ==
    /\ task[t].state = "runnable" => \E c \in CPU : t \in rq[c] \/ hand[c] = t
    /\ \A c \in CPU : t \in rq[c] =>
          /\ task[t].state = "runnable"
          /\ \A d \in CPU : hand[d] # t /\ (t \in rq[d] => c = d)
    /\ \A c \in CPU : hand[c] = t =>
          /\ task[t].state = "runnable"
          /\ \A d \in CPU : hand[d] = t => c = d

\* A running one is current, and no task is current on two CPUs.
RunsOK(t) ==
    /\ task[t].state = "onproc" => \E c \in CPU : cur[c] = t
    /\ \A c, d \in CPU : cur[c] = t /\ cur[d] = t => c = d

TaskOK(t) == PhaseOK(t) /\ WaitOK(t) /\ QueueOK(t) /\ RunsOK(t)

\* Where a CPU can be between the tick that ends a phase and schedule
LeavePlaces == {"wake", "balance", "schedule"} \cup Balancing

\* The current task of a CPU has finished its phase, and is about to be replaced.
Leaving(c) ==
    /\ resched[c] /\ step[c] # -1 /\ pc[c] \in LeavePlaces
    /\ \/ task[cur[c]].state = "completed"
       \/ /\ task[cur[c]].state = "sleep"
          /\ \E x \in Entries(events[c]) : x.task = cur[c] /\ x.timeout > step[c] + 1

\* A current task runs, or is about to be replaced.
CurOK(c) ==
    /\ cur[c] # Idle => task[cur[c]].state = "onproc" \/ Leaving(c)
    /\ step[c] = -1 => cur[c] = Idle
    /\ hand[c] # Idle <=> pc[c] = "give"

\* No event is late.
AheadOK(c) == \A x \in Entries(events[c]) :
    /\ x.timeout >= step[c] + 1
    /\ pc[c] \notin {"wake", "tick", "done"} => x.timeout > step[c] + 1

CpuOK(c) == CurOK(c) /\ AheadOK(c)

TaskInv == TaskTypeOK /\ (\A t \in Task : TaskOK(t)) /\ (\A c \in CPU : CpuOK(c))

\* A task that a step leaves in its place
Stays(t) ==
    /\ task'[t].state = task[t].state /\ task'[t].phase = task[t].phase
    /\ \A c \in CPU : /\ Waits(c, t)' <=> Waits(c, t)
                      /\ t \in rq'[c] <=> t \in rq[c]
                      /\ hand'[c] = t <=> hand[c] = t
                      /\ cur'[c] = t <=> cur[c] = t

\* The invariant of such a task
LEMMA OtherTask ==
  ASSUME NEW t \in Task, TaskOK(t), Stays(t) PROVE TaskOK(t)'
<1>1. PhaseOK(t)'
  BY DEF TaskOK, PhaseOK, Stays
<1>2. WaitOK(t)'
  <2> HIDE DEF Waits
  <2> QED BY DEF TaskOK, WaitOK, Stays
<1>3. QueueOK(t)'
  BY DEF TaskOK, QueueOK, Stays
<1>4. RunsOK(t)'
  BY DEF TaskOK, RunsOK, Stays
<1> QED BY <1>1, <1>2, <1>3, <1>4 DEF TaskOK

\* A CPU that a step leaves alone
Rests(c) ==
    /\ pc'[c] = pc[c] /\ step'[c] = step[c] /\ cur'[c] = cur[c] /\ hand'[c] = hand[c]
    /\ resched'[c] = resched[c] /\ events'[c] = events[c]
    /\ cur[c] # Idle => task'[cur[c]].state = task[cur[c]].state

\* The invariant of such a CPU
LEMMA OtherCpu ==
  ASSUME NEW c \in CPU, CpuOK(c), Rests(c) PROVE CpuOK(c)'
<1>1. cur[c] # Idle => (Leaving(c)' <=> Leaving(c))
  BY DEF Rests, Leaving
<1>2. CurOK(c)'
  BY <1>1 DEF Rests, CpuOK, CurOK
<1>3. AheadOK(c)'
  BY DEF Rests, CpuOK, AheadOK
<1> QED BY <1>2, <1>3 DEF CpuOK

\* A step that leaves every task where it is
LEMMA QuietKeepsTasks ==
  ASSUME TaskInv, UNCHANGED <<rq, cur, resched, events, task, hand>>,
         \A d \in CPU :
            \/ pc'[d] = pc[d] /\ step'[d] = step[d]
            \/ /\ pc[d] # "give" /\ pc'[d] # "give"
               /\ step'[d] = -1 => step[d] = -1
               /\ pc[d] \in LeavePlaces /\ step[d] # -1 =>
                     pc'[d] \in LeavePlaces /\ step'[d] = step[d]
               /\ \A x \in Entries(events[d]) :
                    /\ x.timeout >= step'[d] + 1
                    /\ pc'[d] \notin {"wake", "tick", "done"} => x.timeout > step'[d] + 1
  PROVE  TaskInv'
<1>1. TaskTypeOK'
  BY DEF TaskInv, TaskTypeOK
<1>2. ASSUME NEW t \in Task PROVE TaskOK(t)'
  <2>1. Stays(t)
    BY DEF Stays, Waits
  <2> QED BY <2>1, OtherTask DEF TaskInv
<1>3. ASSUME NEW c \in CPU PROVE CpuOK(c)'
  <2>1. cur[c] # Idle /\ Leaving(c) => Leaving(c)'
    BY DEF Leaving
  <2>2. CurOK(c)'
    BY <2>1 DEF TaskInv, CpuOK, CurOK
  <2>3. AheadOK(c)'
    BY DEF TaskInv, CpuOK, AheadOK
  <2> QED BY <2>2, <2>3 DEF CpuOK
<1> QED BY <1>1, <1>2, <1>3 DEF TaskInv

\* What the steps below need of the types
LEMMA TaskTypes ==
  ASSUME TaskInv
  PROVE  /\ \A t \in Task :
              /\ task[t].state \in {"new", "runnable", "onproc", "sleep", "completed"}
              /\ task[t].phase \in Nat /\ task[t].left \in Int /\ task[t].since \in Nat
              /\ task[t].real \in Int /\ task[t].cpu \in CPU
         /\ \A c \in CPU : \A x \in Entries(events[c]) :
              x \in Event /\ x.task \in Task /\ x.timeout \in Nat
         /\ \A c \in CPU : cur[c] \in Task \cup {Idle} /\ hand[c] \in Task \cup {Idle}
         /\ \A c \in CPU : rq[c] \subseteq Task /\ EventList(events[c])
         /\ Idle \notin Task
<1>1. ASSUME NEW c \in CPU, NEW i \in DOMAIN events[c] PROVE events[c][i] \in Event
  BY ListElements DEF TaskInv, TaskTypeOK
<1>2. \A x \in Event : x.task \in Task /\ x.timeout \in Nat
  BY DEF Event
<1>3. \A t \in Task : task[t] \in Descriptor
  BY DEF TaskInv, TaskTypeOK
<1>4. \A t \in Task :
        /\ task[t].state \in {"new", "runnable", "onproc", "sleep", "completed"}
        /\ task[t].phase \in Nat /\ task[t].left \in Int /\ task[t].since \in Nat
        /\ task[t].real \in Int /\ task[t].cpu \in CPU
  BY <1>3 DEF Descriptor
<1>5. \A c \in CPU : \A x \in Entries(events[c]) : x \in Event
  BY <1>1 DEF Entries
<1>6. /\ \A c \in CPU : cur[c] \in Task \cup {Idle} /\ hand[c] \in Task \cup {Idle}
      /\ \A c \in CPU : rq[c] \subseteq Task /\ EventList(events[c])
  BY DEF TaskInv, TaskTypeOK
<1> QED BY <1>2, <1>4, <1>5, <1>6, SchedAssumption

\* The steps that leave every task where it is
LEMMA OthersKeepTasks ==
  ASSUME RoundInv, TaskInv, NEW c \in CPU,
         \/ WakeDone(c) \/ Continue(c) \/ BalanceBegin(c) \/ ReadLoad(c) \/ SkipTrial(c)
         \/ DoubleLock(c) \/ LockRemote(c) \/ LockThis(c) \/ NoMove(c) \/ BalanceEnd(c)
         \/ FirstBarrier(c) \/ Count(c) \/ SecondBarrier(c)
  PROVE  TaskInv'
<1> USE DEF queues, balancer, Goto, LeavePlaces, Balancing
<1>0. /\ pc \in [CPU -> Place] /\ step \in [CPU -> Int]
      /\ \A d \in CPU : step[d] >= -1 /\ (step[d] = -1 => pc[d] \in {"wake", "first"})
  BY DEF RoundInv, RoundTypeOK
<1>6. \A d \in CPU : \A x \in Entries(events[d]) :
            /\ x.timeout >= step[d] + 1 /\ x.timeout \in Nat
            /\ pc[d] \notin {"wake", "tick", "done"} => x.timeout > step[d] + 1
  BY TaskTypes DEF TaskInv, CpuOK, AheadOK
<1>1. CASE WakeDone(c)
  <2>1. \A x \in Entries(events[c]) : x.timeout > step[c] + 1
    <3>1. CASE events[c] = <<>>
      BY <3>1 DEF Entries
    <3>2. CASE events[c] # <<>>
      <4>1. Head(events[c]) \in Entries(events[c]) /\ Head(events[c]).timeout # step[c] + 1
            /\ \A x \in Entries(events[c]) : x.timeout >= Head(events[c]).timeout
        BY <1>1, <3>2, TailResult DEF WakeDone, Due, TaskInv, TaskTypeOK
      <4> QED BY <1>0, <1>6, <4>1
    <3> QED BY <3>1, <3>2
  <2>2. /\ UNCHANGED <<rq, cur, resched, events, task, hand>> /\ step' = step
        /\ pc[c] = "wake" /\ pc'[c] = IF step[c] = -1 THEN "first" ELSE "balance"
        /\ \A d \in CPU : d # c => pc'[d] = pc[d]
    BY <1>0, <1>1 DEF WakeDone
  <2>3. \A x \in Entries(events[c]) : x.timeout >= step'[c] + 1 /\ x.timeout > step'[c] + 1
    BY <1>6, <2>1, <2>2
  <2> QED BY <1>0, <2>2, <2>3, QuietKeepsTasks
<1>2. CASE Continue(c)
  <2>1. /\ UNCHANGED <<rq, cur, resched, events, task, hand>>
        /\ pc[c] = "next" /\ step' = [step EXCEPT ![c] = @ + 1]
        /\ \E q \in {"tick", "done"} : pc' = [pc EXCEPT ![c] = q]
    BY <1>2 DEF Continue, LoopTest
  <2>2. \A x \in Entries(events[c]) : x.timeout >= step'[c] + 1
    BY <1>0, <1>6, <2>1
  <2> QED BY <1>0, <2>1, <2>2, QuietKeepsTasks
<1>3. CASE \/ BalanceBegin(c) \/ ReadLoad(c) \/ SkipTrial(c) \/ DoubleLock(c)
           \/ LockRemote(c) \/ LockThis(c) \/ NoMove(c) \/ BalanceEnd(c)
  <2>1. /\ UNCHANGED <<rq, cur, resched, events, task, hand>> /\ step' = step
        /\ \E p \in {"balance", "trial", "lockRemote", "lockThis", "move"},
              q \in {"schedule", "trial", "lockRemote", "lockThis", "move"} :
              pc[c] = p /\ pc' = [pc EXCEPT ![c] = q]
    BY <1>0, <1>3 DEF BalanceBegin, ReadLoad, SkipTrial, Decided, DoubleLock, LockRemote, LockThis,
       NoMove, EndTrial, BalanceEnd
  <2> QED BY <1>0, <1>6, <2>1, QuietKeepsTasks
<1>4. CASE Count(c)
  <2>1. /\ UNCHANGED <<rq, cur, resched, events, task, hand>> /\ step' = step
        /\ pc[c] = "count" /\ pc' = [pc EXCEPT ![c] = "counted"]
    BY <1>4 DEF Count
  <2> QED BY <1>0, <1>6, <2>1, QuietKeepsTasks
<1>5. CASE FirstBarrier(c) \/ SecondBarrier(c)
  <2>1. /\ UNCHANGED <<rq, cur, resched, events, task, hand>> /\ step' = step
        /\ pc[c] \in {"sync", "counted"}
        /\ \/ \E q \in {"sync_in", "counted_in"} : pc' = [pc EXCEPT ![c] = q]
           \/ /\ \A d \in CPU \ {c} : pc[d] \in {"sync_in", "counted_in"}
              /\ \E q \in {"count", "next"} : pc' = [d \in CPU |-> q]
    BY <1>5, Zenon DEF FirstBarrier, SecondBarrier, Barrier
  <2>2. \A d \in CPU : \/ pc'[d] = pc[d]
                       \/ /\ pc[d] \in {"sync", "counted", "sync_in", "counted_in"}
                          /\ pc'[d] \in {"sync_in", "counted_in", "count", "next"}
    BY <1>0, <2>1
  <2> QED BY <1>0, <1>6, <2>1, <2>2, QuietKeepsTasks
<1> QED BY <1>1, <1>2, <1>3, <1>4, <1>5

\* The first task of a CPU, taken from its queue
LEMMA FirstPickKeepsTasks ==
  ASSUME RoundInv, TaskInv, NEW c \in CPU, FirstPick(c)
  PROVE  TaskInv'
<1>0. /\ pc \in [CPU -> Place] /\ step \in [CPU -> Int] /\ pc[c] = "first" /\ step[c] = -1
  BY DEF RoundInv, RoundTypeOK, FirstPick
<1>1. /\ step' = [step EXCEPT ![c] = @ + 1]
      /\ \E q \in {"tick", "done"} : pc' = [pc EXCEPT ![c] = q]
      /\ UNCHANGED <<resched, events, hand>>
  BY DEF FirstPick, LoopTest, balancer
<1>2. /\ step'[c] = 0 /\ pc'[c] \in {"tick", "done"}
      /\ \A d \in CPU : d # c => pc'[d] = pc[d] /\ step'[d] = step[d]
  BY <1>0, <1>1
<1>3. \A x \in Entries(events[c]) : x.timeout >= step'[c] + 1
  BY <1>0, <1>2, TaskTypes DEF TaskInv, CpuOK, AheadOK
<1>4. CASE UNCHANGED <<rq, cur, task>>
  BY <1>0, <1>1, <1>2, <1>3, <1>4, QuietKeepsTasks DEF LeavePlaces, Balancing
<1>5. ASSUME NEW t \in rq[c], rq' = [rq EXCEPT ![c] = @ \ {t}],
             cur' = [cur EXCEPT ![c] = t], task' = [task EXCEPT ![t].state = "onproc"]
      PROVE  TaskInv'
  <2>1. /\ t \in Task /\ t # Idle /\ cur[c] = Idle /\ TaskOK(t)
    BY <1>0, TaskTypes DEF TaskInv, CpuOK, CurOK
  <2>2. /\ task[t].state = "runnable"
        /\ \A d \in CPU : hand[d] # t /\ (t \in rq[d] => d = c) /\ ~Waits(d, t)
    BY <2>1, Zenon DEF TaskOK, QueueOK, WaitOK
  <2>3. \A d \in CPU : cur[d] # t
    BY <2>1, <2>2 DEF TaskInv, CpuOK, CurOK, Leaving
  <2>4. /\ \A u \in Task \ {t} : task'[u] = task[u]
        /\ task'[t] = [task[t] EXCEPT !.state = "onproc"]
        /\ cur'[c] = t /\ rq'[c] = rq[c] \ {t}
        /\ \A d \in CPU \ {c} : cur'[d] = cur[d] /\ rq'[d] = rq[d]
    BY <1>5, <2>1 DEF TaskInv, TaskTypeOK
  <2>5. task'[t].state = "onproc" /\ task'[t].phase = task[t].phase /\ task'[t] \in Descriptor
    BY <2>1, <2>4 DEF TaskInv, TaskTypeOK, Descriptor
  <2>6. TaskTypeOK'
    BY <1>1, <1>5, <2>1, <2>4, <2>5 DEF TaskInv, TaskTypeOK
  <2>7. \A d \in CPU, u \in Task : Waits(d, u)' <=> Waits(d, u)
    BY <1>1 DEF Waits
  <2>8. ASSUME NEW u \in Task PROVE TaskOK(u)'
    <3>1. CASE u # t
      <4>1. Stays(u)
        BY <1>1, <2>1, <2>4, <2>7, <3>1, TaskTypes DEF Stays
      <4> QED BY <4>1, OtherTask DEF TaskInv
    <3>2. CASE u = t
      <4>1. PhaseOK(t)'
        BY <2>1, <2>2, <2>5 DEF TaskOK, PhaseOK
      <4>2. WaitOK(t)' /\ QueueOK(t)' /\ RunsOK(t)'
        BY <1>1, <2>1, <2>2, <2>3, <2>4, <2>5, <2>7 DEF WaitOK, QueueOK, RunsOK
      <4> QED BY <3>2, <4>1, <4>2 DEF TaskOK
    <3> QED BY <3>1, <3>2
  <2>9. ASSUME NEW d \in CPU PROVE CpuOK(d)'
    <3>1. CASE d # c
      <4>1. Rests(d)
        BY <1>1, <1>2, <2>3, <2>4, <3>1, TaskTypes DEF Rests
      <4> QED BY <4>1, OtherCpu DEF TaskInv
    <3>2. CASE d = c
      <4>1. hand[c] = Idle
        BY <1>0 DEF TaskInv, CpuOK, CurOK
      <4>2. CurOK(c)'
        <5>0. cur'[c] = t
          BY <2>4
        <5>1. task'[cur'[c]].state = "onproc" /\ step'[c] # -1
          <6>1. step'[c] # -1
            BY <1>2
          <6>2. task'[cur'[c]].state = "onproc"
            BY <5>0, <2>5
          <6> QED BY <6>1, <6>2
        <5>2. hand'[c] = Idle /\ pc'[c] # "give"
          BY <1>1, <1>2, <4>1
        <5> QED BY <5>1, <5>2 DEF CurOK
      <4>3. AheadOK(c)'
        BY <1>1, <1>2, <1>3 DEF AheadOK
      <4> QED BY <3>2, <4>2, <4>3 DEF CpuOK
    <3> QED BY <3>1, <3>2
  <2> QED BY <2>6, <2>8, <2>9 DEF TaskInv
<1> QED BY <1>4, <1>5 DEF FirstPick

\* A task on the way from a queue into the hands of a balancer ...
LEMMA StealKeepsTasks ==
  ASSUME RoundInv, BalanceInv, TaskInv, NEW c \in CPU, Steal(c)
  PROVE  TaskInv'
<1>0. /\ pc \in [CPU -> Place] /\ step \in [CPU -> Int] /\ pc[c] = "move"
      /\ step[c] # -1 /\ hand[c] = Idle
  BY DEF RoundInv, RoundTypeOK, Steal, Goto, TaskInv, CpuOK, CurOK
<1>1. /\ UNCHANGED <<step, cur, resched, events, task>>
      /\ pc' = [pc EXCEPT ![c] = "give"]
  BY DEF Steal, Goto
<1>2. Source(c) \in CPU
  BY <1>0 DEF BalanceInv, RemoteOK, Trading, Source
<1>3. PICK t \in rq[Source(c)] : /\ rq' = [rq EXCEPT ![Source(c)] = @ \ {t}]
                                 /\ hand' = [hand EXCEPT ![c] = t]
  BY DEF Steal
<1>4. t \in Task /\ t # Idle /\ TaskOK(t)
  BY <1>2, TaskTypes DEF TaskInv
<1>5. /\ task[t].state = "runnable"
      /\ \A d \in CPU : hand[d] # t /\ (t \in rq[d] => d = Source(c)) /\ ~Waits(d, t)
  BY <1>2, <1>4, Zenon DEF TaskOK, QueueOK, WaitOK
<1>6. /\ pc'[c] = "give" /\ hand'[c] = t /\ rq'[Source(c)] = rq[Source(c)] \ {t}
      /\ \A d \in CPU : d # c => pc'[d] = pc[d] /\ hand'[d] = hand[d]
      /\ \A d \in CPU : d # Source(c) => rq'[d] = rq[d]
  BY <1>0, <1>1, <1>2, <1>3 DEF TaskInv, TaskTypeOK
<1>7. TaskTypeOK'
  BY <1>1, <1>2, <1>3, <1>4 DEF TaskInv, TaskTypeOK
<1>8. \A d \in CPU, u \in Task : Waits(d, u)' <=> Waits(d, u)
  BY <1>1 DEF Waits
<1>9. ASSUME NEW u \in Task PROVE TaskOK(u)'
  <2>1. CASE u # t
    <3>1. Stays(u)
      BY <1>0, <1>1, <1>2, <1>4, <1>6, <1>8, <2>1, TaskTypes DEF Stays
    <3> QED BY <3>1, OtherTask DEF TaskInv
  <2>2. CASE u = t
    <3>1. PhaseOK(t)' /\ WaitOK(t)' /\ RunsOK(t)'
      BY <1>1, <1>4, <1>8 DEF TaskOK, PhaseOK, WaitOK, RunsOK
    <3>2. QueueOK(t)'
      BY <1>0, <1>1, <1>2, <1>4, <1>5, <1>6 DEF QueueOK
    <3> QED BY <2>2, <3>1, <3>2 DEF TaskOK
  <2> QED BY <2>1, <2>2
<1>10. ASSUME NEW d \in CPU PROVE CpuOK(d)'
  <2>1. CASE d # c
    <3>1. Rests(d)
      BY <1>1, <1>6, <2>1 DEF Rests
    <3> QED BY <3>1, OtherCpu DEF TaskInv
  <2>2. CASE d = c
    <3>1. Leaving(c) => Leaving(c)'
      BY <1>0, <1>1, <1>6 DEF Leaving, LeavePlaces, Balancing
    <3> QED BY <1>0, <1>1, <1>4, <1>6, <2>2, <3>1 DEF TaskInv, CpuOK, CurOK, AheadOK
  <2> QED BY <2>1, <2>2
<1> QED BY <1>7, <1>9, <1>10 DEF TaskInv

\* ... and from there into a queue
LEMMA GiveKeepsTasks ==
  ASSUME RoundInv, BalanceInv, TaskInv, NEW c \in CPU, Give(c)
  PROVE  TaskInv'
<1>0. /\ pc \in [CPU -> Place] /\ step \in [CPU -> Int] /\ pc[c] = "give"
      /\ step[c] >= -1 /\ step[c] # -1
  BY DEF RoundInv, RoundTypeOK, Give
<1>1. PICK t \in Task : t = hand[c] /\ t # Idle /\ TaskOK(t)
  BY <1>0, TaskTypes DEF TaskInv, CpuOK, CurOK
<1>2. /\ UNCHANGED <<step, cur, resched, events>>
      /\ pc' = [pc EXCEPT ![c] = "trial"]
      /\ hand' = [hand EXCEPT ![c] = Idle]
      /\ rq' = [rq EXCEPT ![Target(c)] = @ \cup {t}]
      /\ task' = [task EXCEPT ![t] = Moved(c, t)]
  BY <1>1 DEF Give, EndTrial
<1>3. Target(c) \in CPU
  BY <1>0 DEF BalanceInv, RemoteOK, Trading, Target
<1>4. /\ task[t].state = "runnable"
      /\ \A d \in CPU : t \notin rq[d] /\ (hand[d] = t => d = c) /\ ~Waits(d, t)
  BY <1>1, Zenon DEF TaskOK, QueueOK, WaitOK
<1>5. /\ pc'[c] = "trial" /\ hand'[c] = Idle /\ rq'[Target(c)] = rq[Target(c)] \cup {t}
      /\ \A d \in CPU : d # c => pc'[d] = pc[d] /\ hand'[d] = hand[d]
      /\ \A d \in CPU : d # Target(c) => rq'[d] = rq[d]
  BY <1>0, <1>2, <1>3 DEF TaskInv, TaskTypeOK
<1>6. task[t] \in Descriptor /\ step[c] + 1 \in Nat
  BY <1>0, <1>1 DEF TaskInv, TaskTypeOK
<1>7. /\ Moved(c, t) \in Descriptor
      /\ Moved(c, t).state = task[t].state /\ Moved(c, t).phase = task[t].phase
  <2>1. task[t].real \in Int /\ task[t].since \in Nat /\ step[c] \in Int
    BY <1>0, <1>1, TaskTypes
  <2>2. task[t].real + (step[c] - task[t].since + 1) \in Int
    BY <2>1
  <2> QED BY <1>6, <2>2 DEF Moved, Descriptor
<1>8. /\ task' \in [Task -> Descriptor]
      /\ \A u \in Task : task'[u].state = task[u].state /\ task'[u].phase = task[u].phase
  BY <1>1, <1>2, <1>7 DEF TaskInv, TaskTypeOK
<1>9. TaskTypeOK'
  BY <1>1, <1>2, <1>3, <1>8 DEF TaskInv, TaskTypeOK
<1>10. \A d \in CPU, u \in Task : Waits(d, u)' <=> Waits(d, u)
  BY <1>2 DEF Waits
<1>11. ASSUME NEW u \in Task PROVE TaskOK(u)'
  <2>1. CASE u # t
    <3>1. Stays(u)
      BY <1>0, <1>1, <1>2, <1>3, <1>5, <1>8, <1>10, <2>1, TaskTypes DEF Stays
    <3> QED BY <3>1, OtherTask DEF TaskInv
  <2>2. CASE u = t
    <3>1. PhaseOK(t)' /\ WaitOK(t)' /\ RunsOK(t)'
      BY <1>1, <1>2, <1>8, <1>10 DEF TaskOK, PhaseOK, WaitOK, RunsOK
    <3>2. QueueOK(t)'
      BY <1>1, <1>3, <1>4, <1>5, <1>8 DEF QueueOK
    <3> QED BY <2>2, <3>1, <3>2 DEF TaskOK
  <2> QED BY <2>1, <2>2
<1>12. ASSUME NEW d \in CPU PROVE CpuOK(d)'
  <2>1. CASE d # c
    <3>1. Rests(d)
      BY <1>2, <1>5, <1>8, <2>1, TaskTypes DEF Rests
    <3> QED BY <3>1, OtherCpu DEF TaskInv
  <2>2. CASE d = c
    <3>1. cur[c] # Idle => task'[cur[c]].state = task[cur[c]].state
      BY <1>8, TaskTypes
    <3>2. cur[c] # Idle /\ Leaving(c) => Leaving(c)'
      BY <1>0, <1>2, <1>5, <3>1 DEF Leaving, LeavePlaces, Balancing
    <3> QED BY <1>0, <1>2, <1>5, <2>2, <3>1, <3>2 DEF TaskInv, CpuOK, CurOK, AheadOK
  <2> QED BY <2>1, <2>2
<1> QED BY <1>9, <1>11, <1>12 DEF TaskInv

\* The task that wakes up is current nowhere.
LEMMA WakesOnce ==
  ASSUME TaskInv, NEW c \in CPU, Due(c)
  PROVE  \E t \in Task :
            /\ Head(events[c]).task = t /\ TaskOK(t) /\ task[t].state \in {"new", "sleep"}
            /\ \A d \in CPU : /\ t \notin rq[d] /\ hand[d] # t /\ cur[d] # t
                              /\ Waits(d, t) => d = c
            /\ EventList(Tail(events[c]))
            /\ \A x \in Entries(Tail(events[c])) : x \in Entries(events[c]) /\ x.task # t
            /\ \A x \in Entries(events[c]) : x.task # t => x \in Entries(Tail(events[c]))
<1>1. EventList(events[c]) /\ events[c] # <<>>
  BY TaskTypes DEF Due
<1> DEFINE e == Head(events[c])
<1>2. /\ EventList(Tail(events[c])) /\ e \in Entries(events[c]) /\ e \in Event
      /\ Entries(Tail(events[c])) = Entries(events[c]) \ {e}
      /\ \A x \in Entries(events[c]) : x # e => x.task # e.task
  BY <1>1, TailResult
<1> HIDE DEF e
<1>3. PICK t \in Task : e.task = t
  BY <1>2 DEF Event
<1>4. Waits(c, t) /\ TaskOK(t)
  BY <1>2, <1>3 DEF Waits, TaskInv
<1>5. /\ task[t].state \in {"new", "sleep"}
      /\ \A d \in CPU : t \notin rq[d] /\ hand[d] # t /\ (Waits(d, t) => d = c)
  <2>1. task[t].state \in {"new", "sleep"} /\ \A d \in CPU : Waits(d, t) => d = c
    BY <1>4, Zenon DEF TaskOK, WaitOK
  <2> QED BY <1>4, <2>1 DEF TaskOK, QueueOK
<1>6. ASSUME NEW d \in CPU, cur[d] = t PROVE FALSE
  <2>1. task[t].state = "sleep" /\ \E x \in Entries(events[d]) : x.task = t /\ x.timeout > step[d] + 1
    BY <1>5, <1>6, TaskTypes DEF TaskInv, CpuOK, CurOK, Leaving
  <2>2. d = c
    BY <1>5, <2>1 DEF Waits
  <2>3. e.timeout > step[c] + 1
    BY <1>2, <1>3, <2>1, <2>2
  <2>4. e.timeout = step[c] + 1 /\ e.timeout \in Nat
    BY <1>2 DEF Due, e, Event
  <2> QED BY <2>3, <2>4
<1>7. /\ \A x \in Entries(Tail(events[c])) : x \in Entries(events[c]) /\ x.task # t
      /\ \A x \in Entries(events[c]) : x.task # t => x \in Entries(Tail(events[c]))
  BY <1>2, <1>3
<1> QED BY <1>2, <1>3, <1>4, <1>5, <1>6, <1>7 DEF e

\* The CPUs, as the first event is taken from the list of one of them
LEMMA WakeKeepsCpus ==
  ASSUME TaskInv, NEW c \in CPU, NEW t \in Task, \A d \in CPU : cur[d] # t,
         UNCHANGED <<pc, step, cur, resched, hand>>,
         events'[c] = Tail(events[c]), \A d \in CPU : d # c => events'[d] = events[d],
         \A x \in Entries(Tail(events[c])) : x \in Entries(events[c]),
         \A x \in Entries(events[c]) : x.task # t => x \in Entries(Tail(events[c])),
         \A d \in CPU : cur[d] # Idle => task'[cur[d]].state = task[cur[d]].state
  PROVE  \A d \in CPU : CpuOK(d)'
<1> SUFFICES ASSUME NEW d \in CPU PROVE CpuOK(d)'
  OBVIOUS
<1>1. CASE d # c
  <2>1. Rests(d)
    BY <1>1 DEF Rests
  <2> QED BY <2>1, OtherCpu DEF TaskInv
<1>2. CASE d = c
  <2>1. cur[c] # Idle /\ Leaving(c) => Leaving(c)'
    BY DEF Leaving
  <2>2. CurOK(c)'
    BY <2>1 DEF TaskInv, CpuOK, CurOK
  <2>3. AheadOK(c)'
    BY DEF TaskInv, CpuOK, AheadOK
  <2> QED BY <1>2, <2>2, <2>3 DEF CpuOK
<1> QED BY <1>1, <1>2

\* A task on the way from a list of events into a queue, or to its end
LEMMA WakeKeepsTasks ==
  ASSUME RoundInv, TaskInv, NEW c \in CPU, Wake(c)
  PROVE  TaskInv'
<1>0. /\ step \in [CPU -> Int] /\ step[c] >= -1 /\ step[c] + 1 \in Nat
  BY DEF RoundInv, RoundTypeOK
<1>1. PICK t \in Task :
            /\ Head(events[c]).task = t /\ TaskOK(t) /\ task[t].state \in {"new", "sleep"}
            /\ \A d \in CPU : /\ t \notin rq[d] /\ hand[d] # t /\ cur[d] # t
                              /\ Waits(d, t) => d = c
            /\ EventList(Tail(events[c]))
            /\ \A x \in Entries(Tail(events[c])) : x \in Entries(events[c]) /\ x.task # t
            /\ \A x \in Entries(events[c]) : x.task # t => x \in Entries(Tail(events[c]))
  BY WakesOnce DEF Wake
<1>2. PICK k : /\ k = IF task[t].state = "new" THEN 1 ELSE task[t].phase + 1
               /\ IF k > Len(Phases(t))
                  THEN /\ task' = [task EXCEPT ![t].state = "completed", ![t].phase = k]
                       /\ rq' = rq
                  ELSE /\ task' = [task EXCEPT ![t].state = "runnable", ![t].phase = k,
                                               ![t].left = Phases(t)[k],
                                               ![t].since = step[c] + 1]
                       /\ rq' = [rq EXCEPT ![c] = @ \cup {t}]
  BY <1>1 DEF Wake
<1>3. /\ events' = [events EXCEPT ![c] = Tail(@)]
      /\ UNCHANGED <<pc, step, cur, resched, hand>>
  BY DEF Wake, balancer
<1>4. /\ events'[c] = Tail(events[c]) /\ \A d \in CPU : d # c => events'[d] = events[d]
      /\ EventList(events'[c]) /\ events' \in [CPU -> Seq(Event)]
  <2>1. Tail(events[c]) \in Seq(Event)
    BY <1>1, ListElements
  <2> QED BY <1>1, <1>3, <2>1 DEF TaskInv, TaskTypeOK
<1>5. /\ \A d \in CPU : ~Waits(d, t)'
      /\ \A d \in CPU, u \in Task : u # t => (Waits(d, u)' <=> Waits(d, u))
  BY <1>1, <1>4 DEF Waits
<1>6. Phases(t) \in Seq(Nat) /\ Len(Phases(t)) \in Nat /\ task[t] \in Descriptor /\ k \in Nat
      /\ k > 0 /\ (task[t].state = "new" => k = 1) /\ (task[t].state # "new" => k = task[t].phase + 1)
  <2>1. Phases(t) \in Seq(Nat) /\ task[t] \in Descriptor
    BY SchedAssumption DEF TaskInv, TaskTypeOK
  <2>2. task[t].phase \in Nat
    BY <2>1 DEF Descriptor
  <2> QED BY <1>2, <2>1, <2>2, LenProperties
<1>7. CASE k > Len(Phases(t))
  <2>1. task'[t] = [task[t] EXCEPT !.state = "completed", !.phase = k]
    BY <1>2, <1>7 DEF TaskInv, TaskTypeOK
  <2>2. task'[t] \in Descriptor /\ task'[t].state = "completed" /\ rq' = rq
    BY <1>2, <1>6, <1>7, <2>1 DEF Descriptor
  <2>3. \A u \in Task : u # t => task'[u] = task[u]
    BY <1>2, <1>7 DEF TaskInv, TaskTypeOK
  <2>4. task' \in [Task -> Descriptor]
    <3>1. \A u \in Task : task'[u] \in Descriptor
      BY <2>2, <2>3 DEF TaskInv, TaskTypeOK
    <3> QED BY <1>2, <1>7, <3>1 DEF TaskInv, TaskTypeOK
  <2>5. TaskTypeOK'
    BY <1>3, <1>4, <2>2, <2>4 DEF TaskInv, TaskTypeOK
  <2>6. TaskOK(t)'
    BY <1>1, <1>3, <1>5, <2>2 DEF TaskOK, PhaseOK, WaitOK, QueueOK, RunsOK
  <2>7. ASSUME NEW u \in Task, u # t PROVE TaskOK(u)'
    <3>1. Stays(u)
      BY <1>3, <1>5, <2>2, <2>3, <2>7 DEF Stays
    <3> QED BY <3>1, OtherTask DEF TaskInv
  <2>8. \A d \in CPU : cur[d] # Idle => task'[cur[d]].state = task[cur[d]].state
    BY <1>1, <2>3, TaskTypes
  <2> QED BY <2>5, <2>6, <2>7, <2>8, <1>1, <1>3, <1>4, WakeKeepsCpus DEF TaskInv
<1>8. CASE ~(k > Len(Phases(t)))
  <2>0. Phases(t)[k] \in Nat
    BY <1>6, <1>8, ElementOfSeq
  <2>1. task'[t] = [task[t] EXCEPT !.state = "runnable", !.phase = k,
                                   !.left = Phases(t)[k], !.since = step[c] + 1]
    BY <1>2, <1>8 DEF TaskInv, TaskTypeOK
  <2>2. task'[t] \in Descriptor /\ task'[t].state = "runnable" /\ task'[t].phase = k
    <3>1. PICK l, s : l = Phases(t)[k] /\ s = step[c] + 1 /\ l \in Int /\ s \in Nat
      BY <1>0, <2>0
    <3>2. task'[t] = [task[t] EXCEPT !.state = "runnable", !.phase = k, !.left = l, !.since = s]
      BY <2>1, <3>1
    <3>3. task'[t] \in Descriptor
      BY <1>6, <3>1, <3>2 DEF Descriptor
    <3> QED BY <1>6, <2>1, <3>3 DEF Descriptor
  <2>3. /\ \A u \in Task : u # t => task'[u] = task[u]
        /\ rq'[c] = rq[c] \cup {t} /\ \A d \in CPU : d # c => rq'[d] = rq[d]
    BY <1>2, <1>8 DEF TaskInv, TaskTypeOK
  <2>4. task' \in [Task -> Descriptor] /\ rq' \in [CPU -> SUBSET Task]
    <3>1. \A u \in Task : task'[u] \in Descriptor
      BY <2>2, <2>3 DEF TaskInv, TaskTypeOK
    <3>2. \A d \in CPU : rq'[d] \in SUBSET Task
      BY <2>3, TaskTypes
    <3> QED BY <1>2, <1>8, <3>1, <3>2 DEF TaskInv, TaskTypeOK
  <2>5. TaskTypeOK'
    BY <1>3, <1>4, <2>4 DEF TaskInv, TaskTypeOK
  <2>6. TaskOK(t)'
    <3>1. PhaseOK(t)'
      <4>1. task[t].state = "sleep" => task[t].phase \in Nat /\ task[t].phase % 2 = 0
        BY <1>1, TaskTypes DEF TaskOK, PhaseOK
      <4>2. \A n \in Nat : n % 2 = 0 => (n + 1) % 2 = 1
        OBVIOUS
      <4>3. k % 2 = 1
        <5>1. CASE task[t].state = "new"
          BY <1>6, <5>1
        <5>2. CASE task[t].state = "sleep"
          <6>1. k = task[t].phase + 1
            BY <1>6, <5>2
          <6> QED BY <4>1, <4>2, <5>2, <6>1
        <5> QED BY <1>1, <5>1, <5>2
      <4> QED BY <1>6, <1>8, <2>2, <4>3 DEF PhaseOK
    <3>2. WaitOK(t)' /\ RunsOK(t)'
      BY <1>1, <1>3, <1>5, <2>2 DEF WaitOK, RunsOK
    <3>3. QueueOK(t)'
      BY <1>1, <1>3, <2>2, <2>3 DEF QueueOK
    <3> QED BY <3>1, <3>2, <3>3 DEF TaskOK
  <2>7. ASSUME NEW u \in Task, u # t PROVE TaskOK(u)'
    <3>1. Stays(u)
      BY <1>3, <1>5, <2>3, <2>7 DEF Stays
    <3> QED BY <3>1, OtherTask DEF TaskInv
  <2>8. \A d \in CPU : cur[d] # Idle => task'[cur[d]].state = task[cur[d]].state
    BY <1>1, <2>3, TaskTypes
  <2> QED BY <2>5, <2>6, <2>7, <2>8, <1>1, <1>3, <1>4, WakeKeepsCpus DEF TaskInv
<1> QED BY <1>7, <1>8

\* A CPU whose current task is not about to be replaced has it running.
LEMMA CurrentRuns ==
  ASSUME TaskInv, NEW c \in CPU, cur[c] # Idle, pc[c] \notin LeavePlaces \/ ~resched[c]
  PROVE  /\ cur[c] \in Task /\ TaskOK(cur[c]) /\ task[cur[c]].state = "onproc"
         /\ \A d \in CPU : /\ ~Waits(d, cur[c]) /\ cur[c] \notin rq[d] /\ hand[d] # cur[c]
                           /\ cur[d] = cur[c] => d = c
<1>1. PICK t \in Task : t = cur[c] /\ TaskOK(t)
  BY TaskTypes DEF TaskInv
<1>2. task[t].state = "onproc"
  BY <1>1 DEF TaskInv, CpuOK, CurOK, Leaving
<1>3. \A d \in CPU : ~Waits(d, t) /\ t \notin rq[d] /\ hand[d] # t
  BY <1>1, <1>2, Zenon DEF TaskOK, WaitOK, QueueOK
<1>4. \A d \in CPU : cur[d] = t => d = c
  BY <1>1 DEF TaskOK, RunsOK
<1> QED BY <1>1, <1>2, <1>3, <1>4

\* The CPUs, as the current task of one of them ends its phase
LEMMA LeavesCpu ==
  ASSUME TaskInv, NEW c \in CPU, NEW t \in Task, \A d \in CPU : cur[d] = t => d = c,
         UNCHANGED <<step, cur, hand>>,
         pc[c] # "give", pc'[c] # "give", step[c] # -1,
         Leaving(c)', AheadOK(c)',
         \A d \in CPU : d # c =>
            pc'[d] = pc[d] /\ resched'[d] = resched[d] /\ events'[d] = events[d],
         \A u \in Task : u # t => task'[u] = task[u]
  PROVE  \A d \in CPU : CpuOK(d)'
<1> SUFFICES ASSUME NEW d \in CPU PROVE CpuOK(d)'
  OBVIOUS
<1>1. CASE d # c
  <2>1. Rests(d)
    BY <1>1, TaskTypes DEF Rests
  <2> QED BY <2>1, OtherCpu DEF TaskInv
<1>2. CASE d = c
  <2>1. CurOK(c)'
    BY DEF TaskInv, CpuOK, CurOK
  <2> QED BY <1>2, <2>1 DEF CpuOK
<1> QED BY <1>1, <1>2

\* A tick, which may send the current task to sleep or complete it
LEMMA TickKeepsTasks ==
  ASSUME IoTakesTime, RoundInv, TaskInv, NEW c \in CPU, Tick(c)
  PROVE  TaskInv'
<1>0. /\ pc \in [CPU -> Place] /\ step \in [CPU -> Int] /\ pc[c] = "tick"
      /\ step[c] >= -1 /\ step[c] # -1
  BY DEF RoundInv, RoundTypeOK, Tick, Goto
<1>1. /\ pc' = [pc EXCEPT ![c] = "wake"] /\ UNCHANGED <<step, rq, cur, hand>>
  BY DEF Tick, Goto, balancer
<1>2. /\ pc'[c] = "wake" /\ \A d \in CPU : d # c => pc'[d] = pc[d]
  BY <1>0, <1>1
<1>3. CASE cur[c] = Idle
  <2>1. UNCHANGED <<resched, events, task>>
    BY <1>3 DEF Tick
  <2>2. \A x \in Entries(events[c]) : x.timeout >= step'[c] + 1
    BY <1>1 DEF TaskInv, CpuOK, AheadOK
  <2> QED BY <1>0, <1>1, <1>2, <2>1, <2>2, QuietKeepsTasks DEF LeavePlaces, Balancing
<1>4. CASE cur[c] # Idle
  <2>1. PICK t \in Task :
          /\ t = cur[c] /\ TaskOK(t) /\ task[t].state = "onproc"
          /\ \A d \in CPU : /\ ~Waits(d, t) /\ t \notin rq[d] /\ hand[d] # t
                            /\ cur[d] = t => d = c
    BY <1>0, <1>4, CurrentRuns DEF LeavePlaces, Balancing
  <2>2. PICK tk : tk = [task[t] EXCEPT !.left = @ - 1, !.real = @ + 1, !.cpu = c]
    OBVIOUS
  <2>3. tk \in Descriptor /\ tk.state = "onproc" /\ tk.phase = task[t].phase /\ tk.cpu = c
    <3>1. task[t].left - 1 \in Int /\ task[t].real + 1 \in Int /\ task[t] \in Descriptor
      BY TaskTypes DEF TaskInv, TaskTypeOK
    <3> QED BY <2>1, <2>2, <3>1 DEF Descriptor
  <2>4. tk.phase \in 1 .. Len(Phases(t)) /\ tk.phase % 2 = 1 /\ Len(Phases(t)) \in Nat
        /\ Phases(t) \in Seq(Nat) /\ DOMAIN Phases(t) = 1 .. Len(Phases(t))
    <3>1. Phases(t) \in Seq(Nat)
      BY SchedAssumption
    <3> QED BY <2>1, <2>3, <3>1, LenProperties DEF TaskOK, PhaseOK
  <2>5. \A d \in CPU \ {c} : cur[d] # Idle => cur[d] # t
    BY <2>1
  <2>6. CASE tk.left # 0
    <3>1. /\ task' = [task EXCEPT ![t] = tk] /\ events' = events
          /\ \E ask \in BOOLEAN : resched' = [resched EXCEPT ![c] = @ \/ ask]
      BY <1>4, <2>1, <2>2, <2>6 DEF Tick, Charged
    <3>2. /\ task' \in [Task -> Descriptor]
          /\ \A u \in Task : task'[u].state = task[u].state /\ task'[u].phase = task[u].phase
      BY <2>1, <2>3, <3>1 DEF TaskInv, TaskTypeOK
    <3>3. resched' \in [CPU -> BOOLEAN] /\ \A d \in CPU : d # c => resched'[d] = resched[d]
      BY <3>1 DEF TaskInv, TaskTypeOK
    <3>4. TaskTypeOK'
      BY <1>1, <3>1, <3>2, <3>3 DEF TaskInv, TaskTypeOK
    <3>5. ASSUME NEW u \in Task PROVE TaskOK(u)'
      <4>1. Stays(u)
        BY <1>1, <3>1, <3>2 DEF Stays, Waits
      <4> QED BY <4>1, OtherTask DEF TaskInv
    <3>6. ASSUME NEW d \in CPU PROVE CpuOK(d)'
      <4>1. CASE d # c
        <5>1. Rests(d)
          BY <1>1, <1>2, <3>1, <3>2, <3>3, <4>1, TaskTypes DEF Rests
        <5> QED BY <5>1, OtherCpu DEF TaskInv
      <4>2. CASE d = c
        <5>1. task'[cur'[c]].state = "onproc" /\ hand'[c] = Idle /\ step'[c] # -1
          BY <1>0, <1>1, <2>1, <3>2 DEF TaskInv, CpuOK, CurOK
        <5>2. CurOK(c)'
          BY <1>2, <5>1 DEF CurOK
        <5>3. AheadOK(c)'
          BY <1>1, <1>2, <3>1 DEF TaskInv, CpuOK, AheadOK
        <5> QED BY <4>2, <5>2, <5>3 DEF CpuOK
      <4> QED BY <4>1, <4>2
    <3> QED BY <3>4, <3>5, <3>6 DEF TaskInv
  <2>7. CASE tk.left = 0
    <3>1. /\ resched' = [resched EXCEPT ![c] = TRUE]
          /\ IF tk.phase = Len(Phases(t))
             THEN /\ task' = [task EXCEPT ![t] =
                        [tk EXCEPT !.phase = @ + 1, !.state = "completed"]]
                  /\ events' = events
             ELSE /\ task' = [task EXCEPT ![t] =
                        [tk EXCEPT !.phase = @ + 1, !.state = "sleep",
                                   !.real = @ + Phases(t)[tk.phase + 1]]]
                  /\ SleepUntil(tk, t, step[c] + Phases(t)[tk.phase + 1] + 1)
      BY <1>4, <2>1, <2>2, <2>7 DEF Tick, Charged
    <3>2. /\ resched' \in [CPU -> BOOLEAN] /\ resched'[c] = TRUE
          /\ \A d \in CPU : d # c => resched'[d] = resched[d]
      BY <3>1 DEF TaskInv, TaskTypeOK
    <3>3. CASE tk.phase = Len(Phases(t))
      <4>1. /\ task'[t] = [tk EXCEPT !.phase = @ + 1, !.state = "completed"] /\ events' = events
            /\ \A u \in Task : u # t => task'[u] = task[u]
        BY <3>1, <3>3 DEF TaskInv, TaskTypeOK
      <4>2. task'[t] \in Descriptor /\ task'[t].state = "completed"
        <5>1. tk.phase + 1 \in Nat
          BY <2>4
        <5> QED BY <2>3, <4>1, <5>1 DEF Descriptor
      <4>3. task' \in [Task -> Descriptor]
        <5>1. \A u \in Task : task'[u] \in Descriptor
          BY <4>1, <4>2 DEF TaskInv, TaskTypeOK
        <5> QED BY <3>1, <3>3, <5>1 DEF TaskInv, TaskTypeOK
      <4>4. TaskTypeOK'
        BY <1>1, <3>2, <4>1, <4>3 DEF TaskInv, TaskTypeOK
      <4>5. \A d \in CPU, u \in Task : Waits(d, u)' <=> Waits(d, u)
        BY <4>1 DEF Waits
      <4>6. TaskOK(t)'
        BY <1>1, <2>1, <4>2, <4>5 DEF TaskOK, PhaseOK, WaitOK, QueueOK, RunsOK
      <4>7. ASSUME NEW u \in Task, u # t PROVE TaskOK(u)'
        <5>1. Stays(u)
          BY <1>1, <4>1, <4>5, <4>7 DEF Stays
        <5> QED BY <5>1, OtherTask DEF TaskInv
      <4>8. Leaving(c)'
        BY <1>0, <1>1, <1>2, <2>1, <3>2, <4>2 DEF Leaving, LeavePlaces
      <4>9. AheadOK(c)'
        BY <1>1, <1>2, <4>1 DEF TaskInv, CpuOK, AheadOK
      <4>10. \A d \in CPU : d # c => events'[d] = events[d]
        BY <4>1
      <4> QED BY <1>0, <1>1, <1>2, <2>1, <3>2, <4>1, <4>4, <4>6, <4>7, <4>8, <4>9, <4>10,
                 LeavesCpu DEF TaskInv
    <3>4. CASE tk.phase # Len(Phases(t))
      <4> DEFINE io == Phases(t)[tk.phase + 1]
                 e == [task |-> t, timeout |-> step[c] + io + 1]
      <4>1. io \in Nat /\ io > 0 /\ tk.phase + 1 \in 1 .. Len(Phases(t)) /\ (tk.phase + 1) % 2 = 0
        <5>1. tk.phase + 1 \in 1 .. Len(Phases(t)) /\ tk.phase \in Nat
          BY <2>4, <3>4
        <5>2. (tk.phase + 1) % 2 = 0
          BY <2>4, <5>1
        <5>3. io > 0
          BY <2>4, <5>1, <5>2 DEF IoTakesTime
        <5>4. io \in Nat
          BY <2>4, <5>1, ElementOfSeq
        <5> QED BY <5>1, <5>2, <5>3, <5>4
      <4>2. /\ task'[t] = [tk EXCEPT !.phase = @ + 1, !.state = "sleep", !.real = @ + io]
            /\ events' = [events EXCEPT ![c] = InsertEvent(@, e)]
            /\ \A u \in Task : u # t => task'[u] = task[u]
        BY <2>3, <3>1, <3>4 DEF TaskInv, TaskTypeOK, SleepUntil
      <4>3. /\ task'[t] \in Descriptor /\ task'[t].state = "sleep"
            /\ task'[t].phase = tk.phase + 1
        <5>1. tk.phase + 1 \in Nat /\ tk.real + io \in Int
          BY <2>3, <4>1 DEF Descriptor
        <5> HIDE DEF io
        <5> QED BY <2>3, <4>2, <5>1 DEF Descriptor
      <4>4. e \in Event /\ e.task = t /\ e.timeout > step[c] + 1
        <5>1. step[c] + io + 1 \in Nat /\ step[c] + io + 1 > step[c] + 1
          BY <1>0, <4>1
        <5> HIDE DEF io
        <5> QED BY <5>1 DEF Event
      <4> HIDE DEF e, io
      <4>5. /\ EventList(InsertEvent(events[c], e))
            /\ Entries(InsertEvent(events[c], e)) = Entries(events[c]) \cup {e}
        <5>1. \A x \in Entries(events[c]) : x.task # e.task
          BY <2>1, <4>4 DEF Waits
        <5> QED BY <4>4, <5>1, InsertResult, TaskTypes
      <4>6. /\ events'[c] = InsertEvent(events[c], e)
            /\ \A d \in CPU : d # c => events'[d] = events[d]
            /\ events' \in [CPU -> Seq(Event)] /\ \A d \in CPU : EventList(events'[d])
        <5>1. InsertEvent(events[c], e) \in Seq(Event)
          BY <4>5 DEF EventList
        <5> QED BY <4>2, <4>5, <5>1 DEF TaskInv, TaskTypeOK
      <4>7. task' \in [Task -> Descriptor]
        <5>1. \A u \in Task : task'[u] \in Descriptor
          BY <4>2, <4>3 DEF TaskInv, TaskTypeOK
        <5> QED BY <3>1, <3>4, <5>1 DEF TaskInv, TaskTypeOK
      <4>8. TaskTypeOK'
        BY <1>1, <3>2, <4>6, <4>7 DEF TaskInv, TaskTypeOK
      <4>9. /\ \A d \in CPU : Waits(d, t)' <=> d = c
            /\ \A d \in CPU, u \in Task : u # t => (Waits(d, u)' <=> Waits(d, u))
        BY <2>1, <4>4, <4>5, <4>6 DEF Waits
      <4>10. TaskOK(t)'
        <5>1. PhaseOK(t)'
          BY <4>1, <4>3 DEF PhaseOK
        <5>2. WaitOK(t)'
          BY <4>3, <4>9 DEF WaitOK
        <5>3. QueueOK(t)' /\ RunsOK(t)'
          BY <1>1, <2>1, <4>3 DEF QueueOK, RunsOK
        <5> QED BY <5>1, <5>2, <5>3 DEF TaskOK
      <4>11. ASSUME NEW u \in Task, u # t PROVE TaskOK(u)'
        <5>1. Stays(u)
          BY <1>1, <4>2, <4>9, <4>11 DEF Stays
        <5> QED BY <5>1, OtherTask DEF TaskInv
      <4>12. Leaving(c)'
        <5>1. e \in Entries(events'[c]) /\ cur'[c] = t
          BY <1>1, <2>1, <4>5, <4>6
        <5> QED BY <1>0, <1>1, <1>2, <3>2, <4>3, <4>4, <5>1 DEF Leaving, LeavePlaces
      <4>13. AheadOK(c)'
        <5>1. \A x \in Entries(events'[c]) : x \in Entries(events[c]) \/ x = e
          BY <4>5, <4>6
        <5>2. e.timeout >= step[c] + 1
          BY <1>0, <4>4 DEF Event
        <5> QED BY <1>1, <1>2, <5>1, <5>2 DEF TaskInv, CpuOK, AheadOK
      <4> QED BY <1>0, <1>1, <1>2, <2>1, <3>2, <4>2, <4>6, <4>8, <4>10, <4>11, <4>12, <4>13,
                 LeavesCpu DEF TaskInv
    <3> QED BY <3>3, <3>4
  <2> QED BY <2>6, <2>7
<1> QED BY <1>3, <1>4

\* A context switch
LEMMA ScheduleKeepsTasks ==
  ASSUME RoundInv, TaskInv, NEW c \in CPU, Schedule(c)
  PROVE  TaskInv'
<1>0. /\ pc \in [CPU -> Place] /\ step \in [CPU -> Int] /\ pc[c] = "schedule"
      /\ step[c] >= -1 /\ step[c] # -1
  BY DEF RoundInv, RoundTypeOK, Schedule, Goto
<1>1. /\ pc' = [pc EXCEPT ![c] = "sync"] /\ UNCHANGED <<step, events, hand>>
      /\ resched' = [resched EXCEPT ![c] = FALSE]
  BY DEF Schedule, Goto, balancer
<1>2. /\ pc'[c] = "sync" /\ \A d \in CPU : d # c => pc'[d] = pc[d] /\ resched'[d] = resched[d]
      /\ resched' \in [CPU -> BOOLEAN]
  BY <1>0, <1>1 DEF TaskInv, TaskTypeOK
<1>3. \A d \in CPU, u \in Task : Waits(d, u)' <=> Waits(d, u)
  BY <1>1 DEF Waits
<1>4. AheadOK(c)'
  BY <1>0, <1>1, <1>2 DEF TaskInv, CpuOK, AheadOK
<1>5. hand[c] = Idle /\ hand'[c] = Idle
  BY <1>0, <1>1 DEF TaskInv, CpuOK, CurOK
<1>6. CASE ~resched[c] /\ cur[c] # Idle
  <2>1. UNCHANGED <<rq, cur, task>>
    BY <1>6 DEF Schedule
  <2>2. task[cur[c]].state = "onproc"
    BY <1>6, CurrentRuns
  <2>3. TaskTypeOK'
    BY <1>1, <1>2, <2>1 DEF TaskInv, TaskTypeOK
  <2>4. ASSUME NEW u \in Task PROVE TaskOK(u)'
    <3>1. Stays(u)
      BY <1>1, <1>3, <2>1 DEF Stays
    <3> QED BY <3>1, OtherTask DEF TaskInv
  <2>5. ASSUME NEW d \in CPU PROVE CpuOK(d)'
    <3>1. CASE d # c
      <4>1. Rests(d)
        BY <1>1, <1>2, <2>1, <3>1 DEF Rests
      <4> QED BY <4>1, OtherCpu DEF TaskInv
    <3>2. CASE d = c
      <4>1. CurOK(c)'
        BY <1>0, <1>1, <1>2, <1>5, <2>1, <2>2 DEF CurOK
      <4> QED BY <1>4, <3>2, <4>1 DEF CpuOK
    <3> QED BY <3>1, <3>2
  <2> QED BY <2>3, <2>4, <2>5 DEF TaskInv
<1>7. CASE resched[c] \/ cur[c] = Idle
  <2>1. PICK next \in (IF PutBack(c) = {} THEN {Idle} ELSE PutBack(c)) :
          /\ rq' = [rq EXCEPT ![c] = PutBack(c) \ {next}]
          /\ cur' = [cur EXCEPT ![c] = next]
          /\ task' = Switched(c, cur[c], next)
    BY <1>7 DEF Schedule
  <2>2. PICK prev \in Task \cup {Idle} : prev = cur[c]
    BY TaskTypes
  <2>3. Idle \notin Task /\ rq[c] \subseteq Task
    BY TaskTypes
  <2>4. \A u \in Task : u \in PutBack(c) <=> u \in rq[c] \/ (u = prev /\ task[u].state = "onproc")
    BY <2>2, <2>3 DEF PutBack
  <2>5. PutBack(c) \subseteq Task /\ next \in Task \cup {Idle}
        /\ (next = Idle => PutBack(c) = {}) /\ (next # Idle => next \in PutBack(c))
    BY <2>2, <2>3, <2>1 DEF PutBack
  <2>6. /\ \A u \in Task : u \in rq'[c] <=> u \in PutBack(c) /\ u # next
        /\ \A d \in CPU : d # c => rq'[d] = rq[d] /\ cur'[d] = cur[d]
        /\ cur'[c] = next
    BY <2>1 DEF TaskInv, TaskTypeOK
  <2>13. next # Idle /\ next = prev => next \in Task /\ task[next].state = "onproc"
    <3>1. SUFFICES ASSUME next # Idle, next = prev, task[next].state # "onproc" PROVE FALSE
      BY <2>5
    <3>2. next \in Task /\ next \in rq[c] /\ cur[c] = next
      BY <2>2, <2>4, <2>5, <3>1
    <3>3. task[next].state = "runnable"
      BY <3>2 DEF TaskInv, TaskOK, QueueOK
    <3>4. Leaving(c)
      BY <3>1, <3>2 DEF TaskInv, CpuOK, CurOK
    <3> QED BY <3>2, <3>3, <3>4 DEF Leaving
  <2>7. ASSUME NEW u \in Task
        PROVE  /\ u = next => task'[u].state = "onproc"
               /\ u # next => task'[u].state = IF u = prev /\ task[u].state = "onproc"
                                               THEN "runnable" ELSE task[u].state
               /\ task'[u].phase = task[u].phase /\ task'[u] \in Descriptor
    <3>1. /\ task[u] \in Descriptor /\ step[c] + 1 \in Nat
          /\ task[u].real + (step[c] - task[u].since + 1) \in Int
      BY <1>0, TaskTypes DEF TaskInv, TaskTypeOK
    <3>2. task'[u] = IF prev = next \/ u \notin {prev, next} THEN task[u]
            ELSE IF u = next
            THEN [task[u] EXCEPT !.state = "onproc",
                                 !.real = @ + (step[c] - task[u].since + 1)]
            ELSE IF task[u].state = "onproc"
            THEN [task[u] EXCEPT !.state = "runnable", !.since = step[c] + 1]
            ELSE task[u]
      BY <2>1, <2>2 DEF Switched
    <3>3. u = next /\ prev = next => task[u].state = "onproc"
      BY <2>3, <2>13
    <3>4. CASE u = next /\ prev # next
      BY <3>1, <3>2, <3>4 DEF Descriptor
    <3>5. CASE u # next /\ u = prev /\ task[u].state = "onproc"
      BY <3>1, <3>2, <3>5 DEF Descriptor
    <3>6. CASE \/ u = next /\ prev = next
               \/ u # next /\ ~(u = prev /\ task[u].state = "onproc")
      BY <3>1, <3>2, <3>3, <3>6
    <3> QED BY <3>4, <3>5, <3>6
  <2>8. TaskTypeOK'
    <3>1. task' \in [Task -> Descriptor]
      <4>1. DOMAIN task' = Task /\ task' = [u \in Task |-> task'[u]]
        BY <2>1 DEF Switched
      <4> QED BY <2>7, <4>1
    <3>2. rq' \in [CPU -> SUBSET Task] /\ cur' \in [CPU -> Task \cup {Idle}]
      <4>1. PutBack(c) \ {next} \in SUBSET Task
        BY <2>5
      <4> QED BY <2>1, <2>5, <4>1 DEF TaskInv, TaskTypeOK
    <3> QED BY <1>1, <1>2, <3>1, <3>2 DEF TaskInv, TaskTypeOK
  <2>9. prev # Idle /\ task[prev].state = "onproc" =>
          \A d \in CPU : ~Waits(d, prev) /\ prev \notin rq[d] /\ hand[d] # prev
    <3>1. prev # Idle => prev \in Task /\ TaskOK(prev)
      BY <2>2 DEF TaskInv
    <3> QED BY <3>1, Zenon DEF TaskOK, WaitOK, QueueOK
  <2>10. next # Idle /\ next # prev =>
          /\ task[next].state = "runnable"
          /\ \A d \in CPU : /\ ~Waits(d, next) /\ hand[d] # next /\ cur[d] # next
                            /\ next \in rq[d] => d = c
    <3> SUFFICES ASSUME next # Idle, next # prev
                 PROVE  /\ task[next].state = "runnable"
                        /\ \A d \in CPU : /\ ~Waits(d, next) /\ hand[d] # next /\ cur[d] # next
                                          /\ next \in rq[d] => d = c
      OBVIOUS
    <3>1. next \in Task /\ TaskOK(next) /\ next \in rq[c]
      BY <2>4, <2>5 DEF TaskInv
    <3>2. /\ task[next].state = "runnable"
          /\ \A d \in CPU : ~Waits(d, next) /\ hand[d] # next /\ (next \in rq[d] => d = c)
      BY <3>1, Zenon DEF TaskOK, WaitOK, QueueOK
    <3>3. \A d \in CPU : cur[d] # next
      BY <3>1, <3>2 DEF TaskInv, CpuOK, CurOK, Leaving
    <3> QED BY <3>2, <3>3
  <2>14. next # Idle => next \in Task /\ task[next].state \in {"runnable", "onproc"}
    BY <2>5, <2>10, <2>13
  <2>11. ASSUME NEW u \in Task PROVE TaskOK(u)'
    <3>0. TaskOK(u) /\ u # Idle
      BY <2>3 DEF TaskInv
    <3>1. PhaseOK(u)'
      <4>1. task'[u].state \in {"runnable", "onproc"} => task[u].state \in {"runnable", "onproc"}
        BY <2>7, <2>14, <3>0
      <4>2. task'[u].state = "sleep" => task[u].state = "sleep"
        BY <2>7
      <4> QED BY <2>7, <3>0, <4>1, <4>2 DEF TaskOK, PhaseOK
    <3>2. WaitOK(u)'
      <4>1. task'[u].state \in {"new", "sleep"} <=> task[u].state \in {"new", "sleep"}
        BY <2>7, <2>14, <3>0
      <4> QED BY <1>3, <3>0, <4>1, Zenon DEF TaskOK, WaitOK
    <3>3. CASE u = next
      <4>1. task'[u].state = "onproc" /\ \A d \in CPU : cur'[d] = u => d = c
        <5>1. task'[u].state = "onproc"
          BY <2>7, <3>3
        <5>2. CASE next = prev
          BY <2>2, <2>6, <3>0, <3>3, <5>1, <5>2 DEF TaskOK, RunsOK
        <5>3. CASE next # prev
          BY <2>6, <2>10, <3>0, <3>3, <5>1, <5>3
        <5> QED BY <5>2, <5>3
      <4>2. \A d \in CPU : u \notin rq'[d] /\ hand'[d] # u
        <5>1. CASE next = prev
          BY <1>1, <2>6, <2>9, <2>13, <3>0, <3>3, <5>1
        <5>2. CASE next # prev
          BY <1>1, <2>6, <2>10, <3>0, <3>3, <5>2
        <5> QED BY <5>1, <5>2
      <4>3. cur'[c] = u
        BY <2>6, <3>3
      <4>4. QueueOK(u)' /\ RunsOK(u)'
        BY <4>1, <4>2, <4>3 DEF QueueOK, RunsOK
      <4> QED BY <3>1, <3>2, <4>4 DEF TaskOK
    <3>4. CASE u # next /\ u = prev /\ task[u].state = "onproc"
      <4>1. task'[u].state = "runnable" /\ u \in rq'[c]
        BY <2>4, <2>6, <2>7, <3>4
      <4>2. \A d \in CPU : hand'[d] # u /\ (u \in rq'[d] => d = c)
        BY <1>1, <2>3, <2>6, <2>9, <3>4
      <4>3. \A d \in CPU : cur'[d] # u
        BY <2>2, <2>6, <3>0, <3>4 DEF TaskOK, RunsOK
      <4>4. QueueOK(u)' /\ RunsOK(u)'
        BY <4>1, <4>2, <4>3 DEF QueueOK, RunsOK
      <4> QED BY <3>1, <3>2, <4>4 DEF TaskOK
    <3>5. CASE u # next /\ ~(u = prev /\ task[u].state = "onproc")
      <4>1. task'[u].state = task[u].state
        BY <2>7, <3>5
      <4>2. \A d \in CPU : (u \in rq'[d] <=> u \in rq[d]) /\ hand'[d] = hand[d]
        BY <1>1, <2>4, <2>6, <3>5
      <4>3. \A d \in CPU : /\ d # c => (cur'[d] = u <=> cur[d] = u)
                           /\ cur'[c] # u
                           /\ cur[c] = u => task[u].state # "onproc"
        BY <2>2, <2>6, <3>5
      <4>4. QueueOK(u)'
        BY <3>0, <4>1, <4>2 DEF TaskOK, QueueOK
      <4>5. RunsOK(u)'
        BY <3>0, <4>1, <4>3 DEF TaskOK, RunsOK
      <4> QED BY <3>1, <3>2, <4>4, <4>5 DEF TaskOK
    <3> QED BY <3>3, <3>4, <3>5
  <2>12. ASSUME NEW d \in CPU PROVE CpuOK(d)'
    <3>1. CASE d # c
      <4>1. cur[d] # Idle => cur[d] \in Task /\ cur[d] # next /\ cur[d] # prev
        <5>1. cur[d] # Idle => cur[d] \in Task /\ TaskOK(cur[d])
          BY TaskTypes DEF TaskInv
        <5> QED BY <2>2, <2>10, <3>1, <5>1 DEF TaskOK, RunsOK
      <4>2. Rests(d)
        BY <1>1, <1>2, <2>6, <2>7, <3>1, <4>1 DEF Rests
      <4> QED BY <4>2, OtherCpu DEF TaskInv
    <3>2. CASE d = c
      <4>1. next # Idle => task'[next].state = "onproc"
        BY <2>5, <2>7
      <4>2. CurOK(c)'
        BY <1>0, <1>1, <1>2, <1>5, <2>6, <4>1 DEF CurOK
      <4> QED BY <1>4, <3>2, <4>2 DEF CpuOK
    <3> QED BY <3>1, <3>2
  <2> QED BY <2>8, <2>11, <2>12 DEF TaskInv
<1> QED BY <1>6, <1>7

\* At first every task is on the list of events of its CPU.
LEMMA TaskInit == Init => TaskInv
<1> SUFFICES ASSUME Init PROVE TaskInv
  OBVIOUS
<1> USE SchedAssumption
<1>1. /\ \A c \in CPU : /\ rq[c] = {} /\ cur[c] = Idle /\ hand[c] = Idle /\ step[c] = -1
                        /\ pc[c] = "wake" /\ events[c] = NewTasks(c)
      /\ task = [t \in Task |-> [state |-> "new", phase |-> 1, left |-> 0,
                                 since |-> 0, real |-> 0, cpu |-> t % NrCpus]]
      /\ rq = [c \in CPU |-> {}] /\ cur = [c \in CPU |-> Idle] /\ hand = [c \in CPU |-> Idle]
      /\ events = [c \in CPU |-> NewTasks(c)] /\ resched = [c \in CPU |-> FALSE]
  BY DEF Init
<1>2. /\ \A c \in CPU : EventList(events[c]) /\ events[c] \in Seq(Event)
      /\ \A c \in CPU : \A x \in Entries(events[c]) :
            x.task \in Task /\ x.timeout \in Nat /\ x.task % NrCpus = c
      /\ \A t \in Task : t % NrCpus \in CPU /\ Waits(t % NrCpus, t)
  <2>1. \A t \in Task : t % NrCpus \in CPU
    BY DEF Task, CPU
  <2>2. ASSUME NEW c \in CPU
        PROVE  /\ EventList(events[c])
               /\ \A x \in Entries(events[c]) :
                    x.task \in Task /\ x.timeout = Arrival(x.task) /\ x.task % NrCpus = c
               /\ \A t \in Task : t % NrCpus = c => Waits(c, t)
    BY <1>1, NewTasksResult DEF Waits
  <2> QED BY <2>1, <2>2 DEF EventList
<1>3. TaskTypeOK
  <2>1. \A t \in Task : task[t] \in Descriptor
    BY <1>1, <1>2 DEF Descriptor
  <2> QED BY <1>1, <1>2, <2>1 DEF TaskTypeOK
<1>4. ASSUME NEW t \in Task PROVE TaskOK(t)
  <2>1. task[t].state = "new" /\ t # Idle
    BY <1>1
  <2>2. \A c \in CPU : Waits(c, t) => c = t % NrCpus
    BY <1>2 DEF Waits
  <2>3. WaitOK(t)
    BY <1>2, <2>1, <2>2, Zenon DEF WaitOK
  <2>4. PhaseOK(t) /\ QueueOK(t) /\ RunsOK(t)
    BY <1>1, <2>1 DEF PhaseOK, QueueOK, RunsOK
  <2> QED BY <2>3, <2>4 DEF TaskOK
<1>5. ASSUME NEW c \in CPU PROVE CpuOK(c)
  BY <1>1, <1>2 DEF CpuOK, CurOK, AheadOK
<1> QED BY <1>3, <1>4, <1>5 DEF TaskInv

\* Every step keeps every task in one place.
LEMMA TaskNext == IoTakesTime /\ RoundInv /\ BalanceInv /\ TaskInv /\ [Next]_vars => TaskInv'
<1> SUFFICES ASSUME IoTakesTime, RoundInv, BalanceInv, TaskInv, [Next]_vars PROVE TaskInv'
  OBVIOUS
<1>1. ASSUME NEW c \in CPU, Run(c) PROVE TaskInv'
  BY <1>1, OthersKeepTasks, FirstPickKeepsTasks, StealKeepsTasks, GiveKeepsTasks,
     WakeKeepsTasks, TickKeepsTasks, ScheduleKeepsTasks DEF Run
<1>2. CASE UNCHANGED vars
  BY <1>2, QuietKeepsTasks DEF vars, queues, balancer
<1> QED BY <1>1, <1>2 DEF Next

(* No event is left behind by the clock of its CPU, on any CPU and for any *)
(* list of tasks (sched.c:345-366, 465-468, 785-804), and no date of       *)
(* balancing is: the list is only looked at in its head, and both are      *)
(* compared for equality with the step.  It is proved for tasks whose      *)
(* phases of input and output take time.  One of no length has the task    *)
(* awake, and queued, in the step in which it leaves the CPU, while it     *)
(* still is the current task there.                                        *)
THEOREM WakeUpsInTime ==
  ASSUME IoTakesTime PROVE Spec => []NothingOverdue
<1>1. TaskInv /\ DateInv => NothingOverdue
  <2> SUFFICES ASSUME TaskInv, DateInv, NEW c \in CPU, NEW i \in DOMAIN events[c]
               PROVE  /\ events[c][i].timeout >= step[c] + 1
                      /\ pc[c] \notin {"wake", "tick", "done"} => events[c][i].timeout > step[c] + 1
    BY DEF NothingOverdue, NoEventMissed, DateInv
  <2> QED BY DEF TaskInv, CpuOK, AheadOK, Entries
<1>2. RoundInv /\ BalanceInv /\ TaskInv /\ [Next]_vars => TaskInv'
  BY TaskNext
<1> QED
  BY <1>1, <1>2, TaskInit, BalanceInit, BalanceNext, RoundInit, RoundNext, DateInit,
     DateNext, PTL DEF Spec
-----------------------------------------------------------------------------
(* The counts of the tasks of a CPU *)

\* The CPU has a task that is not about to be replaced.
Runs(c) == cur[c] # Idle /\ task[cur[c]].state = "onproc"

Load(c) == Cardinality(rq[c]) + (IF Runs(c) THEN 1 ELSE 0)

LoadInv == nr \in [CPU -> Int] /\ \A c \in CPU : nr[c] = Load(c)

\* A run queue can be counted.
LEMMA QueueIsFinite ==
  ASSUME NEW S \in SUBSET Task
  PROVE  IsFiniteSet(S) /\ Cardinality(S) \in Nat
<1>1. IsFiniteSet(Task)
  BY FS_Interval, SchedAssumption DEF Task
<1> QED BY <1>1, FS_Subset, FS_CardinalityType

\* A step that leaves the load and the count of a CPU alone
LEMMA SameLoad ==
  ASSUME NEW c \in CPU, rq'[c] = rq[c], Runs(c)' <=> Runs(c)
  PROVE  Load(c)' = Load(c)
BY DEF Load

\* What a step counts, it moves.
LEMMA LoadNext == RoundInv /\ BalanceInv /\ TaskInv /\ TaskInv' /\ LoadInv /\ [Next]_vars => LoadInv'
<1> SUFFICES ASSUME RoundInv, BalanceInv, TaskInv, TaskInv', LoadInv, [Next]_vars PROVE LoadInv'
  OBVIOUS
<1> USE DEF queues, balancer
<1>0. \A c \in CPU : /\ Cardinality(rq[c]) \in Nat /\ IsFiniteSet(rq[c]) /\ nr[c] \in Int
                     /\ rq[c] \subseteq Task /\ cur[c] \in Task \cup {Idle}
                     /\ cur[c] # Idle => cur[c] \in Task
  BY TaskTypes, QueueIsFinite DEF LoadInv
<1>1. ASSUME NEW c \in CPU, Run(c) PROVE LoadInv'
  <2>1. CASE \/ WakeDone(c) \/ Continue(c) \/ BalanceBegin(c) \/ ReadLoad(c) \/ SkipTrial(c)
             \/ DoubleLock(c) \/ LockRemote(c) \/ LockThis(c) \/ NoMove(c) \/ BalanceEnd(c)
             \/ FirstBarrier(c) \/ Count(c) \/ SecondBarrier(c)
    <3>1. UNCHANGED <<rq, cur, task, nr>>
      BY <2>1 DEF WakeDone, Continue, BalanceBegin, ReadLoad, SkipTrial, DoubleLock,
         LockRemote, LockThis, NoMove, BalanceEnd, FirstBarrier, Count, SecondBarrier
    <3> QED BY <3>1 DEF LoadInv, Load, Runs
  <2>2. CASE Wake(c)
    <3>1. PICK t \in Task :
            /\ Head(events[c]).task = t /\ task[t].state \in {"new", "sleep"}
            /\ \A d \in CPU : t \notin rq[d] /\ hand[d] # t /\ cur[d] # t
      BY <2>2, WakesOnce DEF Wake
    <3>2. /\ cur' = cur /\ \A u \in Task : u # t => task'[u] = task[u]
          /\ \/ rq' = rq /\ nr' = nr
             \/ rq' = [rq EXCEPT ![c] = @ \cup {t}] /\ nr' = [nr EXCEPT ![c] = @ + 1]
      BY <2>2, <3>1 DEF Wake, TaskInv, TaskTypeOK
    <3>3. \A d \in CPU : Runs(d)' <=> Runs(d)
      BY <1>0, <3>1, <3>2 DEF Runs
    <3>4. CASE rq' = rq /\ nr' = nr
      BY <3>3, <3>4, SameLoad DEF LoadInv
    <3>5. CASE rq' = [rq EXCEPT ![c] = @ \cup {t}] /\ nr' = [nr EXCEPT ![c] = @ + 1]
      <4>1. Cardinality(rq[c] \cup {t}) = Cardinality(rq[c]) + 1
        BY <1>0, <3>1, FS_AddElement
      <4>2. /\ rq'[c] = rq[c] \cup {t} /\ \A d \in CPU : d # c => rq'[d] = rq[d] /\ nr'[d] = nr[d]
            /\ nr'[c] = nr[c] + 1 /\ nr' \in [CPU -> Int]
        BY <3>5 DEF LoadInv, TaskInv, TaskTypeOK
      <4>3. \A d \in CPU : d # c => Load(d)' = Load(d)
        BY <3>3, <4>2, SameLoad
      <4>4. Load(c)' = Load(c) + 1
        BY <1>0, <3>3, <4>1, <4>2 DEF Load
      <4> QED BY <4>2, <4>3, <4>4 DEF LoadInv
    <3> QED BY <3>2, <3>4, <3>5
  <2>3. CASE FirstPick(c)
    <3>1. nr' = nr /\ cur[c] = Idle
      BY <2>3 DEF FirstPick, TaskInv, CpuOK, CurOK, RoundInv, RoundTypeOK
    <3>2. CASE UNCHANGED <<rq, cur, task>>
      BY <3>1, <3>2 DEF LoadInv, Load, Runs
    <3>3. ASSUME NEW t \in rq[c], rq' = [rq EXCEPT ![c] = @ \ {t}],
                 cur' = [cur EXCEPT ![c] = t], task' = [task EXCEPT ![t].state = "onproc"]
          PROVE  LoadInv'
      <4>1. t \in Task /\ t # Idle /\ task[t].state = "runnable"
        BY <1>0, <3>3, TaskTypes DEF TaskInv, TaskOK, QueueOK
      <4>2. /\ rq'[c] = rq[c] \ {t} /\ cur'[c] = t /\ task'[t].state = "onproc"
            /\ \A d \in CPU : d # c => rq'[d] = rq[d] /\ cur'[d] = cur[d]
            /\ \A u \in Task : u # t => task'[u] = task[u]
        BY <3>3, <4>1 DEF TaskInv, TaskTypeOK, Descriptor
      <4>3. ASSUME NEW d \in CPU, d # c PROVE Runs(d)' <=> Runs(d)
        <5>1. cur'[d] # t
          BY <4>2, <4>3, <4>1 DEF TaskInv, TaskOK, RunsOK
        <5> QED BY <1>0, <4>2, <4>3, <5>1 DEF Runs
      <4>4. Cardinality(rq[c] \ {t}) = Cardinality(rq[c]) - 1
        BY <1>0, <3>3, FS_RemoveElement
      <4>5. Load(c)' = Load(c)
        BY <1>0, <3>1, <4>1, <4>2, <4>4 DEF Load, Runs
      <4>6. \A d \in CPU : Load(d)' = Load(d)
        BY <4>2, <4>3, <4>5, SameLoad
      <4> QED BY <3>1, <4>6 DEF LoadInv
    <3> QED BY <2>3, <3>2, <3>3 DEF FirstPick
  <2>4. CASE Tick(c)
    <3>1. rq' = rq /\ cur' = cur /\ pc[c] = "tick"
      BY <2>4 DEF Tick, Goto
    <3>2. CASE cur[c] = Idle
      BY <2>4, <3>1, <3>2 DEF Tick, LoadInv, Load, Runs
    <3>3. CASE cur[c] # Idle
      <4>1. /\ cur[c] \in Task /\ task[cur[c]].state = "onproc"
            /\ \A d \in CPU : cur[d] = cur[c] => d = c
        BY <3>1, <3>3, CurrentRuns DEF LeavePlaces, Balancing
      <4>2. PICK t \in Task : t = cur[c]
        BY <4>1
      <4>3. \/ nr' = nr /\ task'[t].state = "onproc"
            \/ nr' = [nr EXCEPT ![c] = @ - 1] /\ task'[t].state \in {"completed", "sleep"}
        <5>1. PICK tk : tk = Charged(c, t)
          OBVIOUS
        <5>2. tk \in Descriptor /\ tk.state = "onproc"
          <6>1. /\ task[t] \in Descriptor /\ task[t].state = "onproc"
                /\ task[t].left - 1 \in Int /\ task[t].real + 1 \in Int
            BY <4>1, <4>2, TaskTypes DEF TaskInv, TaskTypeOK
          <6> QED BY <5>1, <6>1 DEF Charged, Descriptor
        <5>3. \/ nr' = nr /\ task' = [task EXCEPT ![t] = tk]
              \/ /\ nr' = [nr EXCEPT ![c] = @ - 1]
                 /\ \/ task' = [task EXCEPT ![t] =
                           [tk EXCEPT !.phase = @ + 1, !.state = "completed"]]
                    \/ task' = [task EXCEPT ![t] =
                           [tk EXCEPT !.phase = @ + 1, !.state = "sleep",
                                      !.real = @ + Phases(t)[tk.phase + 1]]]
          BY <2>4, <3>3, <4>2, <5>1 DEF Tick
        <5>4. \A r : task' = [task EXCEPT ![t] = r] => task'[t] = r
          BY DEF TaskInv, TaskTypeOK
        <5>5. /\ [tk EXCEPT !.phase = @ + 1, !.state = "completed"].state = "completed"
              /\ [tk EXCEPT !.phase = @ + 1, !.state = "sleep",
                            !.real = @ + Phases(t)[tk.phase + 1]].state = "sleep"
          BY <5>2 DEF Descriptor
        <5> QED BY <5>2, <5>3, <5>4, <5>5
      <4>4. \A u \in Task : u # t => task'[u] = task[u]
        BY <2>4, <3>3, <4>2 DEF Tick, TaskInv, TaskTypeOK
      <4>5. \A d \in CPU : d # c => (Runs(d)' <=> Runs(d))
        BY <1>0, <3>1, <4>1, <4>2, <4>4 DEF Runs
      <4>6. \A d \in CPU : d # c => Load(d)' = Load(d)
        BY <3>1, <4>5, SameLoad
      <4>7. Runs(c) /\ (Runs(c)' <=> task'[t].state = "onproc")
        BY <3>1, <3>3, <4>1, <4>2 DEF Runs
      <4>8. CASE nr' = nr /\ task'[t].state = "onproc"
        BY <3>1, <4>6, <4>7, <4>8, SameLoad DEF LoadInv
      <4>9. CASE nr' = [nr EXCEPT ![c] = @ - 1] /\ task'[t].state \in {"completed", "sleep"}
        <5>1. Load(c)' = Load(c) - 1
          BY <1>0, <3>1, <4>7, <4>9 DEF Load
        <5> QED BY <4>6, <4>9, <5>1 DEF LoadInv
      <4> QED BY <4>3, <4>8, <4>9
    <3> QED BY <3>2, <3>3
  <2>5. CASE Steal(c)
    <3>1. pc[c] = "move" /\ UNCHANGED <<cur, task>> /\ Source(c) \in CPU
      BY <2>5 DEF Steal, Goto, BalanceInv, RemoteOK, Trading, Source
    <3>2. PICK s \in CPU : s = Source(c)
      BY <3>1
    <3>3. PICK t \in rq[s] : rq' = [rq EXCEPT ![s] = @ \ {t}]
      BY <2>5, <3>2 DEF Steal
    <3>4. nr' = [nr EXCEPT ![s] = @ - 1]
      BY <2>5, <3>2 DEF Steal
    <3>5. \A d \in CPU : Runs(d)' <=> Runs(d)
      BY <3>1 DEF Runs
    <3>6. Cardinality(rq[s] \ {t}) = Cardinality(rq[s]) - 1
      BY <1>0, <3>3, FS_RemoveElement
    <3>7. /\ rq'[s] = rq[s] \ {t} /\ nr'[s] = nr[s] - 1 /\ nr' \in [CPU -> Int]
          /\ \A d \in CPU : d # s => rq'[d] = rq[d] /\ nr'[d] = nr[d]
      BY <3>3, <3>4 DEF LoadInv, TaskInv, TaskTypeOK
    <3>8. Load(s)' = Load(s) - 1
      BY <1>0, <3>5, <3>6, <3>7 DEF Load
    <3>9. \A d \in CPU : d # s => Load(d)' = Load(d)
      BY <3>5, <3>7, SameLoad
    <3> QED BY <3>7, <3>8, <3>9 DEF LoadInv
  <2>6. CASE Give(c)
    <3>1. pc[c] = "give" /\ UNCHANGED cur /\ Target(c) \in CPU
      BY <2>6 DEF Give, EndTrial, BalanceInv, RemoteOK, Trading, Target
    <3>2. PICK s \in CPU : s = Target(c)
      BY <3>1
    <3>3. PICK t \in Task : t = hand[c] /\ t # Idle
      BY <3>1, TaskTypes DEF TaskInv, CpuOK, CurOK
    <3>4. /\ rq' = [rq EXCEPT ![s] = @ \cup {t}] /\ nr' = [nr EXCEPT ![s] = @ + 1]
          /\ task' = [task EXCEPT ![t] = Moved(c, t)]
      BY <2>6, <3>2, <3>3 DEF Give
    <3>5. task[t].state = "runnable" /\ \A d \in CPU : t \notin rq[d]
      BY <3>3, Zenon DEF TaskInv, TaskOK, QueueOK
    <3>6. \A u \in Task : task'[u].state = task[u].state
      <4>1. Moved(c, t).state = task[t].state
        BY DEF Moved, TaskInv, TaskTypeOK, Descriptor
      <4> QED BY <3>4, <4>1 DEF TaskInv, TaskTypeOK
    <3>7. \A d \in CPU : Runs(d)' <=> Runs(d)
      BY <1>0, <3>1, <3>6 DEF Runs
    <3>8. Cardinality(rq[s] \cup {t}) = Cardinality(rq[s]) + 1
      BY <1>0, <3>5, FS_AddElement
    <3>9. /\ rq'[s] = rq[s] \cup {t} /\ nr'[s] = nr[s] + 1 /\ nr' \in [CPU -> Int]
          /\ \A d \in CPU : d # s => rq'[d] = rq[d] /\ nr'[d] = nr[d]
      BY <3>4 DEF LoadInv, TaskInv, TaskTypeOK
    <3>10. Load(s)' = Load(s) + 1
      BY <1>0, <3>7, <3>8, <3>9 DEF Load
    <3>11. \A d \in CPU : d # s => Load(d)' = Load(d)
      BY <3>7, <3>9, SameLoad
    <3> QED BY <3>9, <3>10, <3>11 DEF LoadInv
  <2>7. CASE Schedule(c)
    <3>1. nr' = nr
      BY <2>7 DEF Schedule
    <3>2. CASE UNCHANGED <<rq, cur, task>>
      BY <3>1, <3>2 DEF LoadInv, Load, Runs
    <3>3. ASSUME NEW next \in (IF PutBack(c) = {} THEN {Idle} ELSE PutBack(c)),
                 rq' = [rq EXCEPT ![c] = PutBack(c) \ {next}],
                 cur' = [cur EXCEPT ![c] = next],
                 task' = Switched(c, cur[c], next)
          PROVE  LoadInv'
      <4>1. /\ rq'[c] = PutBack(c) \ {next} /\ cur'[c] = next
            /\ \A d \in CPU : d # c => rq'[d] = rq[d] /\ cur'[d] = cur[d]
        BY <3>3 DEF TaskInv, TaskTypeOK
      <4>2. PutBack(c) = IF Runs(c) THEN rq[c] \cup {cur[c]} ELSE rq[c]
        BY DEF PutBack, Runs
      <4>3. PutBack(c) \subseteq Task /\ (Runs(c) => cur[c] \notin rq[c])
        <5>1. Runs(c) => cur[c] \notin rq[c]
          BY <1>0 DEF Runs, TaskInv, TaskOK, QueueOK
        <5> QED BY <1>0, <4>2, <5>1 DEF Runs
      <4>4. Cardinality(PutBack(c)) = Load(c) /\ IsFiniteSet(PutBack(c))
        <5>1. CASE Runs(c)
          <6>1. cur[c] \notin rq[c] /\ IsFiniteSet(rq[c]) /\ PutBack(c) = rq[c] \cup {cur[c]}
            BY <1>0, <4>2, <4>3, <5>1
          <6> QED BY <5>1, <6>1, FS_AddElement DEF Load
        <5>2. CASE ~Runs(c)
          BY <1>0, <4>2, <5>2 DEF Load
        <5> QED BY <5>1, <5>2
      <4>5. Load(c)' = Load(c)
        <5>1. CASE PutBack(c) = {}
          <6>1. next = Idle /\ rq'[c] = {} /\ ~Runs(c)'
            BY <3>3, <4>1, <5>1 DEF Runs
          <6> QED BY <4>4, <5>1, <6>1, FS_EmptySet DEF Load
        <5>2. CASE PutBack(c) # {}
          <6>1. next \in PutBack(c) /\ next \in Task /\ next # Idle
            BY <3>3, <4>3, <5>2, SchedAssumption
          <6>2. Runs(c)'
            <7>1. cur'[c] = next /\ cur'[c] \notin rq'[c] /\ pc'[c] = "sync"
              BY <2>7, <4>1 DEF Schedule, Goto, RoundInv, RoundTypeOK
            <7> QED BY <6>1, <7>1 DEF Runs, TaskInv, CpuOK, CurOK, Leaving, LeavePlaces, Balancing
          <6>3. Cardinality(rq'[c]) = Load(c) - 1
            BY <4>1, <4>4, <6>1, FS_RemoveElement
          <6>4. Load(c) \in Int
            BY <1>0 DEF Load
          <6> QED BY <6>2, <6>3, <6>4 DEF Load
        <5> QED BY <5>1, <5>2
      <4>6. ASSUME NEW d \in CPU, d # c PROVE Runs(d)' <=> Runs(d)
        <5>1. cur[d] # Idle => /\ cur[d] \in Task /\ cur[d] # cur[c] /\ cur[d] # next
          <6>1. cur'[c] = next /\ cur'[d] = cur[d]
            BY <4>1, <4>6
          <6>2. \A u \in Task : /\ cur[c] = u /\ cur[d] = u => c = d
                                /\ cur'[c] = u /\ cur'[d] = u => c = d
            BY DEF TaskInv, TaskOK, RunsOK
          <6> QED BY <1>0, <4>6, <6>1, <6>2
        <5>2. cur[d] # Idle => task'[cur[d]] = task[cur[d]]
          BY <3>3, <5>1 DEF Switched
        <5> QED BY <4>1, <4>6, <5>2 DEF Runs
      <4>7. \A d \in CPU : Load(d)' = Load(d)
        BY <4>1, <4>5, <4>6, SameLoad
      <4> QED BY <3>1, <4>7 DEF LoadInv
    <3> QED BY <2>7, <3>2, <3>3 DEF Schedule
  <2> QED BY <1>1, <2>1, <2>2, <2>3, <2>4, <2>5, <2>6, <2>7 DEF Run
<1>2. CASE UNCHANGED vars
  BY <1>2 DEF vars, LoadInv, Load, Runs
<1> QED BY <1>1, <1>2 DEF Next

\* At first all queues are empty.
LEMMA LoadInit == Init => LoadInv
<1> SUFFICES ASSUME Init PROVE LoadInv
  OBVIOUS
<1>1. Cardinality({}) = 0
  BY FS_EmptySet
<1>2. nr = [c \in CPU |-> 0] /\ \A c \in CPU : rq[c] = {} /\ cur[c] = Idle
  BY DEF Init
<1> QED BY <1>1, <1>2 DEF LoadInv, Load, Runs

\* There is a task to steal: of a load of two at least, one is queued.
LEMMA LoadGivesSteal == BalanceInv /\ TaskInv /\ LoadInv => StealFinds
<1> SUFFICES ASSUME BalanceInv, TaskInv, LoadInv, NEW c \in CPU, pc[c] = "move", Improves(c)
             PROVE  rq[Source(c)] # {}
  BY DEF StealFinds
<1>1. Source(c) \in CPU /\ Target(c) \in CPU
  BY DEF BalanceInv, RemoteOK, Trading, Source, Target
<1>2. \A d \in CPU : nr[d] = Load(d) /\ Cardinality(rq[d]) \in Nat
  BY TaskTypes, QueueIsFinite DEF LoadInv
<1>3. nr[Source(c)] > 1 /\ nr[Source(c)] = Load(Source(c))
  <2>1. nr[Source(c)] - nr[Target(c)] > 1
    BY DEF Improves
  <2>2. Load(Target(c)) >= 0 /\ Load(Target(c)) \in Int /\ Load(Source(c)) \in Int
    BY <1>1, <1>2 DEF Load
  <2> QED BY <1>1, <1>2, <2>1, <2>2
<1>4. Cardinality(rq[Source(c)]) > 0
  BY <1>1, <1>2, <1>3 DEF Load
<1> QED BY <1>4, FS_EmptySet
-----------------------------------------------------------------------------
(* The end of the simulation *)

LEMMA CountsKept ==
  ASSUME NEW c \in CPU, Run(c), pc[c] \notin {"wake", "tick", "move", "give"}
  PROVE  UNCHANGED <<nr, events>>
BY DEF Run, Wake, WakeDone, FirstPick, Continue, Tick, BalanceBegin, ReadLoad, SkipTrial,
   Decided, DoubleLock, LockRemote, LockThis, NoMove, EndTrial, Steal, Give, BalanceEnd,
   Schedule, FirstBarrier, Count, SecondBarrier, Goto, queues, balancer

Counted == {c \in CPU : pc[c] \in {"counted", "counted_in"} /\ CpuHasCompleted(c)}

\* The count between the barriers, when CPU 0 has reset it, and when it is full
CountInv ==
    /\ completed \in 0 .. NrCpus
    /\ (\E c \in CPU : pc[c] \in Between) => completed = Cardinality(Counted)
    /\ \A c \in CPU : c = 0 /\ pc[c] = "sync_in" => completed = 0
    /\ completed = NrCpus => \A c \in CPU :
          pc[c] \in {"counted", "counted_in", "next", "done"} /\ CpuHasCompleted(c)

\* A set of CPUs as large as all of them is all of them.
LEMMA CountedCpus ==
  ASSUME NEW S \in SUBSET CPU
  PROVE  /\ IsFiniteSet(S) /\ Cardinality(S) \in 0 .. NrCpus
         /\ Cardinality(S) = NrCpus => S = CPU
<1>1. IsFiniteSet(CPU) /\ Cardinality(CPU) = NrCpus /\ NrCpus \in Nat
  BY FS_Interval, SchedAssumption DEF CPU
<1>2. /\ IsFiniteSet(S) /\ Cardinality(S) <= Cardinality(CPU)
      /\ Cardinality(S) = Cardinality(CPU) => S = CPU
  BY <1>1, FS_Subset
<1>3. Cardinality(S) \in Nat
  BY <1>2, FS_CardinalityType
<1> QED BY <1>1, <1>2, <1>3

\* cpus_completed is the number of CPUs that have counted themselves.
LEMMA CountNext == RoundInv /\ CountInv /\ [Next]_vars => CountInv'
<1> SUFFICES ASSUME RoundInv, CountInv, [Next]_vars PROVE CountInv'
  OBVIOUS
<1>0. /\ NrCpus \in Nat \ {0} /\ completed \in 0 .. NrCpus
      /\ pc \in [CPU -> Place] /\ step \in [CPU -> Int]
      /\ \A c, d \in CPU : pc[c] \in Between => pc[d] \in Between
      /\ 0 \in CPU
  BY SchedAssumption DEF RoundInv, RoundTypeOK, SameRound, CountInv, CPU
<1>1. ASSUME NEW c \in CPU, Run(c) PROVE CountInv'
  <2> USE DEF Between
  <2>0. pc[c] \in Body \cup {"wake"} => completed < NrCpus
    <3>1. CASE Before(c)
      BY <1>0, <3>1 DEF Before, RoundInv, RoundTypeOK, CountInTime, Body, Balancing
    <3>2. CASE ~Before(c)
      BY <1>0, <3>2 DEF RoundInv, CountInTime
    <3> QED BY <3>1, <3>2
  <2>1. ASSUME NEW p, NEW q, Inside(c, p, q) PROVE CountInv'
    <3>1. /\ completed' = completed /\ completed < NrCpus /\ pc[c] \notin Between
          /\ pc'[c] \notin Between \cup {"sync_in"}
          /\ \A d \in CPU : d # c => pc'[d] = pc[d]
      BY <1>0, <2>0, <2>1 DEF Inside, Body, Balancing
    <3>2. \A d \in CPU : pc'[d] \notin Between
      BY <1>0, <3>1
    <3>3. \A d \in CPU : d = 0 /\ pc'[d] = "sync_in" => completed' = 0
      BY <3>1 DEF CountInv
    <3> QED BY <1>0, <3>1, <3>2, <3>3 DEF CountInv
  <2>2. CASE EnterLoop(c)
    <3>1. /\ completed' = completed /\ completed < NrCpus /\ pc[c] = "wake" /\ pc'[c] = "first"
          /\ \A d \in CPU : d # c => pc'[d] = pc[d]
      BY <1>0, <2>0, <2>2 DEF EnterLoop
    <3>2. \A d \in CPU : pc'[d] \notin Between
      BY <1>0, <3>1
    <3> QED BY <1>0, <3>1, <3>2 DEF CountInv
  <2>3. CASE TestLoop(c)
    <3>1. /\ completed' = completed /\ pc[c] \in {"first", "next"}
          /\ pc'[c] = IF completed < NrCpus /\ step[c] + 1 < MaxSteps THEN "tick" ELSE "done"
          /\ \A d \in CPU : d # c => pc'[d] = pc[d]
      BY <1>0, <2>3 DEF TestLoop, LoopTest
    <3>2. \A d \in CPU : pc'[d] \notin Between
      BY <1>0, <3>1
    <3>3. UNCHANGED <<nr, events>>
      BY <1>1, <3>1, CountsKept
    <3>4. completed' = NrCpus => \A d \in CPU :
             pc'[d] \in {"counted", "counted_in", "next", "done"} /\ CpuHasCompleted(d)'
      BY <1>0, <3>1, <3>3 DEF CountInv, CpuHasCompleted
    <3> QED BY <1>0, <3>1, <3>2, <3>4 DEF CountInv
  <2>4. CASE FirstBarrier(c)
    <3>1. /\ pc[c] = "sync" /\ completed' = (IF c = 0 THEN 0 ELSE completed)
          /\ completed < NrCpus /\ \A d \in CPU : pc[d] \notin Between
      BY <1>0, <2>0, <2>4 DEF FirstBarrier, Barrier, Body
    <3>2. CASE pc' = [pc EXCEPT ![c] = "sync_in"]
      <4>1. \A d \in CPU : pc'[d] \notin Between
        BY <1>0, <3>1, <3>2
      <4>2. \A d \in CPU : d = 0 /\ pc'[d] = "sync_in" => completed' = 0
        BY <1>0, <3>1, <3>2 DEF CountInv
      <4> QED BY <1>0, <3>1, <4>1, <4>2 DEF CountInv
    <3>3. CASE pc' = [d \in CPU |-> "count"] /\ \A d \in CPU \ {c} : pc[d] = "sync_in"
      <4>1. completed' = 0
        BY <1>0, <3>1, <3>3 DEF CountInv
      <4>2. Counted' = {} /\ \A d \in CPU : pc'[d] = "count"
        BY <3>3 DEF Counted
      <4> QED BY <1>0, <4>1, <4>2, FS_EmptySet DEF CountInv
    <3> QED BY <2>4, <3>2, <3>3 DEF FirstBarrier, Barrier
  <2>5. CASE Count(c)
    <3>1. /\ pc[c] = "count" /\ pc'[c] = "counted" /\ \A d \in CPU : d # c => pc'[d] = pc[d]
          /\ completed' = IF CpuHasCompleted(c) THEN completed + 1 ELSE completed
      BY <1>0, <2>5 DEF Count, Goto
    <3>2. UNCHANGED <<nr, events>>
      BY <1>1, <3>1, CountsKept
    <3>3. \A d \in CPU : CpuHasCompleted(d)' <=> CpuHasCompleted(d)
      BY <3>2 DEF CpuHasCompleted
    <3>4. /\ Counted' = IF CpuHasCompleted(c) THEN Counted \cup {c} ELSE Counted
          /\ c \notin Counted /\ Counted \subseteq CPU
      BY <3>1, <3>3 DEF Counted
    <3>5. completed = Cardinality(Counted) /\ IsFiniteSet(Counted)
      BY <3>1, <3>4, CountedCpus DEF CountInv
    <3>6. completed' = Cardinality(Counted')
      <4>1. CASE CpuHasCompleted(c)
        BY <3>1, <3>4, <3>5, <4>1, FS_AddElement
      <4>2. CASE ~CpuHasCompleted(c)
        BY <3>1, <3>4, <3>5, <4>2
      <4> QED BY <4>1, <4>2
    <3>7. Counted' \subseteq CPU
      BY DEF Counted
    <3>8. Cardinality(Counted') \in 0 .. NrCpus /\ (Cardinality(Counted') = NrCpus => Counted' = CPU)
      BY <3>7, CountedCpus
    <3>9. completed' = NrCpus => \A d \in CPU :
             pc'[d] \in {"counted", "counted_in", "next", "done"} /\ CpuHasCompleted(d)'
      BY <3>6, <3>8 DEF Counted
    <3>10. \A d \in CPU : pc'[d] \in Between
      BY <1>0, <3>1
    <3> QED BY <3>6, <3>8, <3>9, <3>10 DEF CountInv
  <2>6. CASE SecondBarrier(c)
    <3>1. pc[c] = "counted" /\ completed' = completed
      BY <2>6 DEF SecondBarrier, Barrier
    <3>2. UNCHANGED <<nr, events>>
      BY <1>1, <3>1, CountsKept
    <3>3. \A d \in CPU : CpuHasCompleted(d)' <=> CpuHasCompleted(d)
      BY <3>2 DEF CpuHasCompleted
    <3>4. CASE pc' = [pc EXCEPT ![c] = "counted_in"]
      <4>1. pc'[c] = "counted_in" /\ \A d \in CPU : d # c => pc'[d] = pc[d]
        BY <1>0, <3>4
      <4>2. Counted' = Counted
        BY <3>1, <3>3, <4>1 DEF Counted
      <4>3. \A d \in CPU : pc'[d] \in Between
        BY <1>0, <3>1, <4>1
      <4> QED BY <3>1, <3>3, <4>1, <4>2, <4>3 DEF CountInv
    <3>5. CASE pc' = [d \in CPU |-> "next"]
      BY <3>1, <3>3, <3>5 DEF CountInv
    <3> QED BY <2>6, <3>4, <3>5 DEF SecondBarrier, Barrier
  <2> QED
    BY <1>1, <2>1, <2>2, <2>3, <2>4, <2>5, <2>6, RoundSteps DEF RoundInv
<1>2. CASE UNCHANGED vars
  BY <1>2 DEF vars, queues, CountInv, Counted, CpuHasCompleted
<1> QED BY <1>1, <1>2 DEF Next

\* At first nobody has.
LEMMA CountInit == Init => CountInv
BY SchedAssumption DEF Init, CountInv, Between

\* A full count leaves no task a place but that of the completed ones.
LEMMA CountGivesEnd ==
  RoundInv /\ TaskInv /\ LoadInv /\ CountInv => EndsDone
<1> SUFFICES ASSUME RoundInv, TaskInv, LoadInv, CountInv,
                    NEW c \in CPU, pc[c] = "done", step[c] < MaxSteps, NEW t \in Task
             PROVE  task[t].state = "completed"
  BY DEF EndsDone
<1>1. completed = NrCpus
  <2>1. completed >= NrCpus
    BY SchedAssumption DEF RoundInv, CountInTime, RoundTypeOK
  <2> QED BY <2>1, SchedAssumption DEF CountInv
<1>2. /\ \A d \in CPU : events[d] = <<>> /\ nr[d] = 0 /\ hand[d] = Idle
  BY <1>1 DEF CountInv, CpuHasCompleted, TaskInv, CpuOK, CurOK
<1>3. \A d \in CPU : Cardinality(rq[d]) = 0 /\ IsFiniteSet(rq[d]) /\ ~Runs(d)
  <2>1. \A d \in CPU : Load(d) = 0 /\ Cardinality(rq[d]) \in Nat /\ IsFiniteSet(rq[d])
    BY <1>2, TaskTypes, QueueIsFinite DEF LoadInv
  <2> QED BY <2>1 DEF Load
<1>4. \A d \in CPU : rq[d] = {} /\ ~Waits(d, t)
  BY <1>2, <1>3, FS_EmptySet DEF Waits, Entries
<1>5. TaskOK(t) /\ t # Idle /\ task[t].state \in {"new", "runnable", "onproc", "sleep", "completed"}
  BY TaskTypes DEF TaskInv
<1>6. task[t].state \notin {"new", "sleep"}
  BY <1>4, <1>5 DEF TaskOK, WaitOK
<1>7. task[t].state # "runnable"
  BY <1>2, <1>4, <1>5 DEF TaskOK, QueueOK
<1>8. task[t].state # "onproc"
  BY <1>3, <1>5 DEF TaskOK, RunsOK, Runs
<1> QED BY <1>5, <1>6, <1>7, <1>8

(* The simulation ends before its last step only when every task is        *)
(* completed, however many CPUs count themselves (sched.c:643-722): a      *)
(* count that is full means that no CPU has an event, a task to run, or    *)
(* one in the hands of its balancer.                                       *)
THEOREM EndsWhenDone == ASSUME IoTakesTime PROVE Spec => []EndsDone
<1>1. RoundInv /\ BalanceInv /\ TaskInv /\ [Next]_vars => TaskInv'
  BY TaskNext
<1>2. RoundInv /\ TaskInv /\ LoadInv /\ CountInv => EndsDone
  BY CountGivesEnd
<1> QED
  BY <1>1, <1>2, RoundInit, RoundNext, BalanceInit, BalanceNext, TaskInit,
     LoadInit, LoadNext, CountInit, CountNext, PTL DEF Spec
-----------------------------------------------------------------------------
(* The other types *)

LEMMA OnePlaceHolds == TaskInv => OnePlace
<1> SUFFICES ASSUME TaskInv, NEW t \in Task
    PROVE LET waits  == {c \in CPU : \E i \in DOMAIN events[c] : events[c][i].task = t}
              queued == {c \in CPU : t \in rq[c]}
              held   == {c \in CPU : hand[c] = t}
              runs   == {c \in CPU : cur[c] = t /\ task[t].state = "onproc"}
              one    == [new |-> waits, sleep |-> waits, onproc |-> runs,
                         runnable |-> queued \cup held, completed |-> {}]
          IN  /\ Cardinality(waits) + Cardinality(queued) + Cardinality(held)
                     + Cardinality(runs) = Cardinality(one[task[t].state])
              /\ task[t].state # "completed" => Cardinality(one[task[t].state]) = 1
  BY DEF OnePlace
<1> DEFINE waits  == {c \in CPU : \E i \in DOMAIN events[c] : events[c][i].task = t}
           queued == {c \in CPU : t \in rq[c]}
           held   == {c \in CPU : hand[c] = t}
           runs   == {c \in CPU : cur[c] = t /\ task[t].state = "onproc"}
           one    == [new |-> waits, sleep |-> waits, onproc |-> runs,
                      runnable |-> queued \cup held, completed |-> {}]
           Once   == /\ Cardinality(waits) + Cardinality(queued) + Cardinality(held)
                            + Cardinality(runs) = Cardinality(one[task[t].state])
                     /\ task[t].state # "completed" => Cardinality(one[task[t].state]) = 1
<1>1. /\ TaskOK(t) /\ t # Idle
      /\ task[t].state \in {"new", "runnable", "onproc", "sleep", "completed"}
  BY TaskTypes DEF TaskInv
<1>2. \A c \in CPU : c \in waits <=> Waits(c, t)
  BY DEF Waits, Entries
<1>3. /\ task[t].state \in {"new", "sleep"} => \E c \in CPU : waits = {c}
      /\ task[t].state \notin {"new", "sleep"} => waits = {}
  <2>1. CASE task[t].state \in {"new", "sleep"}
    <3>1. PICK c \in CPU : Waits(c, t) /\ \A d \in CPU : Waits(d, t) => c = d
      BY <1>1, <2>1, Zenon DEF TaskOK, WaitOK
    <3>2. waits = {c}
      BY <1>2, <3>1
    <3> QED BY <2>1, <3>2
  <2>2. CASE task[t].state \notin {"new", "sleep"}
    <3>1. \A c \in CPU : ~Waits(c, t)
      BY <1>1, <2>2, Zenon DEF TaskOK, WaitOK
    <3> QED BY <1>2, <2>2, <3>1
  <2> QED BY <2>1, <2>2
<1>4. /\ task[t].state = "runnable" => \E c \in CPU : \/ queued = {c} /\ held = {}
                                                      \/ queued = {} /\ held = {c}
      /\ task[t].state # "runnable" => queued = {} /\ held = {}
  BY <1>1 DEF TaskOK, QueueOK
<1>5. /\ task[t].state = "onproc" => \E c \in CPU : runs = {c}
      /\ task[t].state # "onproc" => runs = {}
  <2>1. CASE task[t].state = "onproc"
    <3>1. PICK c \in CPU : cur[c] = t /\ \A d \in CPU : cur[d] = t => c = d
      BY <1>1, <2>1 DEF TaskOK, RunsOK
    <3> QED BY <2>1, <3>1
  <2> QED BY <2>1
<1>6. Cardinality({}) = 0 /\ \A c \in CPU : Cardinality({c}) = 1
  BY FS_EmptySet, FS_Singleton
<1> HIDE DEF waits, queued, held, runs
<1>7. ASSUME task[t].state \in {"new", "sleep"} PROVE Once
  <2>1. one[task[t].state] = waits
    BY <1>7
  <2> HIDE DEF one
  <2>2. Cardinality(waits) = 1 /\ Cardinality(queued) = 0 /\ Cardinality(held) = 0
        /\ Cardinality(runs) = 0
    BY <1>3, <1>4, <1>5, <1>6, <1>7
  <2> QED BY <2>1, <2>2
<1>8. ASSUME task[t].state = "runnable" PROVE Once
  <2>1. one[task[t].state] = queued \cup held
    BY <1>8
  <2> HIDE DEF one
  <2>2. PICK c \in CPU : \/ queued = {c} /\ held = {}
                         \/ queued = {} /\ held = {c}
    BY <1>4, <1>8
  <2>3. /\ Cardinality(queued) + Cardinality(held) = 1 /\ queued \cup held = {c}
        /\ Cardinality(queued) \in Nat /\ Cardinality(held) \in Nat
    <3>1. CASE queued = {c} /\ held = {}
      <4>1. queued \cup held = {c}
        BY <3>1
      <4> QED BY <1>6, <3>1, <4>1
    <3>2. CASE queued = {} /\ held = {c}
      <4>1. queued \cup held = {c}
        BY <3>2
      <4> QED BY <1>6, <3>2, <4>1
    <3> QED BY <2>2, <3>1, <3>2
  <2>4. Cardinality(waits) = 0 /\ Cardinality(runs) = 0
    BY <1>3, <1>5, <1>6, <1>8
  <2>5. Cardinality(queued \cup held) = 1
    BY <1>6, <2>3
  <2> QED BY <2>1, <2>3, <2>4, <2>5
<1>9. ASSUME task[t].state = "onproc" PROVE Once
  <2>1. one[task[t].state] = runs
    BY <1>9
  <2> HIDE DEF one
  <2>2. Cardinality(waits) = 0 /\ Cardinality(queued) = 0 /\ Cardinality(held) = 0
        /\ Cardinality(runs) = 1
    BY <1>3, <1>4, <1>5, <1>6, <1>9
  <2> QED BY <2>1, <2>2
<1>10. ASSUME task[t].state = "completed" PROVE Once
  <2>1. one[task[t].state] = {}
    BY <1>10
  <2> HIDE DEF one
  <2>2. Cardinality(waits) = 0 /\ Cardinality(queued) = 0 /\ Cardinality(held) = 0
        /\ Cardinality(runs) = 0
    BY <1>3, <1>4, <1>5, <1>6, <1>10
  <2> QED BY <1>6, <1>10, <2>1, <2>2
<1> HIDE DEF Once
<1>11. Once
  BY <1>1, <1>7, <1>8, <1>9, <1>10
<1> QED BY <1>11 DEF Once, waits, queued, held, runs

\* The clocks stop at the last step.
StepInv ==
    /\ step \in [CPU -> -1 .. MaxSteps]
    /\ \A c \in CPU : pc[c] # "done" => step[c] < MaxSteps

\* A balancer that has read a load, or is past it, has a trial left.
MiscInv ==
    /\ StepInv
    /\ early \in [Task -> Nat]
    /\ load \in [CPU -> Seq(Nat)]
    /\ trials \in [CPU -> 0 .. MaxTrials]
    /\ \A c \in CPU : load[c] # <<>> \/ pc[c] \in Trading => trials[c] < MaxTrials

\* The rest of the types at the start ...
LEMMA MiscInit == Init => MiscInv
BY SchedAssumption DEF Init, MiscInv, StepInv, Trading

\* ... and in every step
LEMMA MiscNext ==
  RoundInv /\ TaskInv /\ LoadInv /\ MiscInv /\ [Next]_vars => MiscInv'
<1> SUFFICES ASSUME RoundInv, TaskInv, LoadInv, MiscInv, [Next]_vars PROVE MiscInv'
  OBVIOUS
<1>0. /\ pc \in [CPU -> Place] /\ step \in [CPU -> -1 .. MaxSteps]
      /\ MaxSteps \in Nat \ {0} /\ MaxTrials \in Nat /\ NrCpus \in Nat \ {0}
  BY SchedAssumption DEF RoundInv, RoundTypeOK, MiscInv, StepInv
<1>1. ASSUME NEW c \in CPU, Run(c) PROVE MiscInv'
  <2>1. StepInv'
    <3>1. ASSUME NEW p, NEW q, Inside(c, p, q) PROVE StepInv'
      <4>1. step' = step /\ pc[c] # "done" /\ \A d \in CPU : d # c => pc'[d] = pc[d]
        BY <1>0, <3>1 DEF Inside, Body, Balancing
      <4> QED BY <1>0, <4>1 DEF MiscInv, StepInv
    <3>2. CASE EnterLoop(c)
      <4>1. step' = step /\ pc[c] # "done" /\ \A d \in CPU : d # c => pc'[d] = pc[d]
        BY <1>0, <3>2 DEF EnterLoop
      <4> QED BY <1>0, <4>1 DEF MiscInv, StepInv
    <3>3. CASE TestLoop(c)
      <4>1. /\ pc[c] # "done" /\ step' = [step EXCEPT ![c] = @ + 1]
            /\ pc'[c] = IF completed < NrCpus /\ step[c] + 1 < MaxSteps THEN "tick" ELSE "done"
            /\ \A d \in CPU : d # c => pc'[d] = pc[d]
        BY <1>0, <3>3 DEF TestLoop, LoopTest
      <4>2. step[c] < MaxSteps /\ step[c] \in -1 .. MaxSteps
        BY <1>0, <4>1 DEF MiscInv, StepInv
      <4>3. step[c] + 1 \in -1 .. MaxSteps /\ step'[c] = step[c] + 1
            /\ \A d \in CPU : d # c => step'[d] = step[d]
        BY <1>0, <4>1, <4>2
      <4>4. step' \in [CPU -> -1 .. MaxSteps]
        BY <1>0, <4>1, <4>3
      <4> QED BY <1>0, <4>1, <4>3, <4>4 DEF MiscInv, StepInv
    <3>4. CASE FirstBarrier(c) \/ SecondBarrier(c)
      <4>1. step' = step /\ \A d \in CPU : pc[d] = "done" => pc'[d] = "done"
        BY <1>0, <3>4 DEF FirstBarrier, SecondBarrier, Barrier
      <4> QED BY <1>0, <4>1 DEF MiscInv, StepInv
    <3>5. CASE Count(c)
      <4>1. step' = step /\ pc[c] # "done" /\ \A d \in CPU : d # c => pc'[d] = pc[d]
        BY <1>0, <3>5 DEF Count, Goto
      <4> QED BY <1>0, <4>1 DEF MiscInv, StepInv
    <3> QED
      BY <1>1, <3>1, <3>2, <3>3, <3>4, <3>5, RoundSteps DEF RoundInv
  <2>2. early' \in [Task -> Nat]
    <3>1. CASE FirstPick(c)
      <4>1. ASSUME NEW t \in rq[c], early' = [early EXCEPT ![t] = @ + task[t].since]
            PROVE  early' \in [Task -> Nat]
        <5>1. t \in Task /\ task[t].since \in Nat
          BY TaskTypes
        <5> QED BY <4>1, <5>1 DEF MiscInv
      <4> QED BY <3>1, <4>1 DEF FirstPick, MiscInv
    <3>2. CASE ~FirstPick(c)
      <4>1. early' = early
        BY <1>1, <3>2 DEF Run, Wake, WakeDone, Continue, Tick, BalanceBegin, ReadLoad,
           SkipTrial, DoubleLock, LockRemote, LockThis, NoMove, Steal, Give, BalanceEnd,
           Schedule, FirstBarrier, Count, SecondBarrier
      <4> QED BY <4>1 DEF MiscInv
    <3> QED BY <3>1, <3>2
  <2>3. /\ load' \in [CPU -> Seq(Nat)] /\ trials' \in [CPU -> 0 .. MaxTrials]
        /\ \A d \in CPU : load'[d] # <<>> \/ pc'[d] \in Trading => trials'[d] < MaxTrials
    <3> USE DEF Goto, balancer, queues
    <3>0. /\ load \in [CPU -> Seq(Nat)] /\ trials \in [CPU -> 0 .. MaxTrials]
          /\ \A d \in CPU : load[d] # <<>> \/ pc[d] \in Trading => trials[d] < MaxTrials
      BY DEF MiscInv
    <3>1. CASE ReadLoad(c)
      <4>1. /\ load' = [load EXCEPT ![c] = Append(@, nr[Len(load[c])])] /\ trials' = trials
            /\ pc' = pc /\ trials[c] < MaxTrials /\ Len(load[c]) < NrCpus
        BY <3>1 DEF ReadLoad
      <4>2. nr[Len(load[c])] \in Nat
        <5>1. Len(load[c]) \in CPU
          BY <1>0, <3>0, <4>1 DEF CPU
        <5>2. \A d \in CPU : nr[d] \in Nat
          BY TaskTypes, QueueIsFinite DEF LoadInv, Load
        <5> QED BY <5>1, <5>2
      <4>3. Append(load[c], nr[Len(load[c])]) \in Seq(Nat)
        BY <3>0, <4>2
      <4> QED BY <3>0, <4>1, <4>3
    <3>2. CASE SkipTrial(c) \/ NoMove(c) \/ Give(c)
      <4>1. /\ trials' = [trials EXCEPT ![c] = @ + 1] /\ load' = [load EXCEPT ![c] = <<>>]
            /\ pc'[c] = "trial" /\ \A d \in CPU : d # c => pc'[d] = pc[d]
        BY <1>0, <3>2 DEF SkipTrial, Decided, NoMove, Give, EndTrial
      <4>2. load[c] # <<>> \/ pc[c] \in Trading
        BY <1>0, <3>2 DEF SkipTrial, Decided, NoMove, Give, Trading
      <4>3. trials[c] < MaxTrials /\ trials[c] + 1 \in 0 .. MaxTrials
        BY <1>0, <3>0, <4>2
      <4> QED BY <1>0, <3>0, <4>1, <4>3 DEF Trading
    <3>3. CASE DoubleLock(c)
      <4>1. /\ trials' = trials /\ load' = load /\ load[c] # <<>>
            /\ \A d \in CPU : d # c => pc'[d] = pc[d]
        BY <1>0, <3>3 DEF DoubleLock, Decided
      <4> QED BY <3>0, <4>1
    <3>4. CASE LockRemote(c) \/ LockThis(c) \/ Steal(c)
      <4>1. /\ trials' = trials /\ load' = load /\ pc[c] \in Trading
            /\ \A d \in CPU : d # c => pc'[d] = pc[d]
        BY <1>0, <3>4 DEF LockRemote, LockThis, Steal, Trading
      <4> QED BY <3>0, <4>1
    <3>5. CASE BalanceEnd(c)
      <4>1. /\ trials' = [trials EXCEPT ![c] = 0] /\ load' = [load EXCEPT ![c] = <<>>]
            /\ pc'[c] = "schedule" /\ \A d \in CPU : d # c => pc'[d] = pc[d]
        BY <1>0, <3>5 DEF BalanceEnd
      <4> QED BY <1>0, <3>0, <4>1 DEF Trading
    <3>6. CASE \/ Wake(c) \/ WakeDone(c) \/ FirstPick(c) \/ Continue(c) \/ Tick(c)
               \/ BalanceBegin(c) \/ Schedule(c) \/ FirstBarrier(c) \/ Count(c)
               \/ SecondBarrier(c)
      <4>1. trials' = trials /\ load' = load
        BY <3>6 DEF Wake, WakeDone, FirstPick, Continue, Tick, BalanceBegin, Schedule,
           FirstBarrier, Count, SecondBarrier
      <4>2. \A d \in CPU : pc'[d] \in Trading => pc[d] \in Trading
        BY <1>0, <3>6 DEF Wake, WakeDone, FirstPick, Continue, LoopTest, Tick, BalanceBegin,
           Schedule, FirstBarrier, Count, SecondBarrier, Barrier, Trading
      <4> QED BY <3>0, <4>1, <4>2
    <3> QED BY <1>1, <3>1, <3>2, <3>3, <3>4, <3>5, <3>6 DEF Run
  <2> QED BY <2>1, <2>2, <2>3 DEF MiscInv
<1>2. CASE UNCHANGED vars
  BY <1>2 DEF vars, balancer, MiscInv, StepInv
<1> QED BY <1>1, <1>2 DEF Next

\* All the types, from the invariants they come from
LEMMA TypesHold ==
  RoundInv /\ BalanceInv /\ DateInv /\ TaskInv /\ LoadInv /\ CountInv /\ MiscInv => TypeOK
<1> SUFFICES ASSUME RoundInv, BalanceInv, DateInv, TaskInv, LoadInv, CountInv, MiscInv
             PROVE  TypeOK
  OBVIOUS
<1>1. pc \in [CPU -> Balancing \cup {"wake", "first", "tick", "balance", "schedule",
                  "sync", "sync_in", "count", "counted", "counted_in", "next", "done"}]
  BY DEF RoundInv, RoundTypeOK, Place, Body, Between
<1>2. nr \in [CPU -> Nat]
  <2>1. \A c \in CPU : nr[c] \in Nat
    BY TaskTypes, QueueIsFinite DEF LoadInv, Load
  <2> QED BY <2>1 DEF LoadInv
<1>3. /\ rq \in [CPU -> SUBSET Task] /\ cur \in [CPU -> Task \cup {Idle}]
      /\ resched \in [CPU -> BOOLEAN] /\ hand \in [CPU -> Task \cup {Idle}]
      /\ events \in [CPU -> Seq([task : Task, timeout : Nat])]
      /\ task \in [Task -> [state : {"new", "runnable", "onproc", "sleep", "completed"},
                          phase : Nat, left : Int, since : Nat, real : Int, cpu : CPU]]
  BY DEF TaskInv, TaskTypeOK, Event, Descriptor
<1>4. /\ lock \in [CPU -> CPU \cup {Free}] /\ nextLB \in [CPU -> Nat]
      /\ completed \in 0 .. NrCpus
  BY DEF BalanceInv, LockTypeOK, DateInv, CountInv
<1>5. /\ step \in [CPU -> -1 .. MaxSteps] /\ load \in [CPU -> Seq(Nat)]
      /\ trials \in [CPU -> 0 .. MaxTrials] /\ early \in [Task -> Nat]
  BY DEF MiscInv, StepInv
<1> QED BY <1>1, <1>2, <1>3, <1>4, <1>5, Zenon DEF TypeOK

(* A task is in one place at any moment, the one its state says,           *)
(* nr_runnable is the number of tasks a CPU has to run, and a balancer     *)
(* that is about to steal has something to steal: for any number of CPUs   *)
(* and of tasks, at any point of the moves from queue to queue             *)
(* (sched.c:361-640).                                                      *)
THEOREM Consistency == ASSUME IoTakesTime PROVE Spec => []Consistent
<1>1. RoundInv /\ BalanceInv /\ TaskInv /\ [Next]_vars => TaskInv'
  BY TaskNext
<1>2. BalanceInv => LockInv
  BY SchedAssumption
  DEF BalanceInv, LockTypeOK, RemoteOK, HoldsExactly, Held, Trading, Balancing, LockInv
<1>3. LoadInv => LoadIsCount
  BY DEF LoadInv, Load, Runs, LoadIsCount
<1>4. /\ RoundInv /\ BalanceInv /\ DateInv /\ TaskInv /\ LoadInv /\ CountInv /\ MiscInv
      => Consistent
  BY <1>2, <1>3, TypesHold, OnePlaceHolds, LoadGivesSteal DEF Consistent
<1> QED
  BY <1>1, <1>4, RoundInit, RoundNext, BalanceInit, BalanceNext, DateInit, DateNext, TaskInit,
     LoadInit, LoadNext, CountInit, CountNext, MiscInit, MiscNext, PTL DEF Spec
-----------------------------------------------------------------------------
(* The times of the tasks *)

\* The times of a task, by its place: that of a sleeping one is charged ahead.
TimeOK(t) ==
    /\ task[t].state = "runnable" =>
           task[t].real = task[t].since - Arrival(t) + early[t]
    /\ \A c \in CPU : cur[c] = t /\ task[t].state = "onproc" =>
           task[t].real = Now(c) - Arrival(t) + early[t]
    /\ \A c \in CPU : \A x \in Entries(events[c]) :
           x.task = t => task[t].real = x.timeout - Arrival(t) + early[t]

TimeInv == \A t \in Task : TimeOK(t)

\* The clock of a CPU goes on as the CPU ticks.
ClockOK(c) == \A d \in CPU :
    Now(d)' = IF d = c /\ pc[c] = "tick" THEN Now(d) + 1 ELSE Now(d)

\* The clocks in a step of c
LEMMA ClockSteps ==
  ASSUME RoundInv, NEW c \in CPU, Run(c)
  PROVE  ClockOK(c)
<1>0. /\ pc \in [CPU -> Place] /\ step \in [CPU -> Int]
  BY DEF RoundInv, RoundTypeOK
<1>1. ASSUME NEW p, NEW q, Inside(c, p, q) PROVE ClockOK(c)
  <2>1. /\ step' = step /\ pc'[c] = q /\ q \notin {"tick", "done"} /\ pc[c] # "done"
        /\ \A d \in CPU : d # c => pc'[d] = pc[d]
    BY <1>0, <1>1 DEF Inside, Body, Balancing
  <2> QED BY <1>0, <2>1 DEF ClockOK, Now
<1>2. CASE EnterLoop(c)
  <2>1. /\ step' = step /\ pc'[c] = "first" /\ pc[c] = "wake"
        /\ \A d \in CPU : d # c => pc'[d] = pc[d]
    BY <1>0, <1>2 DEF EnterLoop
  <2> QED BY <1>0, <2>1 DEF ClockOK, Now
<1>3. CASE TestLoop(c)
  <2>1. /\ pc[c] \in {"first", "next"} /\ pc'[c] \in {"tick", "done"}
        /\ step'[c] = step[c] + 1
        /\ \A d \in CPU : d # c => pc'[d] = pc[d] /\ step'[d] = step[d]
    BY <1>0, <1>3 DEF TestLoop, LoopTest
  <2> QED BY <1>0, <2>1 DEF ClockOK, Now
<1>4. CASE FirstBarrier(c) \/ SecondBarrier(c)
  <2>1. /\ step' = step /\ pc[c] # "tick"
        /\ \A d \in CPU : pc[d] \in {"tick", "done"} <=> pc'[d] \in {"tick", "done"}
    BY <1>0, <1>4 DEF FirstBarrier, SecondBarrier, Barrier
  <2> QED BY <1>0, <2>1 DEF ClockOK, Now
<1>5. CASE Count(c)
  <2>1. /\ step' = step /\ pc[c] = "count" /\ pc'[c] = "counted"
        /\ \A d \in CPU : d # c => pc'[d] = pc[d]
    BY <1>0, <1>5 DEF Count, Goto
  <2> QED BY <1>0, <2>1 DEF ClockOK, Now
<1> QED BY <1>1, <1>2, <1>3, <1>4, <1>5, RoundSteps DEF RoundInv

\* The types of the clocks
LEMMA ClockTypes ==
  ASSUME RoundInv, NEW c \in CPU
  PROVE  Now(c) \in Int /\ step[c] \in Int /\ pc \in [CPU -> Place]
BY DEF RoundInv, RoundTypeOK, Now

\* A task whose times a step leaves alone
LEMMA SameTimes ==
  ASSUME NEW t \in Task, TimeOK(t),
         task'[t].state = task[t].state, task'[t].real = task[t].real,
         task'[t].since = task[t].since, early'[t] = early[t],
         \A c \in CPU : cur'[c] = t => cur[c] = t,
         task[t].state = "onproc" => \A c \in CPU : cur[c] = t => Now(c)' = Now(c),
         \A c \in CPU : \A x \in Entries(events'[c]) :
            x.task = t => x \in Entries(events[c])
  PROVE  TimeOK(t)'
<1>1. task'[t].state = "runnable" =>
        task'[t].real = task'[t].since - Arrival(t) + early'[t]
  BY DEF TimeOK
<1>2. ASSUME NEW c \in CPU, cur'[c] = t, task'[t].state = "onproc"
      PROVE  task'[t].real = Now(c)' - Arrival(t) + early'[t]
  BY <1>2 DEF TimeOK
<1>3. ASSUME NEW c \in CPU, NEW x \in Entries(events'[c]), x.task = t
      PROVE  task'[t].real = x.timeout - Arrival(t) + early'[t]
  BY <1>3 DEF TimeOK
<1> QED BY <1>1, <1>2, <1>3 DEF TimeOK

\* At first no task has used any time.
LEMMA TimeInit == Init => TimeInv
<1> SUFFICES ASSUME Init, NEW t \in Task PROVE TimeOK(t)
  BY DEF TimeInv
<1>1. /\ task[t].state = "new" /\ task[t].real = 0 /\ early[t] = 0 /\ Arrival(t) \in Nat
      /\ \A c \in CPU : events[c] = NewTasks(c)
  BY SchedAssumption DEF Init
<1>2. ASSUME NEW c \in CPU, NEW x \in Entries(events[c]), x.task = t
      PROVE  x.timeout = Arrival(t)
  BY <1>1, <1>2, NewTasksResult
<1> QED BY <1>1, <1>2 DEF TimeOK

\* A step that leaves the times of all tasks alone
LEMMA AllSameTimes ==
  ASSUME TimeInv, UNCHANGED <<cur, events, task, early>>, \A c \in CPU : Now(c)' = Now(c)
  PROVE  TimeInv'
<1> SUFFICES ASSUME NEW t \in Task PROVE TimeOK(t)'
  BY DEF TimeInv
<1> QED BY SameTimes DEF TimeInv

\* A task that wakes up: its time is that of its event.
LEMMA WakeKeepsTimes ==
  ASSUME RoundInv, TaskInv, TimeInv, NEW c \in CPU, Wake(c), ClockOK(c)
  PROVE  TimeInv'
<1>1. PICK t \in Task :
            /\ Head(events[c]).task = t /\ TaskOK(t) /\ task[t].state \in {"new", "sleep"}
            /\ \A d \in CPU : /\ t \notin rq[d] /\ hand[d] # t /\ cur[d] # t
                              /\ Waits(d, t) => d = c
            /\ EventList(Tail(events[c]))
            /\ \A x \in Entries(Tail(events[c])) : x \in Entries(events[c]) /\ x.task # t
            /\ \A x \in Entries(events[c]) : x.task # t => x \in Entries(Tail(events[c]))
  BY WakesOnce DEF Wake
<1>2. /\ pc[c] = "wake" /\ UNCHANGED <<cur, early>>
      /\ Head(events[c]).timeout = step[c] + 1
      /\ events'[c] = Tail(events[c]) /\ \A d \in CPU : d # c => events'[d] = events[d]
      /\ \A u \in Task : u # t => task'[u] = task[u]
  BY <1>1 DEF Wake, Due, TaskInv, TaskTypeOK
<1>3. task'[t].state \in {"runnable", "completed"} /\ task'[t].real = task[t].real
      /\ (task'[t].state = "runnable" => task'[t].since = step[c] + 1)
  <2>1. task[t] \in Descriptor
    BY DEF TaskInv, TaskTypeOK
  <2>0. PICK k : IF k > Len(Phases(t))
                 THEN task' = [task EXCEPT ![t].state = "completed", ![t].phase = k]
                 ELSE task' = [task EXCEPT ![t].state = "runnable", ![t].phase = k,
                                           ![t].left = Phases(t)[k], ![t].since = step[c] + 1]
    BY <1>1 DEF Wake
  <2>2. PICK l : \/ task' = [task EXCEPT ![t].state = "completed", ![t].phase = k]
                 \/ task' = [task EXCEPT ![t].state = "runnable", ![t].phase = k,
                                         ![t].left = l, ![t].since = step[c] + 1]
    BY <2>0
  <2>3. \/ task'[t] = [task[t] EXCEPT !.state = "completed", !.phase = k]
        \/ task'[t] = [task[t] EXCEPT !.state = "runnable", !.phase = k,
                                      !.left = l, !.since = step[c] + 1]
    BY <2>2 DEF TaskInv, TaskTypeOK
  <2> QED BY <2>1, <2>3 DEF Descriptor
<1>4. TimeOK(t)'
  <2>1. \A d \in CPU : \A x \in Entries(events'[d]) : x.task # t
    BY <1>1, <1>2 DEF Waits
  <2>2. task[t].real = (step[c] + 1) - Arrival(t) + early[t]
    <3>1. PICK x \in Entries(events[c]) : x = Head(events[c])
      BY TailResult, TaskTypes DEF Wake, Due
    <3>2. x.task = t => task[t].real = x.timeout - Arrival(t) + early[t]
      BY DEF TimeInv, TimeOK
    <3>3. x.task = t /\ x.timeout = step[c] + 1
      BY <1>1, <1>2, <3>1
    <3> QED BY <3>2, <3>3
  <2>3. \A d \in CPU : cur'[d] # t
    BY <1>1, <1>2
  <2>4. task'[t].state = "runnable" =>
          task'[t].real = task'[t].since - Arrival(t) + early'[t]
    <3>1. early'[t] = early[t]
      BY <1>2
    <3> QED BY <1>3, <2>2, <3>1
  <2> QED BY <2>1, <2>3, <2>4 DEF TimeOK
<1>5. ASSUME NEW u \in Task, u # t PROVE TimeOK(u)'
  <2>1. \A d \in CPU : Now(d)' = Now(d)
    BY <1>2 DEF ClockOK
  <2>2. \A d \in CPU : \A x \in Entries(events'[d]) : x \in Entries(events[d])
    BY <1>1, <1>2
  <2> QED BY <1>2, <1>5, <2>1, <2>2, SameTimes DEF TimeInv
<1> QED BY <1>4, <1>5 DEF TimeInv

\* A first pick: the one that may count a tick too many
LEMMA FirstPickKeepsTimes ==
  ASSUME RoundInv, TaskInv, MiscInv, TimeInv, NEW c \in CPU, FirstPick(c), ClockOK(c)
  PROVE  TimeInv'
<1>1. /\ events' = events /\ pc[c] = "first" /\ step[c] = -1
      /\ \A d \in CPU : Now(d)' = Now(d)
  BY DEF FirstPick, ClockOK, RoundInv, RoundTypeOK
<1>2. CASE UNCHANGED <<rq, cur, task, early>>
  BY <1>1, <1>2, AllSameTimes
<1>3. ASSUME NEW t \in rq[c], cur' = [cur EXCEPT ![c] = t],
             task' = [task EXCEPT ![t].state = "onproc"],
             early' = [early EXCEPT ![t] = @ + task[t].since]
      PROVE  TimeInv'
  <2>1. t \in Task /\ TaskOK(t) /\ early[t] \in Nat /\ Arrival(t) \in Nat
    BY TaskTypes, SchedAssumption DEF TaskInv, MiscInv
  <2>2. /\ task[t].state = "runnable" /\ task[t].since \in Nat /\ task[t].real \in Int
        /\ \A d \in CPU : ~Waits(d, t)
    BY <2>1, TaskTypes, Zenon DEF TaskOK, QueueOK, WaitOK
  <2>3. \A d \in CPU : cur[d] # t
    BY <2>1, <2>2, TaskTypes DEF TaskInv, CpuOK, CurOK, Leaving
  <2>4. /\ task'[t].state = "onproc" /\ task'[t].real = task[t].real
        /\ early'[t] = early[t] + task[t].since
        /\ \A u \in Task : u # t => task'[u] = task[u] /\ early'[u] = early[u]
        /\ \A d \in CPU : cur'[d] = IF d = c THEN t ELSE cur[d]
    BY <1>3, <2>1 DEF TaskInv, TaskTypeOK, Descriptor, MiscInv
  <2>5. Now(c)' = 0
    <3>1. Now(c) = 0
      BY <1>1 DEF Now
    <3> QED BY <1>1, <3>1
  <2>6. task'[t].real = Now(c)' - Arrival(t) + early'[t]
    <3>1. task[t].real = task[t].since - Arrival(t) + early[t]
      BY <2>1, <2>2 DEF TimeInv, TimeOK
    <3> QED BY <2>1, <2>2, <2>4, <2>5, <3>1
  <2>7. TimeOK(t)'
    <3>1. \A d \in CPU : \A x \in Entries(events'[d]) : x.task # t
      BY <1>1, <2>2 DEF Waits
    <3>2. \A d \in CPU : cur'[d] = t => d = c
      BY <2>3, <2>4
    <3> QED BY <2>4, <2>6, <3>1, <3>2 DEF TimeOK
  <2>8. ASSUME NEW u \in Task, u # t PROVE TimeOK(u)'
    BY <1>1, <2>4, <2>8, SameTimes DEF TimeInv
  <2> QED BY <2>7, <2>8 DEF TimeInv
<1> QED BY <1>2, <1>3 DEF FirstPick

\* A tick, and the time of a phase of input and output, in advance
LEMMA TickKeepsTimes ==
  ASSUME RoundInv, TaskInv, TaskInv', MiscInv, TimeInv, NEW c \in CPU, Tick(c), ClockOK(c)
  PROVE  TimeInv'
<1>1. /\ pc[c] = "tick" /\ UNCHANGED <<cur, early>> /\ step[c] \in Int
      /\ Now(c) = step[c] /\ Now(c)' = step[c] + 1
      /\ \A d \in CPU : d # c => Now(d)' = Now(d)
  BY ClockTypes DEF Tick, Goto, ClockOK, Now
<1>2. CASE cur[c] = Idle
  <2>1. UNCHANGED <<events, task>>
    BY <1>2 DEF Tick
  <2>2. \A u \in Task : \A d \in CPU : cur[d] = u => d # c
    BY <1>2, TaskTypes
  <2>3. ASSUME NEW u \in Task PROVE TimeOK(u)'
    BY <1>1, <2>1, <2>2, SameTimes DEF TimeInv
  <2> QED BY <2>3 DEF TimeInv
<1>3. CASE cur[c] # Idle
  <2>1. PICK t \in Task :
          /\ t = cur[c] /\ TaskOK(t) /\ task[t].state = "onproc"
          /\ \A d \in CPU : /\ ~Waits(d, t) /\ t \notin rq[d] /\ hand[d] # t
                            /\ cur[d] = t => d = c
    BY <1>1, <1>3, CurrentRuns DEF LeavePlaces, Balancing
  <2>2. PICK tk : tk = [task[t] EXCEPT !.left = @ - 1, !.real = @ + 1, !.cpu = c]
    OBVIOUS
  <2>3. /\ tk \in Descriptor /\ tk.state = "onproc" /\ tk.phase = task[t].phase /\ tk.cpu = c
        /\ tk.real = task[t].real + 1 /\ task[t].real \in Int
    <3>1. task[t].left - 1 \in Int /\ task[t].real + 1 \in Int /\ task[t] \in Descriptor
          /\ task[t].real \in Int
      BY TaskTypes DEF TaskInv, TaskTypeOK
    <3> QED BY <2>1, <2>2, <3>1 DEF Descriptor
  <2>4. early[t] \in Nat /\ Arrival(t) \in Nat /\ tk.real = step[c] + 1 - Arrival(t) + early[t]
    <3>1. task[t].real = step[c] - Arrival(t) + early[t]
      BY <1>1, <2>1 DEF TimeInv, TimeOK
    <3>2. early[t] \in Nat /\ Arrival(t) \in Nat
      BY SchedAssumption DEF MiscInv
    <3> QED BY <1>1, <2>3, <3>1, <3>2
  <2>5. ASSUME \A u \in Task : u # t => task'[u] = task[u],
               \A d \in CPU : \A x \in Entries(events'[d]) : x.task # t => x \in Entries(events[d]),
               NEW u \in Task, u # t
        PROVE  TimeOK(u)'
    <3>1. \A d \in CPU : cur[d] = u => Now(d)' = Now(d)
      BY <1>1, <2>1, <2>5
    <3> QED BY <1>1, <2>5, <3>1, SameTimes DEF TimeInv
  <2>6. CASE tk.left # 0 \/ tk.phase = Len(Phases(t))
    <3>1. /\ events' = events
          /\ \/ task' = [task EXCEPT ![t] = tk]
             \/ task' = [task EXCEPT ![t] = [tk EXCEPT !.phase = @ + 1, !.state = "completed"]]
      BY <1>3, <2>1, <2>2, <2>6 DEF Tick, Charged
    <3>2. /\ \A u \in Task : u # t => task'[u] = task[u]
          /\ task'[t] = tk \/ task'[t] = [tk EXCEPT !.phase = @ + 1, !.state = "completed"]
      BY <3>1 DEF TaskInv, TaskTypeOK
    <3>3. /\ task'[t].state \in {"onproc", "completed"}
          /\ task'[t].state = "onproc" => task'[t].real = tk.real
      BY <2>3, <3>2 DEF Descriptor
    <3>4. \A d \in CPU : \A x \in Entries(events'[d]) : x.task # t
      BY <2>1, <3>1 DEF Waits
    <3>5. TimeOK(t)'
      <4>1. \A d \in CPU : cur'[d] = t => d = c
        BY <1>1, <2>1
      <4>2. task'[t].state = "onproc" => task'[t].real = Now(c)' - Arrival(t) + early'[t]
        BY <1>1, <2>4, <3>3
      <4> QED BY <3>3, <3>4, <4>1, <4>2 DEF TimeOK
    <3> QED BY <2>5, <3>1, <3>2, <3>5 DEF TimeInv
  <2>7. CASE tk.left = 0 /\ tk.phase # Len(Phases(t))
    <3> DEFINE io == Phases(t)[tk.phase + 1]
               e == [task |-> t, timeout |-> step[c] + io + 1]
    <3>1. /\ task' = [task EXCEPT ![t] =
                [tk EXCEPT !.phase = @ + 1, !.state = "sleep", !.real = @ + io]]
          /\ events' = [events EXCEPT ![c] = InsertEvent(@, e)]
      BY <1>3, <2>1, <2>2, <2>3, <2>7 DEF Tick, Charged, SleepUntil
    <3>2. io \in Nat
      <4>1. Phases(t) \in Seq(Nat) /\ tk.phase \in 1 .. Len(Phases(t))
        BY <2>1, <2>3, SchedAssumption DEF TaskOK, PhaseOK
      <4>2. Len(Phases(t)) \in Nat
        BY <4>1, LenProperties
      <4>3. tk.phase + 1 \in 1 .. Len(Phases(t))
        BY <2>7, <4>1, <4>2
      <4> QED BY <4>1, <4>3, ElementOfSeq
    <3>3. e \in Event /\ e.task = t /\ e.timeout = step[c] + io + 1
      <4>1. step[c] + io + 1 \in Nat
        BY <1>1, <3>2 DEF RoundInv, RoundTypeOK
      <4> HIDE DEF io
      <4> QED BY <4>1 DEF Event
    <3> HIDE DEF e, io
    <3>4. /\ \A u \in Task : u # t => task'[u] = task[u]
          /\ task'[t] = [tk EXCEPT !.phase = @ + 1, !.state = "sleep", !.real = @ + io]
          /\ events'[c] = InsertEvent(events[c], e)
          /\ \A d \in CPU : d # c => events'[d] = events[d]
      BY <3>1 DEF TaskInv, TaskTypeOK
    <3>5. task'[t].state = "sleep" /\ task'[t].real = tk.real + io
      BY <2>3, <3>4 DEF Descriptor
    <3>6. Entries(events'[c]) = Entries(events[c]) \cup {e}
      <4>1. \A x \in Entries(events[c]) : x.task # e.task
        BY <2>1, <3>3 DEF Waits
      <4> QED BY <3>3, <3>4, <4>1, InsertResult, TaskTypes
    <3>7. /\ \A d \in CPU : \A x \in Entries(events'[d]) : x.task # t => x \in Entries(events[d])
          /\ \A d \in CPU : \A x \in Entries(events'[d]) : x.task = t => x = e
      BY <2>1, <3>3, <3>4, <3>6 DEF Waits
    <3>8. TimeOK(t)'
      <4>1. task'[t].real = e.timeout - Arrival(t) + early'[t]
        BY <1>1, <2>3, <2>4, <3>2, <3>3, <3>5
      <4> QED BY <3>5, <3>7, <4>1 DEF TimeOK
    <3> QED BY <2>5, <3>4, <3>7, <3>8 DEF TimeInv
  <2> QED BY <2>6, <2>7
<1> QED BY <1>2, <1>3

\* A move: the time of waiting is charged.
LEMMA GiveKeepsTimes ==
  ASSUME RoundInv, TaskInv, MiscInv, TimeInv, NEW c \in CPU, Give(c), ClockOK(c)
  PROVE  TimeInv'
<1>1. /\ pc[c] = "give" /\ UNCHANGED <<cur, events, early>> /\ step[c] \in Int
      /\ \A d \in CPU : Now(d)' = Now(d)
  BY ClockTypes DEF Give, ClockOK
<1>2. PICK t \in Task : t = hand[c] /\ t # Idle /\ TaskOK(t)
  BY <1>1, TaskTypes DEF TaskInv, CpuOK, CurOK
<1>3. task' = [task EXCEPT ![t] = Moved(c, t)] /\ task[t].state = "runnable"
      /\ \A d \in CPU : ~Waits(d, t)
  BY <1>2, Zenon DEF Give, TaskOK, QueueOK, WaitOK
<1>4. /\ task[t] \in Descriptor /\ task[t].real \in Int /\ task[t].since \in Nat
      /\ early[t] \in Nat /\ Arrival(t) \in Nat
  BY TaskTypes, SchedAssumption DEF TaskInv, TaskTypeOK, MiscInv
<1>5. /\ task'[t] = Moved(c, t) /\ \A u \in Task : u # t => task'[u] = task[u]
  BY <1>3 DEF TaskInv, TaskTypeOK
<1>6. /\ task'[t].state = "runnable" /\ task'[t].since = step[c] + 1
      /\ task'[t].real = task[t].real + (step[c] - task[t].since + 1)
  <2>1. PICK r, s : r = task[t].real + (step[c] - task[t].since + 1) /\ s = step[c] + 1
    OBVIOUS
  <2>2. task'[t] = [task[t] EXCEPT !.real = r, !.since = s]
    BY <1>5, <2>1 DEF Moved
  <2> QED BY <1>3, <1>4, <2>1, <2>2 DEF Descriptor
<1>7. TimeOK(t)'
  <2>1. task[t].real = task[t].since - Arrival(t) + early[t]
    BY <1>3 DEF TimeInv, TimeOK
  <2>2. task'[t].real = task'[t].since - Arrival(t) + early'[t]
    BY <1>1, <1>4, <1>6, <2>1
  <2>3. \A d \in CPU : \A x \in Entries(events'[d]) : x.task # t
    BY <1>1, <1>3 DEF Waits
  <2> QED BY <1>6, <2>2, <2>3 DEF TimeOK
<1>8. ASSUME NEW u \in Task, u # t PROVE TimeOK(u)'
  BY <1>1, <1>5, <1>8, SameTimes DEF TimeInv
<1> QED BY <1>7, <1>8 DEF TimeInv

\* A context switch: the time of waiting is charged to the next task.
LEMMA ScheduleKeepsTimes ==
  ASSUME RoundInv, TaskInv, MiscInv, TimeInv, NEW c \in CPU, Schedule(c), ClockOK(c)
  PROVE  TimeInv'
<1>1. /\ pc[c] = "schedule" /\ UNCHANGED <<events, early>> /\ step[c] \in Int
      /\ Now(c) = step[c] + 1
      /\ \A d \in CPU : Now(d)' = Now(d)
  BY ClockTypes DEF Schedule, Goto, ClockOK, Now
<1>2. CASE UNCHANGED <<rq, cur, task>>
  BY <1>1, <1>2, AllSameTimes
<1>3. ASSUME NEW next \in (IF PutBack(c) = {} THEN {Idle} ELSE PutBack(c)),
             cur' = [cur EXCEPT ![c] = next],
             task' = Switched(c, cur[c], next)
      PROVE  TimeInv'
  <2>1. \A d \in CPU : cur'[d] = IF d = c THEN next ELSE cur[d]
    BY <1>3 DEF TaskInv, TaskTypeOK
  <2>2. PICK prev : prev = cur[c]
    OBVIOUS
  <2>3. ASSUME NEW u \in Task
        PROVE  /\ task[u] \in Descriptor /\ task[u].real \in Int /\ task[u].since \in Nat
               /\ early[u] \in Nat /\ Arrival(u) \in Nat
               /\ task'[u] = IF prev = next \/ u \notin {prev, next} THEN task[u]
                    ELSE IF u = next
                    THEN [task[u] EXCEPT !.state = "onproc",
                                         !.real = @ + (step[c] - task[u].since + 1)]
                    ELSE IF task[u].state = "onproc"
                    THEN [task[u] EXCEPT !.state = "runnable", !.since = step[c] + 1]
                    ELSE task[u]
    BY <1>3, <2>2, TaskTypes, SchedAssumption DEF TaskInv, TaskTypeOK, MiscInv, Switched
  <2>4. next # Idle /\ next # prev => next \in rq[c]
    BY <1>3, <2>2 DEF PutBack
  <2>5. ASSUME NEW u \in Task, u = next, prev # next PROVE TimeOK(u)'
    <3>1. u \in rq[c] /\ TaskOK(u)
      BY <2>4, <2>5, TaskTypes DEF TaskInv
    <3>2. task[u].state = "runnable" /\ \A d \in CPU : ~Waits(d, u)
      BY <3>1, Zenon DEF TaskOK, QueueOK, WaitOK
    <3>3. \A d \in CPU : cur[d] # u
      BY <3>1, <3>2, TaskTypes DEF TaskInv, CpuOK, CurOK, Leaving
    <3>4. /\ task'[u].state = "onproc"
          /\ task'[u].real = task[u].real + (step[c] - task[u].since + 1)
      BY <2>3, <2>5 DEF Descriptor
    <3>5. task[u].real = task[u].since - Arrival(u) + early[u]
      BY <3>2 DEF TimeInv, TimeOK
    <3>6. task'[u].real = Now(c)' - Arrival(u) + early'[u]
      <4>1. Now(c)' = step[c] + 1 /\ early'[u] = early[u]
        BY <1>1
      <4>2. /\ task[u].since \in Nat /\ early[u] \in Nat /\ Arrival(u) \in Nat
            /\ step[c] \in Int
        BY <1>1, <2>3
      <4>3. task'[u].real = (task[u].since - Arrival(u) + early[u])
                              + (step[c] - task[u].since + 1)
        BY <3>4, <3>5
      <4>4. (task[u].since - Arrival(u) + early[u]) + (step[c] - task[u].since + 1)
              = (step[c] + 1) - Arrival(u) + early[u]
        BY <4>2
      <4> QED BY <4>1, <4>3, <4>4
    <3>7. \A d \in CPU : cur'[d] = u => d = c
      BY <2>1, <3>3
    <3>8. \A d \in CPU : \A x \in Entries(events'[d]) : x.task # u
      BY <1>1, <3>2 DEF Waits
    <3> QED BY <3>4, <3>6, <3>7, <3>8 DEF TimeOK
  <2>6. ASSUME NEW u \in Task, u = prev, u # next, task[u].state = "onproc" PROVE TimeOK(u)'
    <3>1. task'[u].state = "runnable" /\ task'[u].real = task[u].real
          /\ task'[u].since = step[c] + 1
      BY <2>3, <2>6 DEF Descriptor
    <3>2. \A d \in CPU : ~Waits(d, u)
      BY <2>6, Zenon DEF TaskInv, TaskOK, WaitOK
    <3>3. task[u].real = Now(c) - Arrival(u) + early[u]
      BY <2>2, <2>6 DEF TimeInv, TimeOK
    <3>4. task'[u].real = task'[u].since - Arrival(u) + early'[u]
      BY <1>1, <3>1, <3>3
    <3>5. \A d \in CPU : \A x \in Entries(events'[d]) : x.task # u
      BY <1>1, <3>2 DEF Waits
    <3> QED BY <3>1, <3>4, <3>5 DEF TimeOK
  <2>7. ASSUME NEW u \in Task, ~(u = next /\ prev # next),
               ~(u = prev /\ u # next /\ task[u].state = "onproc")
        PROVE  TimeOK(u)'
    <3>1. task'[u] = task[u]
      BY <2>3, <2>7
    <3>2. \A d \in CPU : cur'[d] = u => cur[d] = u
      BY <2>1, <2>2, <2>7
    <3> QED BY <1>1, <3>1, <3>2, SameTimes DEF TimeInv
  <2> QED BY <2>5, <2>6, <2>7 DEF TimeInv
<1> QED BY <1>2, <1>3 DEF Schedule

\* Every step keeps the times right.
LEMMA TimeNext ==
  RoundInv /\ TaskInv /\ TaskInv' /\ MiscInv /\ TimeInv /\ [Next]_vars => TimeInv'
<1> SUFFICES ASSUME RoundInv, TaskInv, TaskInv', MiscInv, TimeInv, [Next]_vars PROVE TimeInv'
  OBVIOUS
<1>1. ASSUME NEW c \in CPU, Run(c) PROVE TimeInv'
  <2>0. ClockOK(c)
    BY <1>1, ClockSteps
  <2>1. CASE \/ WakeDone(c) \/ Continue(c) \/ BalanceBegin(c) \/ ReadLoad(c) \/ SkipTrial(c)
             \/ DoubleLock(c) \/ LockRemote(c) \/ LockThis(c) \/ NoMove(c) \/ Steal(c)
             \/ BalanceEnd(c) \/ FirstBarrier(c) \/ Count(c) \/ SecondBarrier(c)
    <3>1. UNCHANGED <<cur, events, task, early>> /\ pc[c] # "tick"
      BY <2>1 DEF WakeDone, Continue, BalanceBegin, ReadLoad, SkipTrial, Decided, DoubleLock,
         LockRemote, LockThis, NoMove, Steal, BalanceEnd, FirstBarrier, Count, SecondBarrier,
         Barrier, Goto, queues
    <3>2. \A d \in CPU : Now(d)' = Now(d)
      BY <2>0, <3>1 DEF ClockOK
    <3> QED BY <3>1, <3>2, AllSameTimes
  <2> QED BY <1>1, <2>0, <2>1, WakeKeepsTimes, FirstPickKeepsTimes, TickKeepsTimes,
             GiveKeepsTimes, ScheduleKeepsTimes DEF Run
<1>2. CASE UNCHANGED vars
  <2>1. \A d \in CPU : Now(d)' = Now(d)
    BY <1>2 DEF vars, Now
  <2>2. UNCHANGED <<cur, events, task, early>>
    BY <1>2 DEF vars, queues
  <2> QED BY <2>1, <2>2, AllSameTimes
<1> QED BY <1>1, <1>2 DEF Next

(* real_time of every task is the time since its arrival, at any moment of *)
(* its life and wherever it has been moved (sched.c:432-468, 485-497,      *)
(* 616-640), but for the tick too many of each push before the first pick  *)
(* of the CPU it was pushed to.                                            *)
THEOREM TimesAreRight == ASSUME IoTakesTime PROVE Spec => []TimesAddUp
<1>1. RoundInv /\ BalanceInv /\ TaskInv /\ [Next]_vars => TaskInv'
  BY TaskNext
<1>2. TimeInv => TimesAddUp
  <2> SUFFICES ASSUME TimeInv, NEW t \in Task
               PROVE  /\ task[t].state = "runnable" =>
                             task[t].real = task[t].since - Arrival(t) + early[t]
                      /\ \A c \in CPU : cur[c] = t /\ task[t].state = "onproc" =>
                             task[t].real = Now(c) - Arrival(t) + early[t]
                      /\ \A c \in CPU : \A i \in DOMAIN events[c] :
                             events[c][i].task = t /\ task[t].state = "sleep" =>
                                 task[t].real = events[c][i].timeout - Arrival(t) + early[t]
    BY DEF TimesAddUp
  <2> QED BY DEF TimeInv, TimeOK, Entries
<1> QED
  BY <1>1, <1>2, RoundInit, RoundNext, BalanceInit, BalanceNext, TaskInit, LoadInit, LoadNext,
     MiscInit, MiscNext, TimeInit, TimeNext, PTL DEF Spec
=============================================================================

----------------------------- MODULE BinarySem -----------------------------
(***************************************************************************)
(* What a sys_sem promises to its users: a counter that a signal sets to   *)
(* one, whatever it was, and that lets at most one waiting thread through  *)
(* each time.  Sem implements this module; Mailbox and Practica3 use Up    *)
(* and Down as the interface of their semaphores.                          *)
(***************************************************************************)
EXTENDS Naturals

CONSTANTS Thread, InitialCount

VARIABLES c,        \* the counter
          waiting   \* the threads inside sys_sem_wait that have not passed

Up   == c' = 1
Down == c > 0 /\ c' = c - 1

Init == c = InitialCount /\ waiting = {}

Enter(t) == t \notin waiting /\ waiting' = waiting \cup {t} /\ c' = c

Pass(t) == t \in waiting /\ Down /\ waiting' = waiting \ {t}

Signal == Up /\ waiting' = waiting

Next == (\E t \in Thread : Enter(t) \/ Pass(t)) \/ Signal

Spec == Init /\ [][Next]_<<c, waiting>>
=============================================================================

\* Three threads, each of which waits and signals in any order: one signal,
\* two waiters that compete for it, spurious wake-ups.
CONSTANTS
    Thread = {t1, t2, t3}
    NoThread = none
    InitialCount = 0
SPECIFICATION FairSpec
INVARIANTS NoLostWakeup
PROPERTIES IsBinarySem WaitReturnsAfterSignal SignalIsConsumed

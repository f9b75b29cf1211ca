\* Two signals: one delivered, one pending behind it or lost.  The program may
\* really stop: it is done, it was killed, or the handler waits for its own lock.
CONSTANT MaxSignals = 2
SPECIFICATION FairHandlerSpec
INVARIANTS SleeperIsPaused
PROPERTIES NoClientAfterFinish FinishEndsUnless HandlerEndsUnless
CHECK_DEADLOCK FALSE

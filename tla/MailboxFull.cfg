\* Three producers that post without waiting for an answer and two slots: the
\* mailbox gets full, two producers may be blocked, and the loop of mbox_fetch
\* is entered.
CONSTANTS
    Producer = {p1, p2, p3}
    Server = server
    Nobody = nobody
    Capacity = 2
    WaitsForAnswer = FALSE
SPECIFICATION FairSpec
INVARIANTS WaitSendCounts NoLostWakeup
PROPERTIES IsChannel QueuedIsFetched

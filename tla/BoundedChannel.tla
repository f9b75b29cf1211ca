--------------------------- MODULE BoundedChannel ---------------------------
(***************************************************************************)
(* What a mailbox promises: a FIFO channel of bounded capacity.  A producer *)
(* asks to post a message and is done when the message is in the channel;   *)
(* a fetch takes the oldest message.  Nothing is lost, duplicated or        *)
(* reordered, and a fetch of an empty channel waits.  A message is known by *)
(* its producer.                                                            *)
(***************************************************************************)
EXTENDS Naturals, Sequences

CONSTANTS Producer, Capacity

VARIABLES asked,  \* the producers inside a post that is not done
          chan,   \* the messages in the channel, oldest first
          last    \* the message of the last fetch

Init == asked = {} /\ chan = << >> /\ last \notin Producer

Ask(p) == p \notin asked /\ asked' = asked \cup {p} /\ UNCHANGED <<chan, last>>

Deposit(p) ==
    /\ p \in asked
    /\ Len(chan) < Capacity
    /\ asked' = asked \ {p}
    /\ chan' = Append(chan, p)
    /\ last' = last

Fetch ==
    /\ chan # << >>
    /\ last' = Head(chan)
    /\ chan' = Tail(chan)
    /\ asked' = asked

Next == (\E p \in Producer : Ask(p) \/ Deposit(p)) \/ Fetch

Spec == Init /\ [][Next]_<<asked, chan, last>>
=============================================================================

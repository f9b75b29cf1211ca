-------------------------- MODULE Practica3Proofs --------------------------
(***************************************************************************)
(* The life of a message of practica3, for any number of commands, of      *)
(* signals, of clients and of slots.  The argument is about ownership: a   *)
(* message in the mailbox or with the server has its maker waiting on      *)
(* op_completed with no answer yet, it is there only once, and the maker   *)
(* frees it only after the answer.  The races on the table of clients and  *)
(* on the shutdown do not matter to it.                                    *)
(*                                                                         *)
(* Then the table of clients.  With signals its creators, main and the     *)
(* handler, may lose an entry or a count, but the test in create_client    *)
(* stops one short of the end, and since there are only two of them no     *)
(* write leaves the table.  Without signals there is one creator, and the  *)
(* table, the shutdown and the bounds on the mailbox are exact.            *)
(***************************************************************************)
EXTENDS Practica3, SequenceTheorems, FiniteSetTheorems, TLAPS

\* The types that the life of a message needs
MessageTypeOK ==
    /\ client \in [Client -> {"unborn", "loop", "post", "wait", "process", "gone"}]
    /\ completed \in [Message -> {0, 1}]
    /\ chan \in Seq(Message)
    /\ msg \in Message

\* A sequence without repetitions
Distinct(s) == \A k, l \in DOMAIN s : s[k] = s[l] => k = l

\* The server has a message; a message is on its way to its answer; its maker
\* waits for it; its maker has it, from new_message to free_message.
Working  == server \in {"execute", "signal"}
Pending(m) == m \in Elements(chan) \/ (Working /\ msg = m)
Waits(m)   == IF m = NONE THEN main = "wait" ELSE client[m] = "wait"
Holds(m)   == IF m = NONE THEN main \in {"post", "wait", "free"}
                          ELSE client[m] \in {"post", "wait", "process"}

\* A message is on its way once.
Once == Distinct(chan) /\ (Working => msg \notin Elements(chan))

\* What the place of a message says of its semaphore, its answer and its memory
Ownership ==
    \A m \in Message :
        /\ Pending(m) => Waits(m) /\ completed[m] = 0
        /\ completed[m] = 1 => Waits(m) /\ m \in answer
        /\ Holds(m) => m \in allocated

\* Whoever is past the answer finds it.
Answered ==
    /\ server = "signal" => msg \in answer
    /\ \A c \in Client : client[c] = "process" => c \in answer

Inv == MessageTypeOK /\ Once /\ Ownership /\ Answered

LEMMA NoneIsNoClient == NONE \in Message /\ NONE \notin Client /\ Client \subseteq Message
  BY Practica3Assumption DEF NONE, Message, Client

LEMMA InitInv == Init => Inv
<1> SUFFICES ASSUME Init PROVE Inv
  OBVIOUS
<1>1. Elements(chan) = {} /\ Distinct(chan)
  BY DEF Init, Elements, Distinct
<1> QED
  BY <1>1, NoneIsNoClient
  DEF Init, Inv, MessageTypeOK, Once, Ownership, Answered, Pending, Waits, Holds,
      Working, Message

\* Posting a message that is not in the mailbox, and fetching the oldest one.
LEMMA AppendFacts ==
  ASSUME NEW s \in Seq(Message), NEW m \in Message, Distinct(s), m \notin Elements(s)
  PROVE  /\ Append(s, m) \in Seq(Message)
         /\ Distinct(Append(s, m))
         /\ Elements(Append(s, m)) = Elements(s) \cup {m}
<1> DEFINE r == Append(s, m)
<1>1. /\ r \in Seq(Message) /\ Len(s) \in Nat /\ Len(r) = Len(s) + 1
      /\ DOMAIN s = 1 .. Len(s) /\ DOMAIN r = 1 .. Len(r)
      /\ \A k \in 1 .. Len(s) : r[k] = s[k]
      /\ r[Len(s) + 1] = m
  BY AppendProperties, LenProperties
<1> HIDE DEF r
<1>2. \A k \in DOMAIN r : \/ k \in DOMAIN s /\ r[k] = s[k]
                          \/ k = Len(s) + 1 /\ r[k] = m
  BY <1>1
<1>3. Distinct(r)
  BY <1>2 DEF Distinct, Elements
<1>4. Elements(r) = Elements(s) \cup {m}
  <2>1. Elements(r) \subseteq Elements(s) \cup {m}
    BY <1>2 DEF Elements
  <2>2. Elements(s) \subseteq Elements(r) /\ m \in Elements(r)
    BY <1>1 DEF Elements
  <2> QED BY <2>1, <2>2
<1> QED BY <1>1, <1>3, <1>4 DEF r

LEMMA HeadFacts ==
  ASSUME NEW s \in Seq(Message), s # << >>, Distinct(s)
  PROVE  /\ Head(s) \in Elements(s) /\ Head(s) \in Message
         /\ Tail(s) \in Seq(Message)
         /\ Distinct(Tail(s))
         /\ Elements(Tail(s)) = Elements(s) \ {Head(s)}
<1> DEFINE r == Tail(s)
<1>1. /\ r \in Seq(Message) /\ Len(s) \in Nat \ {0} /\ Len(r) = Len(s) - 1
      /\ DOMAIN s = 1 .. Len(s) /\ DOMAIN r = 1 .. Len(r)
      /\ \A k \in 1 .. Len(r) : r[k] = s[k + 1]
      /\ Head(s) = s[1] /\ Head(s) \in Message
  BY HeadTailProperties, LenProperties, EmptySeq
<1> HIDE DEF r
<1>2. \A k \in DOMAIN r : k \in Nat /\ k + 1 \in DOMAIN s /\ k + 1 # 1 /\ r[k] = s[k + 1]
  BY <1>1
<1>3. \A k \in DOMAIN s : k # 1 => k - 1 \in DOMAIN r /\ r[k - 1] = s[k]
  BY <1>1
<1>4. ASSUME NEW k \in DOMAIN r, NEW l \in DOMAIN r, r[k] = r[l] PROVE k = l
  <2>1. k + 1 = l + 1  BY <1>2, <1>4 DEF Distinct
  <2> QED BY <1>2, <2>1
<1>5. 1 \in DOMAIN s
  BY <1>1
<1>6. Elements(r) \subseteq Elements(s) \ {Head(s)}
  BY <1>1, <1>2, <1>5 DEF Elements, Distinct
<1>7. Elements(s) \ {Head(s)} \subseteq Elements(r)
  BY <1>1, <1>3 DEF Elements
<1>8. Head(s) \in Elements(s)
  BY <1>1, <1>5 DEF Elements
<1> QED BY <1>1, <1>4, <1>6, <1>7, <1>8 DEF r, Distinct

\* What the other lemmas use of a step of a client, of the server and of main.
LEMMA ClientFrame ==
  ASSUME Inv, NEW c \in Client, NEW from, NEW to, ClientStep(c, from, to),
         to \in {"loop", "post", "wait", "process", "gone"}
  PROVE  /\ c \in Message /\ c # NONE /\ client[c] = from /\ client'[c] = to
         /\ client' \in [Client -> {"unborn", "loop", "post", "wait", "process", "gone"}]
         /\ \A d \in Client : d # c => client'[d] = client[d]
         /\ \A m \in Message : m # c => (Waits(m)' <=> Waits(m)) /\ (Holds(m)' <=> Holds(m))
         /\ Waits(c) <=> from = "wait"
         /\ Waits(c)' <=> to = "wait"
         /\ Holds(c) <=> from \in {"post", "wait", "process"}
         /\ Holds(c)' <=> to \in {"post", "wait", "process"}
         /\ server' = server /\ msg' = msg /\ (Working' <=> Working)
<1>1. c \in Message /\ c # NONE
  BY NoneIsNoClient
<1>2. client' = [client EXCEPT ![c] = to] /\ main' = main /\ client[c] = from
      /\ server' = server /\ msg' = msg
  BY DEF ClientStep, mainVars, serverVars
<1>3. /\ client'[c] = to
      /\ client' \in [Client -> {"unborn", "loop", "post", "wait", "process", "gone"}]
      /\ \A d \in Client : d # c => client'[d] = client[d]
  BY <1>2 DEF Inv, MessageTypeOK
<1>4. \A m \in Message : m = NONE \/ m \in Client
  BY DEF Message
<1> QED
  BY <1>1, <1>2, <1>3, <1>4 DEF Waits, Holds, Working

LEMMA ClientLoopInv == ASSUME Inv, NEW c \in Client, ClientLoop(c) PROVE Inv'
<1>1. CASE /\ ClientStep(c, "loop", "post") /\ NewMessage(c) /\ UNCHANGED chan
  <2>1. /\ allocated' = allocated \cup {c} /\ answer' = answer \ {c}
        /\ completed' = [completed EXCEPT ![c] = 0] /\ chan' = chan
    BY <1>1 DEF NewMessage
  <2>2. /\ completed' \in [Message -> {0, 1}] /\ completed'[c] = 0
        /\ \A m \in Message : m # c => completed'[m] = completed[m]
    BY <2>1, ClientFrame, <1>1 DEF Inv, MessageTypeOK
  <2>3. ~Pending(c)
    BY <1>1, ClientFrame DEF Inv, Ownership
  <2> QED
    BY <1>1, <2>1, <2>2, <2>3, ClientFrame
    DEF Inv, MessageTypeOK, Once, Ownership, Answered, Pending, Elements, Distinct, Working
<1>2. CASE ClientStep(c, "loop", "gone") /\ UNCHANGED <<messageVars, chan>>
  BY <1>2, ClientFrame
  DEF Inv, MessageTypeOK, Once, Ownership, Answered, Pending, Elements, Distinct,
      messageVars, Working
<1> QED BY <1>1, <1>2 DEF ClientLoop

LEMMA ClientPostInv == ASSUME Inv, NEW c \in Client, ClientPost(c) PROVE Inv'
<1>1. ClientStep(c, "post", "wait") /\ UNCHANGED messageVars
  BY DEF ClientPost
<1>2. c \in Message /\ ~Pending(c) /\ completed[c] = 0 /\ c \in allocated
  BY <1>1, ClientFrame DEF Inv, Ownership, MessageTypeOK
<1>3. CASE chan' = chan
  BY <1>1, <1>2, <1>3, ClientFrame
  DEF Inv, MessageTypeOK, Once, Ownership, Answered, Pending, Elements, Distinct,
      messageVars, Working
<1>4. CASE chan' = Append(chan, c)
  <2>1. /\ chan' \in Seq(Message) /\ Distinct(chan)'
        /\ Elements(chan)' = Elements(chan) \cup {c}
    <3>1. c \notin Elements(chan)  BY <1>2 DEF Pending
    <3>2. /\ Append(chan, c) \in Seq(Message) /\ Distinct(Append(chan, c))
          /\ Elements(Append(chan, c)) = Elements(chan) \cup {c}
      BY <1>2, <3>1, AppendFacts DEF Inv, MessageTypeOK, Once
    <3> QED BY <1>4, <3>2 DEF Distinct, Elements
  <2>2. Working => msg # c
    BY <1>2 DEF Pending
  <2> QED
    BY <1>1, <1>2, <2>1, <2>2, ClientFrame
    DEF Inv, MessageTypeOK, Once, Ownership, Answered, Pending, messageVars, Working
<1> QED BY <1>3, <1>4 DEF ClientPost, mbox_post

LEMMA ClientWaitInv == ASSUME Inv, NEW c \in Client, ClientWait(c) PROVE Inv'
<1>1. /\ ClientStep(c, "wait", "process")
      /\ completed[c] > 0 /\ completed' = [completed EXCEPT ![c] = @ - 1]
      /\ allocated' = allocated /\ answer' = answer /\ chan' = chan
  BY DEF ClientWait, sys_sem_wait
<1>2. completed[c] = 1
  BY <1>1, ClientFrame DEF Inv, MessageTypeOK
<1>3. /\ completed' \in [Message -> {0, 1}] /\ completed'[c] = 0
      /\ \A m \in Message : m # c => completed'[m] = completed[m]
  BY <1>1, <1>2, ClientFrame DEF Inv, MessageTypeOK
<1>4. c \in answer /\ ~Pending(c)
  BY <1>1, <1>2, ClientFrame DEF Inv, Ownership
<1> QED
  BY <1>1, <1>3, <1>4, ClientFrame
  DEF Inv, MessageTypeOK, Once, Ownership, Answered, Pending, Elements, Distinct, Working

LEMMA ClientProcessInv == ASSUME Inv, NEW c \in Client, ClientProcess(c) PROVE Inv'
<1>1. /\ ClientStep(c, "process", "loop") /\ allocated' = allocated \ {c}
      /\ answer' = answer /\ completed' = completed /\ chan' = chan
  BY DEF ClientProcess, FreeMessage
<1>2. ~Pending(c) /\ completed[c] = 0
  BY <1>1, ClientFrame DEF Inv, Ownership, MessageTypeOK
<1> QED
  BY <1>1, <1>2, ClientFrame
  DEF Inv, MessageTypeOK, Once, Ownership, Answered, Pending, Elements, Distinct, Working

\* A step of the server that takes nothing, from a place where it holds nothing.
LEMMA ServerIdleInv ==
  ASSUME Inv, NEW from \in {"start", "loop"}, NEW to \in {"loop", "fetch", "down"},
         ServerStep(from, to), UNCHANGED <<answer, completed, chan, msg>>
  PROVE  Inv'
BY NoneIsNoClient
DEF Inv, MessageTypeOK, Once, Ownership, Answered, Pending, Elements, Distinct, Working,
    Waits, Holds, ServerStep, mainVars, clientVars

LEMMA ServerFetchInv == ASSUME Inv, ServerFetch PROVE Inv'
<1>1. /\ server = "fetch" /\ server' = "execute" /\ chan # << >>
      /\ msg' = Head(chan) /\ chan' = Tail(chan)
      /\ UNCHANGED <<answer, completed, allocated, main, client>>
  BY DEF ServerFetch, ServerStep, mainVars, clientVars
<1>2. /\ msg' \in Message /\ msg' \in Elements(chan)
      /\ chan' \in Seq(Message) /\ Distinct(chan)'
      /\ Elements(chan)' = Elements(chan) \ {msg'}
  <2>1. /\ Head(chan) \in Elements(chan) /\ Head(chan) \in Message
        /\ Tail(chan) \in Seq(Message) /\ Distinct(Tail(chan))
        /\ Elements(Tail(chan)) = Elements(chan) \ {Head(chan)}
    BY <1>1, HeadFacts DEF Inv, MessageTypeOK, Once
  <2> QED BY <1>1, <2>1 DEF Distinct, Elements
<1>3. Working' /\ ~Working
  BY <1>1 DEF Working
<1>4. \A m \in Message : (Waits(m)' <=> Waits(m)) /\ (Holds(m)' <=> Holds(m))
  BY <1>1 DEF Waits, Holds
<1>5. \A m \in Message : Pending(m)' <=> Pending(m)
  BY <1>2, <1>3 DEF Pending
<1> QED
  BY <1>1, <1>2, <1>3, <1>4, <1>5
  DEF Inv, MessageTypeOK, Once, Ownership, Answered

LEMMA ServerExecuteInv == ASSUME Inv, ServerExecute PROVE Inv'
<1>1. /\ server = "execute" /\ server' = "signal" /\ answer' = answer \cup {msg}
      /\ UNCHANGED <<completed, chan, msg, allocated, main, client>>
  BY DEF ServerExecute, ServerStep, mainVars, clientVars
<1>2. \A m \in Message : /\ Waits(m)' <=> Waits(m)
                         /\ Holds(m)' <=> Holds(m)
                         /\ Pending(m)' <=> Pending(m)
  BY <1>1 DEF Waits, Holds, Pending, Working, Elements
<1> QED
  BY <1>1, <1>2
  DEF Inv, MessageTypeOK, Once, Ownership, Answered, Working, Elements, Distinct

LEMMA ServerSignalInv == ASSUME Inv, ServerSignal PROVE Inv'
<1>1. /\ server = "signal" /\ server' = "loop"
      /\ completed' = [completed EXCEPT ![msg] = 1]
      /\ UNCHANGED <<answer, chan, msg, allocated, main, client>>
  BY DEF ServerSignal, ServerStep, mainVars, clientVars
<1>2. /\ completed' \in [Message -> {0, 1}] /\ completed'[msg] = 1
      /\ \A m \in Message : m # msg => completed'[m] = completed[m]
  BY <1>1 DEF Inv, MessageTypeOK
<1>3. Working /\ ~Working' /\ msg \in Message /\ msg \in answer
      /\ msg \notin Elements(chan) /\ Waits(msg)
  BY <1>1 DEF Working, Inv, MessageTypeOK, Once, Answered, Ownership, Pending
<1>4. \A m \in Message : /\ Waits(m)' <=> Waits(m)
                         /\ Holds(m)' <=> Holds(m)
                         /\ Pending(m)' => Pending(m) /\ m # msg
  BY <1>1, <1>3 DEF Waits, Holds, Pending, Elements
<1> QED
  BY <1>1, <1>2, <1>3, <1>4
  DEF Inv, MessageTypeOK, Once, Ownership, Answered, Elements, Distinct

\* What the other lemmas use of a step of main on its own message.
LEMMA MainFrame ==
  ASSUME NEW from, NEW to, MainStep(from, to)
  PROVE  /\ main = from /\ main' = to
         /\ client' = client /\ server' = server /\ msg' = msg
         /\ \A m \in Message : m # NONE => (Waits(m)' <=> Waits(m)) /\ (Holds(m)' <=> Holds(m))
         /\ Waits(NONE) <=> from = "wait"
         /\ Waits(NONE)' <=> to = "wait"
         /\ Holds(NONE) <=> from \in {"post", "wait", "free"}
         /\ Holds(NONE)' <=> to \in {"post", "wait", "free"}
         /\ Working' <=> Working
BY DEF MainStep, clientVars, Waits, Holds, Working

\* A step of main that touches no message.
LEMMA MainIdleInv ==
  ASSUME Inv, NEW from, NEW to, MainStep(from, to),
         from \notin {"post", "wait", "free"}, to \notin {"post", "wait", "free"},
         UNCHANGED <<messageVars, chan>>
  PROVE  Inv'
BY MainFrame
DEF Inv, MessageTypeOK, Once, Ownership, Answered, Pending, Elements, Distinct,
    Working, messageVars

LEMMA MainNewInv == ASSUME Inv, MainNew PROVE Inv'
<1>1. CASE MainStep("new", "post") /\ NewMessage(NONE) /\ UNCHANGED chan
  <2>1. /\ allocated' = allocated \cup {NONE} /\ answer' = answer \ {NONE}
        /\ completed' = [completed EXCEPT ![NONE] = 0] /\ chan' = chan
    BY <1>1 DEF NewMessage
  <2>2. /\ completed' \in [Message -> {0, 1}] /\ completed'[NONE] = 0
        /\ \A m \in Message : m # NONE => completed'[m] = completed[m]
    BY <2>1, NoneIsNoClient DEF Inv, MessageTypeOK
  <2>3. ~Pending(NONE)
    BY <1>1, MainFrame, NoneIsNoClient DEF Inv, Ownership
  <2> QED
    BY <1>1, <2>1, <2>2, <2>3, MainFrame, NoneIsNoClient
    DEF Inv, MessageTypeOK, Once, Ownership, Answered, Pending, Elements, Distinct, Working
<1>2. CASE MainStep("new", "join_server") /\ UNCHANGED <<messageVars, chan>>
  BY <1>2, MainIdleInv
<1> QED BY <1>1, <1>2 DEF MainNew, messageVars

LEMMA MainPostInv == ASSUME Inv, MainPost PROVE Inv'
<1>1. /\ MainStep("post", "wait") /\ UNCHANGED messageVars
      /\ chan' = Append(chan, NONE)
  BY DEF MainPost, mbox_post
<1>2. NONE \in Message /\ ~Pending(NONE) /\ completed[NONE] = 0 /\ NONE \in allocated
  BY <1>1, MainFrame, NoneIsNoClient DEF Inv, Ownership, MessageTypeOK
<1>3. /\ chan' \in Seq(Message) /\ Distinct(chan)'
      /\ Elements(chan)' = Elements(chan) \cup {NONE}
  <2>1. NONE \notin Elements(chan)  BY <1>2 DEF Pending
  <2>2. /\ Append(chan, NONE) \in Seq(Message) /\ Distinct(Append(chan, NONE))
        /\ Elements(Append(chan, NONE)) = Elements(chan) \cup {NONE}
    BY <1>2, <2>1, AppendFacts DEF Inv, MessageTypeOK, Once
  <2> QED BY <1>1, <2>2 DEF Distinct, Elements
<1>4. Working => msg # NONE
  BY <1>2 DEF Pending
<1> QED
  BY <1>1, <1>2, <1>3, <1>4, MainFrame
  DEF Inv, MessageTypeOK, Once, Ownership, Answered, Pending, messageVars, Working

LEMMA MainWaitInv == ASSUME Inv, MainWait PROVE Inv'
<1>1. /\ MainStep("wait", "free")
      /\ completed[NONE] > 0 /\ completed' = [completed EXCEPT ![NONE] = @ - 1]
      /\ allocated' = allocated /\ answer' = answer /\ chan' = chan
  BY DEF MainWait, sys_sem_wait
<1>2. completed[NONE] = 1
  BY <1>1, NoneIsNoClient DEF Inv, MessageTypeOK
<1>3. /\ completed' \in [Message -> {0, 1}] /\ completed'[NONE] = 0
      /\ \A m \in Message : m # NONE => completed'[m] = completed[m]
  BY <1>1, <1>2, NoneIsNoClient DEF Inv, MessageTypeOK
<1>4. ~Pending(NONE)
  BY <1>2, NoneIsNoClient DEF Inv, Ownership
<1> QED
  BY <1>1, <1>3, <1>4, MainFrame, NoneIsNoClient
  DEF Inv, MessageTypeOK, Once, Ownership, Answered, Pending, Elements, Distinct, Working

LEMMA MainFreeInv == ASSUME Inv, MainFree PROVE Inv'
<1>1. /\ MainStep("free", "join_server") /\ allocated' = allocated \ {NONE}
      /\ answer' = answer /\ completed' = completed /\ chan' = chan
  BY DEF MainFree, FreeMessage
<1>2. ~Pending(NONE) /\ completed[NONE] = 0
  BY <1>1, MainFrame, NoneIsNoClient DEF Inv, Ownership, MessageTypeOK
<1> QED
  BY <1>1, <1>2, MainFrame, NoneIsNoClient
  DEF Inv, MessageTypeOK, Once, Ownership, Answered, Pending, Elements, Distinct, Working

LEMMA CreateInv == ASSUME Inv, NEW a \in Creator, pthread_create(a) PROVE Inv'
<1>1. PICK c \in Client :
        /\ client[c] = "unborn" /\ client' = [client EXCEPT ![c] = "loop"]
        /\ UNCHANGED <<main, messageVars, chan, serverVars>>
  BY DEF pthread_create, Create
<1>2. /\ client' \in [Client -> {"unborn", "loop", "post", "wait", "process", "gone"}]
      /\ client'[c] = "loop" /\ \A d \in Client : d # c => client'[d] = client[d]
  BY <1>1 DEF Inv, MessageTypeOK
<1>3. \A m \in Message : m = NONE \/ m \in Client
  BY DEF Message
<1>4. \A m \in Message : (Waits(m)' <=> Waits(m)) /\ (Holds(m)' <=> Holds(m))
  BY <1>1, <1>2, <1>3 DEF Waits, Holds
<1> QED
  BY <1>1, <1>2, <1>4
  DEF Inv, MessageTypeOK, Once, Ownership, Answered, Pending, Elements, Distinct,
      Working, messageVars, serverVars

\* A step that leaves main, the clients, the messages and the server alone.
LEMMA IdleInv ==
  ASSUME Inv, UNCHANGED <<main, client, messageVars, chan, server, msg>>
  PROVE  Inv'
BY DEF Inv, MessageTypeOK, Once, Ownership, Answered, Pending, Elements, Distinct,
       Working, Waits, Holds, messageVars

LEMMA NextInv == Inv /\ [Next]_vars => Inv'
<1> SUFFICES ASSUME Inv, [Next]_vars PROVE Inv'
  OBVIOUS
<1>1. ASSUME NEW a \in Creator, Call(a) \/ CreateStep(a) PROVE Inv'
  <2>1. CASE pthread_create(a)
    BY <2>1, CreateInv
  <2>2. CASE Call(a) \/ Check(a) \/ Fail(a) \/ SetSlot(a) \/ LoadCount(a) \/ StoreCount(a)
    BY <2>2, IdleInv
    DEF Call, Check, Fail, SetSlot, LoadCount, StoreCount, Create, clientVars, serverVars
  <2> QED BY <1>1, <2>1, <2>2 DEF CreateStep
<1>2. ASSUME NEW c \in Client, ClientRun(c) PROVE Inv'
  BY <1>2, ClientLoopInv, ClientPostInv, ClientWaitInv, ClientProcessInv DEF ClientRun
<1>3. CASE ServerStart
  BY <1>3, ServerIdleInv DEF ServerStart
<1>4. CASE ServerLoop
  BY <1>4, ServerIdleInv DEF ServerLoop
<1>5. CASE ServerFetch \/ ServerExecute \/ ServerSignal
  BY <1>5, ServerFetchInv, ServerExecuteInv, ServerSignalInv
<1>6. CASE Quit
  BY <1>6, MainIdleInv DEF Quit
<1>7. CASE Wait
  BY <1>7, MainIdleInv DEF Wait, JoinClient, JoinZero, ClearList
<1>8. CASE Shutdown \/ JoinServer \/ FinishHandler \/ MboxFree \/ Return
  BY <1>8, MainIdleInv DEF Shutdown, JoinServer, FinishHandler, MboxFree, Return
<1>9. CASE MainNew \/ MainPost \/ MainWait \/ MainFree
  BY <1>9, MainNewInv, MainPostInv, MainWaitInv, MainFreeInv
<1>10. CASE UNCHANGED vars
  BY <1>10, IdleInv DEF vars, mainVars, clientVars, messageVars, serverVars
<1> QED
  BY <1>1, <1>2, <1>3, <1>4, <1>5, <1>6, <1>7, <1>8, <1>9, <1>10
  DEF Next, ServerRun, MainRun

LEMMA Invariance == Spec => []Inv
BY InitInv, NextInv, PTL DEF Spec

(* Neither the mailbox nor the server ever holds a message that its maker  *)
(* has freed: free_message comes after the answer (clients.c:85-94).       *)
THEOREM MessagesAreLive == Spec => []NoUseAfterFree
<1>1. Inv => NoUseAfterFree
  <2> SUFFICES ASSUME Inv PROVE NoUseAfterFree
    OBVIOUS
  <2>1. \A m \in Message : Pending(m) => m \in allocated
    BY DEF Inv, Ownership, Waits, Holds
  <2>2. Elements(chan) \subseteq Message
    BY DEF Inv, MessageTypeOK, Elements
  <2> QED
    BY <2>1, <2>2 DEF NoUseAfterFree, Pending, Working, Inv, MessageTypeOK
<1> QED
  BY <1>1, Invariance, PTL

(* A message whose op_completed holds an answer is neither queued nor with *)
(* the server: it is never answered twice (server.c:97-122).               *)
THEOREM OneAnswer == Spec => []AnsweredOnce
<1>1. Inv => AnsweredOnce
  BY DEF Inv, Ownership, AnsweredOnce, Pending, Working
<1> QED
  BY <1>1, Invariance, PTL

(* A client that passed sys_sem_wait finds the answer written, in memory   *)
(* that it has not freed yet (clients.c:89-93, server.c:100-122).          *)
THEOREM AnswerIsThere == Spec => []AnswerBeforeRead
<1>1. Inv => AnswerBeforeRead
  BY NoneIsNoClient DEF Inv, Ownership, Answered, AnswerBeforeRead, Holds
<1> QED
  BY <1>1, Invariance, PTL

(* Everything a message goes through, together: it is live while it is on  *)
(* its way, answered once, and read after the answer (clients.c:78-101,    *)
(* server.c:91-123).                                                       *)
THEOREM MessagesAreSafe == Spec => []MessagesSafe
BY MessagesAreLive, OneAnswer, AnswerIsThere, PTL DEF MessagesSafe

-----------------------------------------------------------------------------
\* Creator a has passed the test of create_client, and not yet read the count.
Active(a) == creating[a] \in {"create", "slot", "load", "store"}

\* The creators that have passed the test have room in the table, together.
RoomInTable ==
    /\ n_clients \in 0 .. MAX_CLIENTS
    /\ \A a \in Creator : Active(a) => n_clients + 1 <= MAX_CLIENTS
    /\ Active("main") /\ Active("handler") => n_clients + 2 <= MAX_CLIENTS

\* A count that was loaded either leaves room for the other creator, or was the
\* last there is, and nobody passes the test until it is stored.
CountLoaded(a, b) ==
    creating[a] = "store" =>
        \/ reg[a] + 2 <= MAX_CLIENTS
        \/ /\ reg[a] + 1 <= MAX_CLIENTS /\ ~Active(b)
           /\ n_clients >= MAX_CLIENTS - 1 \/ main # "commands"

\* The state of the creators; that reg stays in range is part of the argument.
RaceTypeOK ==
    /\ creating \in [Creator -> {"out", "check", "create", "slot", "load", "store"}]
    /\ reg \in [Creator -> 0 .. MAX_CLIENTS]

\* The table and its creators; the handler may run at any time, main creates only
\* between commands.
RaceInv ==
    /\ RaceTypeOK
    /\ RoomInTable
    /\ CountLoaded("main", "handler") /\ CountLoaded("handler", "main")
    /\ creating["main"] # "out" => main = "commands"

\* Nobody is in create_client at the start.
LEMMA RaceInit == Init => RaceInv
BY Practica3Assumption DEF Init, RaceInv, RaceTypeOK, RoomInTable, CountLoaded, Active, Creator

\* A step of create_client, whoever takes it
LEMMA RaceCreate ==
  ASSUME RaceInv, NEW a \in Creator, Call(a) \/ CreateStep(a)
  PROVE  RaceInv'
<1> PICK b \in Creator : b # a /\ Creator = {a, b}
  BY DEF Creator
<1>0. /\ MAX_CLIENTS \in Nat \ {0} /\ n_clients \in 0 .. MAX_CLIENTS
      /\ reg[a] \in 0 .. MAX_CLIENTS /\ reg[b] \in 0 .. MAX_CLIENTS
      /\ CountLoaded(a, b) /\ CountLoaded(b, a)
      /\ Active(a) => n_clients + 1 <= MAX_CLIENTS
      /\ Active(b) => n_clients + 1 <= MAX_CLIENTS
      /\ Active(a) /\ Active(b) => n_clients + 2 <= MAX_CLIENTS
  BY Practica3Assumption DEF RaceInv, RaceTypeOK, RoomInTable, Creator
<1>1. ASSUME NEW from, NEW to \in {"out", "check", "create", "slot", "load", "store"},
             Create(a, from, to), from # "out" \/ a = "handler" \/ main = "commands",
             reg' \in [Creator -> 0 .. MAX_CLIENTS], main' = main,
             n_clients' \in 0 .. MAX_CLIENTS,
             Active(a)' => n_clients' + 1 <= MAX_CLIENTS,
             Active(b) => n_clients' + 1 <= MAX_CLIENTS,
             Active(a)' /\ Active(b) => n_clients' + 2 <= MAX_CLIENTS,
             CountLoaded(a, b)', CountLoaded(b, a)'
      PROVE  RaceInv'
  <2>1. /\ creating[a] = from /\ creating' = [creating EXCEPT ![a] = to]
    BY <1>1 DEF Create
  <2>2. /\ creating' \in [Creator -> {"out", "check", "create", "slot", "load", "store"}]
        /\ creating'[a] = to /\ creating'[b] = creating[b] /\ creating[a] = from
    BY <2>1 DEF RaceInv, RaceTypeOK
  <2>3. RoomInTable'
    BY <1>1, <2>2 DEF RoomInTable, Active, Creator
  <2>4. creating'["main"] # "out" => main' = "commands"
    BY <1>1, <2>2 DEF RaceInv, Creator
  <2>5. CountLoaded("main", "handler")' /\ CountLoaded("handler", "main")'
    BY <1>1 DEF CountLoaded, Active, Creator
  <2> QED BY <1>1, <2>2, <2>3, <2>4, <2>5 DEF RaceInv, RaceTypeOK
<1>2. ASSUME NEW from, NEW to, Create(a, from, to)
      PROVE  creating[a] = from /\ creating'[a] = to /\ creating'[b] = creating[b]
  BY <1>2 DEF Create, RaceInv, RaceTypeOK
<1>3. CASE Call(a)
  <2>1. Create(a, "out", "check") /\ UNCHANGED <<main, reg, n_clients>>
        /\ (a = "handler" \/ main = "commands")
    BY <1>3 DEF Call
  <2> QED BY <1>0, <1>1, <1>2, <2>1 DEF RaceInv, RaceTypeOK, CountLoaded, Active
<1>4. CASE Check(a)
  <2>1. Create(a, "check", "create") /\ UNCHANGED <<main, reg, n_clients>>
        /\ n_clients < MAX_CLIENTS - 1
    BY <1>4 DEF Check
  <2>2. creating[a] = "check" /\ creating'[a] = "create" /\ creating'[b] = creating[b]
    BY <1>2, <2>1
  <2>3. a = "main" => main = "commands"
    BY <2>2 DEF RaceInv
  <2>4. CountLoaded(b, a)'
    <3> SUFFICES ASSUME creating[b] = "store"
                 PROVE  reg[b] + 2 <= MAX_CLIENTS
      BY <2>1, <2>2 DEF CountLoaded
    <3>1. main = "commands"
      <4>1. b = "main" \/ a = "main"
        BY DEF Creator
      <4> QED BY <2>3, <4>1 DEF RaceInv
    <3> QED BY <1>0, <2>1, <3>1 DEF CountLoaded
  <2>5. CountLoaded(a, b)'
    BY <2>2 DEF CountLoaded
  <2>6. n_clients + 2 <= MAX_CLIENTS
    BY <1>0, <2>1
  <2> QED BY <1>0, <1>1, <2>1, <2>4, <2>5, <2>6 DEF RaceInv, RaceTypeOK
<1>5. CASE Fail(a)
  <2>1. PICK from \in {"check", "create"} : Create(a, from, "out")
    BY <1>5 DEF Fail
  <2>2. UNCHANGED <<main, reg, n_clients>>
    BY <1>5 DEF Fail
  <2>3. CountLoaded(a, b)' /\ CountLoaded(b, a)'
    BY <1>0, <1>2, <2>1, <2>2 DEF CountLoaded, Active
  <2> QED BY <1>0, <1>1, <1>2, <2>1, <2>2, <2>3 DEF RaceInv, RaceTypeOK, Active
<1>6. CASE pthread_create(a) \/ SetSlot(a)
  <2>1. PICK from \in {"create", "slot"}, to \in {"slot", "load"} : Create(a, from, to)
    BY <1>6 DEF pthread_create, SetSlot
  <2>2. UNCHANGED <<main, reg, n_clients>>
    BY <1>6 DEF pthread_create, SetSlot
  <2>3. CountLoaded(a, b)' /\ CountLoaded(b, a)'
    BY <1>0, <1>2, <2>1, <2>2 DEF CountLoaded, Active
  <2>4. Active(a)
    BY <1>2, <2>1 DEF Active
  <2> QED BY <1>0, <1>1, <2>1, <2>2, <2>3, <2>4 DEF RaceInv, RaceTypeOK
<1>7. CASE LoadCount(a)
  <2>1. Create(a, "load", "store") /\ reg' = [reg EXCEPT ![a] = n_clients]
        /\ UNCHANGED <<main, n_clients>>
    BY <1>7 DEF LoadCount
  <2>2. /\ reg' \in [Creator -> 0 .. MAX_CLIENTS]
        /\ reg'[a] = n_clients /\ reg'[b] = reg[b]
    BY <1>0, <2>1 DEF RaceInv, RaceTypeOK
  <2>3. creating[a] = "load" /\ creating'[a] = "store" /\ creating'[b] = creating[b]
        /\ Active(a) /\ (Active(b)' <=> Active(b))
    BY <1>2, <2>1 DEF Active
  <2>4. CountLoaded(a, b)'
    BY <1>0, <2>1, <2>2, <2>3 DEF CountLoaded
  <2>5. CountLoaded(b, a)'
    BY <1>0, <2>1, <2>2, <2>3 DEF CountLoaded
  <2> QED BY <1>0, <1>1, <2>1, <2>2, <2>3, <2>4, <2>5
<1>8. CASE StoreCount(a)
  <2>1. Create(a, "store", "out") /\ n_clients' = reg[a] + 1
        /\ UNCHANGED <<main, reg>>
    BY <1>8 DEF StoreCount
  <2>2. creating[a] = "store" /\ creating'[a] = "out" /\ creating'[b] = creating[b]
        /\ Active(a) /\ ~Active(a)' /\ (Active(b)' <=> Active(b))
    BY <1>2, <2>1 DEF Active
  <2>3. n_clients' \in 0 .. MAX_CLIENTS /\ (Active(b) => n_clients' + 1 <= MAX_CLIENTS)
    BY <1>0, <2>1, <2>2 DEF CountLoaded
  <2>4. CountLoaded(a, b)' /\ CountLoaded(b, a)'
    BY <1>0, <2>1, <2>2 DEF CountLoaded
  <2> QED BY <1>0, <1>1, <2>1, <2>2, <2>3, <2>4 DEF RaceInv, RaceTypeOK
<1> QED
  BY <1>3, <1>4, <1>5, <1>6, <1>7, <1>8 DEF CreateStep

\* Outside create_client only the end of wait_for_clients writes n_clients.
LEMMA RaceMain ==
  ASSUME RaceInv, NEW from, NEW to, MainStep(from, to), to # "commands",
         n_clients' = n_clients \/ n_clients' = 0
  PROVE  RaceInv'
<1>1. /\ creating' = creating /\ reg' = reg /\ creating["main"] = "out" /\ main' # "commands"
  BY DEF MainStep
<1>2. MAX_CLIENTS \in Nat \ {0}
  BY Practica3Assumption
<1> QED
  BY <1>1, <1>2 DEF RaceInv, RaceTypeOK, RoomInTable, CountLoaded, Active, Creator

\* The other steps leave the table alone.
LEMMA RaceOther ==
  ASSUME RaceInv, UNCHANGED <<creating, reg, n_clients, main>>
  PROVE  RaceInv'
BY DEF RaceInv, RaceTypeOK, RoomInTable, CountLoaded, Active, Creator

\* Every step keeps the table in range.
LEMMA RaceNext == RaceInv /\ [Next]_vars => RaceInv'
<1> SUFFICES ASSUME RaceInv, [Next]_vars PROVE RaceInv'
  OBVIOUS
<1>1. ASSUME NEW c \in Client, ClientRun(c) PROVE RaceInv'
  BY <1>1, RaceOther DEF ClientRun, ClientLoop, ClientPost, ClientWait, ClientProcess,
     ClientStep, mainVars, tableVars
<1>2. CASE ServerStart \/ ServerRun
  BY <1>2, RaceOther DEF ServerStart, ServerRun, ServerLoop, ServerFetch, ServerExecute,
     ServerSignal, ServerStep, mainVars, tableVars
<1>3. CASE Quit \/ MainRun \/ FinishHandler
  BY <1>3, RaceMain DEF Quit, MainRun, Wait, JoinClient, JoinZero, ClearList, Shutdown,
     MainNew, MainPost, MainWait, MainFree, JoinServer, FinishHandler, MboxFree, Return
<1>4. CASE UNCHANGED vars
  BY <1>4, RaceOther DEF vars, mainVars, tableVars
<1> QED BY <1>1, <1>2, <1>3, <1>4, RaceCreate DEF Next

\* The table in every state
LEMMA RaceInvariance == Spec => []RaceInv
BY RaceInit, RaceNext, PTL DEF Spec

\* Whoever is about to write into the table writes within it.
InTable == \A a \in Creator : creating[a] = "slot" => n_clients \in Slot

(* However main and the handler of USR1 race in create_client, without a   *)
(* lock, none of them writes past the end of the table: the limit of       *)
(* clients leaves the one entry that two racing creators can take more     *)
(* than it (clients.c:115-135).                                            *)
THEOREM NobodyLeavesTheTable == Spec => []InTable
<1>1. RaceInv => InTable
  BY Practica3Assumption DEF RaceInv, RoomInTable, Active, InTable, Slot
<1> QED BY <1>1, RaceInvariance, PTL

\* What is left of TypeOK
MainTypeOK ==
    /\ proc \in {"running", "exited", "crashed"}
    /\ main \in {"commands", "join", "shutdown", "new", "post", "wait", "free",
                 "join_server", "finish", "mbox_free", "return"}
    /\ n_cl \in 0 .. MAX_CLIENTS /\ i \in 0 .. MAX_CLIENTS + 1
    /\ handler \in {"on", "finished"} /\ mbox \in {"live", "freed"}
    /\ serv_up \in BOOLEAN
    /\ server \in {"start", "loop", "fetch", "execute", "signal", "down"}

\* What the creators read and write
CreateTypeOK ==
    /\ commands \in 0 .. MaxCommands /\ signals \in 0 .. MaxSignals
    /\ tmp \in [Creator -> Client \cup {Zero}]
    /\ clients \in [Slot -> Client \cup {Zero}]
    /\ left \in [Client -> 0 .. MaxMessages]

\* The messages and the mailbox
BoxTypeOK ==
    /\ allocated \subseteq Message /\ answer \subseteq Message
    /\ Len(chan) <= Capacity

\* With RaceTypeOK and MessageTypeOK this is TypeOK.
TypeInv == MainTypeOK /\ CreateTypeOK /\ BoxTypeOK

\* The types at the start
LEMMA TypeInit == Init => TypeInv
<1> SUFFICES ASSUME Init PROVE TypeInv
  OBVIOUS
<1>1. MainTypeOK
  <2>1. 0 \in 0 .. MAX_CLIENTS /\ 0 \in 0 .. MAX_CLIENTS + 1
    BY Practica3Assumption
  <2> QED BY <2>1 DEF Init, MainTypeOK
<1>2. commands \in 0 .. MaxCommands /\ signals \in 0 .. MaxSignals
  BY Practica3Assumption DEF Init
<1>3. left \in [Client -> 0 .. MaxMessages]
  <2>1. 0 \in 0 .. MaxMessages
    BY Practica3Assumption
  <2> QED BY <2>1 DEF Init
<1>4. CreateTypeOK
  BY <1>2, <1>3 DEF Init, CreateTypeOK
<1>5. BoxTypeOK
  BY Practica3Assumption DEF Init, BoxTypeOK
<1> QED BY <1>1, <1>4, <1>5 DEF TypeInv

\* i stops one past the count: n_cl is in range, and a larger i ends the loop.
LEMMA MainTypeNext == RaceInv /\ MainTypeOK /\ [Next]_vars => MainTypeOK'
<1> SUFFICES ASSUME RaceInv, MainTypeOK, [Next]_vars PROVE MainTypeOK'
  OBVIOUS
<1>1. ASSUME NEW a \in Creator, Call(a) \/ CreateStep(a) PROVE MainTypeOK'
  BY <1>1 DEF CreateStep, Call, Check, Fail, pthread_create, SetSlot, LoadCount, StoreCount,
     Create, serverVars, MainTypeOK
<1>2. ASSUME NEW c \in Client, ClientRun(c) PROVE MainTypeOK'
  BY <1>2 DEF ClientRun, ClientLoop, ClientPost, ClientWait, ClientProcess,
     ClientStep, mainVars, signalVars, serverVars, MainTypeOK
<1>3. CASE ServerStart \/ ServerRun
  BY <1>3 DEF ServerStart, ServerRun, ServerLoop, ServerFetch, ServerExecute,
     ServerSignal, ServerStep, mainVars, signalVars, MainTypeOK
<1>4. CASE Quit
  BY <1>4, Practica3Assumption DEF Quit, MainStep, MainTypeOK, RaceInv, RoomInTable
<1>5. CASE JoinClient
  <2>1. i + 1 \in 0 .. MAX_CLIENTS + 1
    BY <1>5, Practica3Assumption DEF JoinClient, MainTypeOK
  <2> QED BY <1>5, <2>1 DEF JoinClient, MainStep, MainTypeOK
<1>6. CASE JoinZero \/ ClearList \/ Shutdown \/ MainNew \/ MainPost \/ MainWait \/ MainFree
           \/ JoinServer \/ FinishHandler \/ MboxFree \/ Return
  BY <1>6 DEF JoinZero, ClearList, Shutdown, MainNew, MainPost, MainWait, MainFree,
     JoinServer, FinishHandler, MboxFree, Return, MainStep, MainTypeOK
<1>7. CASE UNCHANGED vars
  BY <1>7 DEF vars, mainVars, signalVars, serverVars, MainTypeOK
<1> QED BY <1>1, <1>2, <1>3, <1>4, <1>5, <1>6, <1>7 DEF Next, MainRun, Wait

\* Every step keeps the types of the creators' variables.
LEMMA CreateTypeNext == RaceInv /\ CreateTypeOK /\ [Next]_vars => CreateTypeOK'
<1> SUFFICES ASSUME RaceInv, CreateTypeOK, [Next]_vars PROVE CreateTypeOK'
  OBVIOUS
<1>1. ASSUME NEW a \in Creator, Call(a) PROVE CreateTypeOK'
  <2>1. commands' \in 0 .. MaxCommands /\ signals' \in 0 .. MaxSignals
    BY <1>1, Practica3Assumption DEF Call, CreateTypeOK
  <2> QED BY <1>1, <2>1 DEF Call, clientVars, CreateTypeOK
<1>2. ASSUME NEW a \in Creator, pthread_create(a) PROVE CreateTypeOK'
  <2>1. PICK c \in Client, n \in 1 .. MaxMessages :
           /\ tmp' = [tmp EXCEPT ![a] = c] /\ left' = [left EXCEPT ![c] = n]
           /\ UNCHANGED <<commands, signals, clients>>
    BY <1>2 DEF pthread_create
  <2>2. n \in 0 .. MaxMessages
    BY Practica3Assumption
  <2> QED BY <2>1, <2>2 DEF CreateTypeOK
<1>3. ASSUME NEW a \in Creator, Check(a) \/ Fail(a) \/ LoadCount(a) \/ StoreCount(a)
      PROVE  CreateTypeOK'
  BY <1>3 DEF Check, Fail, LoadCount, StoreCount, clientVars, CreateTypeOK
<1>4. ASSUME NEW a \in Creator, SetSlot(a) PROVE CreateTypeOK'
  <2>1. clients' = [clients EXCEPT ![n_clients] = tmp[a]] /\ tmp[a] \in Client \cup {Zero}
    BY <1>4 DEF SetSlot, CreateTypeOK
  <2> QED BY <1>4, <2>1 DEF SetSlot, clientVars, CreateTypeOK
<1>5. ASSUME NEW c \in Client, ClientRun(c) PROVE CreateTypeOK'
  <2>1. UNCHANGED <<commands, signals, tmp, clients>>
    BY <1>5 DEF ClientRun, ClientLoop, ClientPost, ClientWait, ClientProcess, ClientStep,
       mainVars, tableVars, signalVars
  <2>2. left' \in [Client -> 0 .. MaxMessages]
    <3>1. CASE left[c] > 0 /\ left' = [left EXCEPT ![c] = @ - 1]
      <4>1. left[c] - 1 \in 0 .. MaxMessages
        BY <3>1, Practica3Assumption DEF CreateTypeOK
      <4> QED BY <3>1, <4>1 DEF CreateTypeOK
    <3>2. CASE left' = left
      BY <3>2 DEF CreateTypeOK
    <3> QED
      BY <1>5, <3>1, <3>2 DEF ClientRun, ClientLoop, ClientPost, ClientWait, ClientProcess
  <2> QED BY <2>1, <2>2 DEF CreateTypeOK
<1>6. CASE ServerStart \/ ServerRun
  BY <1>6 DEF ServerStart, ServerRun, ServerLoop, ServerFetch, ServerExecute,
     ServerSignal, ServerStep, mainVars, tableVars, signalVars, clientVars, CreateTypeOK
<1>7. CASE Quit \/ MainRun \/ FinishHandler
  BY <1>7 DEF Quit, MainRun, Wait, JoinClient, JoinZero, ClearList, Shutdown,
     MainNew, MainPost, MainWait, MainFree, JoinServer, FinishHandler, MboxFree, Return,
     MainStep, clientVars, CreateTypeOK
<1>8. CASE UNCHANGED vars
  BY <1>8 DEF vars, mainVars, tableVars, signalVars, clientVars, CreateTypeOK
<1> QED BY <1>1, <1>2, <1>3, <1>4, <1>5, <1>6, <1>7, <1>8 DEF Next, CreateStep

\* Nobody posts into a full mailbox.
LEMMA BoxTypeNext == Inv /\ BoxTypeOK /\ [Next]_vars => BoxTypeOK'
<1> SUFFICES ASSUME Inv, BoxTypeOK, [Next]_vars PROVE BoxTypeOK'
  OBVIOUS
<1>0. chan \in Seq(Message) /\ Len(chan) \in Nat /\ msg \in Message /\ Capacity \in Nat
      /\ NONE \in Message /\ Client \subseteq Message
  BY NoneIsNoClient, Practica3Assumption DEF Inv, MessageTypeOK
<1>1. ASSUME NEW a \in Creator, Call(a) \/ CreateStep(a) PROVE BoxTypeOK'
  BY <1>1 DEF CreateStep, Call, Check, Fail, pthread_create, SetSlot, LoadCount, StoreCount,
     Create, messageVars, BoxTypeOK
<1>2. ASSUME NEW m \in Message, mbox_post(m) PROVE Len(chan') <= Capacity
  BY <1>0, <1>2 DEF mbox_post
<1>3. ASSUME NEW c \in Client, ClientRun(c) PROVE BoxTypeOK'
  <2>1. CASE ClientLoop(c)
    BY <1>0, <2>1 DEF ClientLoop, NewMessage, messageVars, BoxTypeOK
  <2>2. CASE ClientPost(c)
    BY <1>0, <1>2, <2>2 DEF ClientPost, messageVars, BoxTypeOK
  <2>3. CASE ClientWait(c)
    BY <2>3 DEF ClientWait, BoxTypeOK
  <2>4. CASE ClientProcess(c)
    BY <2>4 DEF ClientProcess, FreeMessage, BoxTypeOK
  <2> QED BY <1>3, <2>1, <2>2, <2>3, <2>4 DEF ClientRun
<1>4. CASE ServerFetch
  <2>1. Len(Tail(chan)) <= Len(chan)
    BY <1>0, <1>4 DEF ServerFetch
  <2>2. Len(chan') <= Capacity
    BY <1>0, <1>4, <2>1 DEF ServerFetch, BoxTypeOK
  <2> QED BY <1>4, <2>2 DEF ServerFetch, ServerStep, BoxTypeOK
<1>5. CASE ServerStart \/ ServerLoop \/ ServerExecute \/ ServerSignal
  BY <1>0, <1>5 DEF ServerStart, ServerLoop, ServerExecute, ServerSignal, ServerStep, BoxTypeOK
<1>6. CASE MainPost
  BY <1>0, <1>2, <1>6 DEF MainPost, messageVars, BoxTypeOK
<1>7. CASE MainNew \/ MainWait \/ MainFree
  BY <1>0, <1>7 DEF MainNew, MainWait, MainFree, NewMessage, FreeMessage, messageVars, BoxTypeOK
<1>8. CASE Quit \/ Wait \/ Shutdown \/ JoinServer \/ FinishHandler \/ MboxFree \/ Return
  BY <1>8 DEF Quit, Wait, JoinClient, JoinZero, ClearList, Shutdown, JoinServer,
     FinishHandler, MboxFree, Return, messageVars, BoxTypeOK
<1>9. CASE UNCHANGED vars
  BY <1>9 DEF vars, messageVars, BoxTypeOK
<1> QED BY <1>1, <1>3, <1>4, <1>5, <1>6, <1>7, <1>8, <1>9 DEF Next, ServerRun, MainRun

\* The types, and the two invariants they rest on, in every state
LEMMA TypeInvariance == Spec => [](Inv /\ RaceInv /\ TypeInv)
<1>1. RaceInv /\ Inv /\ TypeInv /\ [Next]_vars => TypeInv'
  BY MainTypeNext, CreateTypeNext, BoxTypeNext DEF TypeInv
<1> QED BY <1>1, TypeInit, Invariance, RaceInvariance, PTL DEF Spec

\* The parts are the whole.
LEMMA TypesAre == Inv /\ RaceInv /\ TypeInv => TypeOK
BY DEF Inv, MessageTypeOK, RaceInv, RaceTypeOK, RoomInTable, TypeInv, MainTypeOK,
   CreateTypeOK, BoxTypeOK, TypeOK

(* Every counter stays in its range, whatever main and the handler of USR1 *)
(* do to the table at the same time (clients.c:105-145, main.c:19-28): in  *)
(* particular n_clients, which a race takes past the limit of create_client *)
(* but not past the size of the table.                                     *)
THEOREM TypeCorrect == Spec => []TypeOK
BY TypeInvariance, TypesAre, PTL

\* Nobody sends SIGUSR1: main is the only one to create clients.
NoSignals == MaxSignals = 0

\* Between pthread_create and the store of the count
Halfway == creating["main"] \in {"slot", "load", "store"}

\* How many clients there have been
Created == IF Halfway THEN n_clients + 1 ELSE n_clients

\* Nobody but main creates clients.
OneCreator ==
    /\ signals = 0 /\ creating["handler"] = "out"
    /\ n_clients \in 0 .. MAX_CLIENTS - 1
    /\ Active("main") => n_clients + 2 <= MAX_CLIENTS
    /\ creating["main"] = "store" => reg["main"] = n_clients
    /\ Halfway => tmp["main"] = n_clients + 1

\* Client k is the k-th that was created, and in the k-th entry of the table.
InOrder ==
    /\ Created \in 0 .. MaxCommands + MaxSignals
    /\ \A c \in Client : client[c] # "unborn" <=> c <= Created
    /\ \A s \in Slot : clients[s] =
          IF s < n_clients \/ (s = n_clients /\ creating["main"] \in {"load", "store"})
          THEN s + 1 ELSE Zero

\* wait_for_clients waits for all of them before it meets the extra entry.
Joining ==
    /\ main = "join" => /\ n_cl = n_clients /\ i <= n_cl
                        /\ \A c \in Client : c <= i => client[c] = "gone"
    /\ main \notin {"commands", "join"} => AllClientsGone

\* The server is down before anything it needs is taken away.
TakenDown ==
    /\ main \in {"finish", "mbox_free", "return"} => server = "down"
    /\ mbox = "freed" => main = "return"

\* What holds in addition when there are no signals
QuietInv == OneCreator /\ InOrder /\ Joining /\ TakenDown

\* No clients yet
LEMMA QuietInit == NoSignals /\ Init => QuietInv
<1> SUFFICES ASSUME NoSignals, Init PROVE QuietInv
  OBVIOUS
<1>0. MAX_CLIENTS \in Nat \ {0} /\ MaxCommands + MaxSignals \in Nat
  BY Practica3Assumption
<1>1. creating["main"] = "out" /\ creating["handler"] = "out" /\ n_clients = 0 /\ signals = 0
      /\ ~Halfway /\ ~Active("main") /\ Created = 0 /\ main = "commands"
  BY DEF Init, Creator, Halfway, Active, Created
<1>2. OneCreator
  BY <1>0, <1>1 DEF OneCreator
<1>3. InOrder
  BY <1>0, <1>1 DEF Init, InOrder, Client, Slot
<1>4. Joining /\ TakenDown
  BY <1>1 DEF Init, Joining, TakenDown
<1> QED BY <1>2, <1>3, <1>4 DEF QuietInv

\* What a step of create_client leaves alone
LEMMA QuietFrame ==
  ASSUME QuietInv, RaceInv, NEW a \in Creator, Call(a) \/ CreateStep(a), NoSignals
  PROVE  /\ a = "main" /\ main = "commands" /\ main' = main
         /\ creating'["handler"] = "out" /\ signals' = 0
         /\ UNCHANGED <<mbox, server>>
<1>1. \/ Call(a) /\ creating[a] = "out"
      \/ creating[a] # "out" /\ ~Call(a)
  BY DEF CreateStep, Call, Check, Fail, pthread_create, SetSlot, LoadCount, StoreCount, Create
<1>2. a = "main"
  <2>1. CASE a = "handler"
    <3>1. Call(a) /\ signals < 0
      BY <1>1, <2>1 DEF QuietInv, OneCreator, Call, NoSignals
    <3> QED BY <3>1 DEF QuietInv, OneCreator
  <2> QED BY <2>1 DEF Creator
<1>3. main = "commands"
  BY <1>1, <1>2 DEF Call, RaceInv
<1>4. main' = main /\ signals' = signals
  BY <1>2 DEF CreateStep, Call, Check, Fail, pthread_create, SetSlot, LoadCount, StoreCount
<1>5. UNCHANGED <<mbox, server>> /\ creating'["handler"] = creating["handler"]
  BY <1>2 DEF CreateStep, Call, Check, Fail, pthread_create, SetSlot, LoadCount, StoreCount,
     Create, serverVars, RaceInv, RaceTypeOK, Creator
<1> QED BY <1>2, <1>3, <1>4, <1>5 DEF QuietInv, OneCreator

\* A step of create_client, which main takes
LEMMA QuietCreate ==
  ASSUME QuietInv, RaceInv, TypeInv, Inv, NEW a \in Creator, Call(a) \/ CreateStep(a), NoSignals
  PROVE  QuietInv'
<1>0. /\ a = "main" /\ main = "commands" /\ main' = main
      /\ creating'["handler"] = "out" /\ signals' = 0
      /\ UNCHANGED <<mbox, server>>
  BY QuietFrame
<1>1. Joining' /\ TakenDown'
  BY <1>0 DEF QuietInv, Joining, TakenDown
<1>2. /\ MAX_CLIENTS \in Nat \ {0} /\ n_clients \in 0 .. MAX_CLIENTS - 1
      /\ Created \in 0 .. MaxCommands + MaxSignals
      /\ MaxCommands + MaxSignals \in Nat
      /\ \A c \in Client : client[c] # "unborn" <=> c <= Created
      /\ \A s \in Slot : clients[s] =
            IF s < n_clients \/ (s = n_clients /\ creating["main"] \in {"load", "store"})
            THEN s + 1 ELSE Zero
      /\ Active("main") => n_clients + 2 <= MAX_CLIENTS
      /\ Halfway => tmp["main"] = n_clients + 1
      /\ creating["main"] = "store" => reg["main"] = n_clients
      /\ tmp \in [Creator -> Client \cup {Zero}] /\ "main" \in Creator
      /\ clients \in [Slot -> Client \cup {Zero}] /\ reg \in [Creator -> 0 .. MAX_CLIENTS]
  BY Practica3Assumption DEF QuietInv, OneCreator, InOrder, TypeInv, CreateTypeOK,
     RaceInv, RaceTypeOK, Creator
<1>3. ASSUME NEW from, NEW to, Create(a, from, to)
      PROVE  creating["main"] = from /\ creating'["main"] = to
  BY <1>0, <1>3 DEF Create, RaceInv, RaceTypeOK, Creator
<1>4. CASE Call(a) \/ Fail(a)
  <2>1. PICK from \in {"out", "check", "create"}, to \in {"out", "check"} : Create(a, from, to)
    BY <1>4 DEF Call, Fail
  <2>2. UNCHANGED <<tmp, reg, clients, n_clients, client>>
    BY <1>4 DEF Call, Fail, clientVars
  <2>3. ~Halfway /\ ~Halfway' /\ ~Active("main")' /\ Created' = Created
        /\ creating["main"] \notin {"load", "store"} /\ creating'["main"] \notin {"load", "store"}
    BY <1>3, <2>1, <2>2 DEF Halfway, Active, Created
  <2>4. OneCreator'
    BY <1>0, <1>2, <2>2, <2>3 DEF OneCreator
  <2>5. InOrder'
    BY <1>2, <2>2, <2>3 DEF InOrder
  <2> QED BY <1>1, <2>4, <2>5 DEF QuietInv
<1>5. CASE Check(a)
  <2>1. Create(a, "check", "create") /\ n_clients < MAX_CLIENTS - 1
        /\ UNCHANGED <<tmp, reg, clients, n_clients, client>>
    BY <1>5 DEF Check, clientVars
  <2>2. ~Halfway /\ ~Halfway' /\ Created' = Created
        /\ creating["main"] \notin {"load", "store"} /\ creating'["main"] \notin {"load", "store"}
    BY <1>3, <2>1 DEF Halfway, Created
  <2>3. OneCreator'
    BY <1>0, <1>2, <2>1, <2>2 DEF OneCreator
  <2>4. InOrder'
    BY <1>2, <2>1, <2>2 DEF InOrder
  <2> QED BY <1>1, <2>3, <2>4 DEF QuietInv
<1>6. CASE pthread_create(a)
  <2>1. PICK c \in Client :
           /\ client[c] = "unborn" /\ \A d \in 1 .. c - 1 : client[d] # "unborn"
           /\ Create(a, "create", "slot")
           /\ tmp' = [tmp EXCEPT ![a] = c]
           /\ client' = [client EXCEPT ![c] = "loop"]
           /\ UNCHANGED <<reg, clients, n_clients>>
    BY <1>6 DEF pthread_create
  <2>2. ~Halfway /\ Halfway' /\ Created = n_clients /\ Created' = n_clients + 1
        /\ creating["main"] = "create" /\ creating'["main"] = "slot"
    BY <1>3, <2>1 DEF Halfway, Created
  <2>3. c = n_clients + 1
    <3>1. c \in Nat /\ c >= 1 /\ ~(c <= n_clients) /\ c <= MaxCommands + MaxSignals
      BY <1>2, <2>1, <2>2 DEF Client
    <3>2. ASSUME c > n_clients + 1 PROVE FALSE
      <4>1. n_clients + 1 \in 1 .. c - 1 /\ n_clients + 1 \in Client
        BY <1>2, <3>1, <3>2 DEF Client
      <4>2. client[n_clients + 1] # "unborn"
        BY <2>1, <4>1
      <4> QED BY <1>2, <2>2, <4>1, <4>2
    <3> QED BY <1>2, <3>1, <3>2
  <2>4. tmp'["main"] = n_clients + 1
    BY <1>0, <1>2, <2>1, <2>3
  <2>5. Active("main")
    BY <2>2 DEF Active
  <2>6. OneCreator'
    BY <1>0, <1>2, <2>1, <2>2, <2>4, <2>5 DEF OneCreator
  <2>7. \A d \in Client : client'[d] # "unborn" <=> d <= n_clients + 1
    <3> TAKE d \in Client
    <3>1. client'[d] = IF d = c THEN "loop" ELSE client[d]
      BY <2>1 DEF Inv, MessageTypeOK
    <3>2. d \in Nat
      BY <1>2 DEF Client
    <3> QED BY <1>2, <2>2, <2>3, <3>1, <3>2
  <2>8. n_clients + 1 \in 0 .. MaxCommands + MaxSignals
    BY <1>2, <2>3 DEF Client
  <2>9. InOrder'
    BY <1>2, <2>1, <2>2, <2>7, <2>8 DEF InOrder
  <2> QED BY <1>1, <2>6, <2>9 DEF QuietInv
<1>7. CASE SetSlot(a)
  <2>1. Create(a, "slot", "load") /\ clients' = [clients EXCEPT ![n_clients] = tmp[a]]
        /\ UNCHANGED <<tmp, reg, n_clients, client>>
    BY <1>7 DEF SetSlot, clientVars
  <2>2. Halfway /\ Halfway' /\ Created' = Created /\ Active("main")
        /\ creating["main"] = "slot" /\ creating'["main"] = "load"
    BY <1>3, <2>1 DEF Halfway, Created, Active
  <2>3. OneCreator'
    BY <1>0, <1>2, <2>1, <2>2 DEF OneCreator
  <2>4. ASSUME NEW s \in Slot
        PROVE  clients'[s] = IF s < n_clients \/ s = n_clients THEN s + 1 ELSE Zero
    BY <1>0, <1>2, <2>1, <2>2, <2>4
  <2>5. InOrder'
    BY <1>2, <2>1, <2>2, <2>4 DEF InOrder
  <2> QED BY <1>1, <2>3, <2>5 DEF QuietInv
<1>8. CASE LoadCount(a)
  <2>1. Create(a, "load", "store") /\ reg' = [reg EXCEPT ![a] = n_clients]
        /\ UNCHANGED <<tmp, clients, n_clients, client>>
    BY <1>8 DEF LoadCount, clientVars
  <2>2. Halfway /\ Halfway' /\ Created' = Created /\ Active("main")
        /\ creating["main"] = "load" /\ creating'["main"] = "store"
    BY <1>3, <2>1 DEF Halfway, Created, Active
  <2>3. reg'["main"] = n_clients
    BY <1>0, <1>2, <2>1
  <2>4. OneCreator'
    BY <1>0, <1>2, <2>1, <2>2, <2>3 DEF OneCreator
  <2>5. InOrder'
    BY <1>2, <2>1, <2>2 DEF InOrder
  <2> QED BY <1>1, <2>4, <2>5 DEF QuietInv
<1>9. CASE StoreCount(a)
  <2>1. Create(a, "store", "out") /\ n_clients' = reg[a] + 1
        /\ UNCHANGED <<tmp, reg, clients, client>>
    BY <1>9 DEF StoreCount, clientVars
  <2>2. Halfway /\ ~Halfway' /\ Active("main") /\ ~Active("main")'
        /\ creating["main"] = "store" /\ creating'["main"] = "out"
    BY <1>3, <2>1 DEF Halfway, Active
  <2>3. n_clients' = n_clients + 1 /\ Created' = Created
    BY <1>0, <1>2, <2>1, <2>2 DEF Created
  <2>4. OneCreator'
    BY <1>0, <1>2, <2>1, <2>2, <2>3 DEF OneCreator
  <2>5. \A s \in Slot : clients'[s] = IF s < n_clients + 1 THEN s + 1 ELSE Zero
    BY <1>2, <2>1, <2>2 DEF Slot
  <2>6. InOrder'
    BY <1>2, <2>1, <2>2, <2>3, <2>5 DEF InOrder
  <2> QED BY <1>1, <2>4, <2>6 DEF QuietInv
<1> QED BY <1>4, <1>5, <1>6, <1>7, <1>8, <1>9 DEF CreateStep

\* A client that takes a step is neither unborn nor gone.
LEMMA QuietClient ==
  ASSUME QuietInv, Inv, NEW c \in Client, ClientRun(c)
  PROVE  QuietInv'
<1>1. PICK from \in {"loop", "post", "wait", "process"},
           to \in {"loop", "post", "wait", "process", "gone"} : ClientStep(c, from, to)
  BY DEF ClientRun, ClientLoop, ClientPost, ClientWait, ClientProcess
<1>2. /\ client[c] = from /\ client'[c] = to
      /\ \A d \in Client : d # c => client'[d] = client[d]
  BY <1>1, ClientFrame
<1>3. UNCHANGED <<main, commands, n_cl, i, creating, tmp, reg, clients, n_clients, signals,
                  mbox, server>>
  BY <1>1 DEF ClientStep, mainVars, tableVars, signalVars, serverVars
<1>4. OneCreator'
  BY <1>3 DEF QuietInv, OneCreator, Active, Halfway
<1>5. InOrder'
  <2>1. Created' = Created
    BY <1>3 DEF Created, Halfway
  <2>2. \A d \in Client : client'[d] # "unborn" <=> client[d] # "unborn"
    BY <1>1, <1>2
  <2> QED BY <1>3, <2>1, <2>2 DEF QuietInv, InOrder
<1>6. Joining'
  <2>1. \A d \in Client : client[d] = "gone" => client'[d] = "gone"
    BY <1>1, <1>2
  <2>2. main \in {"commands", "join"}
    BY <1>1, <1>2 DEF QuietInv, Joining, AllClientsGone, Joined
  <2> QED BY <1>3, <2>1, <2>2 DEF QuietInv, Joining
<1>7. TakenDown'
  BY <1>3 DEF QuietInv, TakenDown
<1> QED BY <1>4, <1>5, <1>6, <1>7 DEF QuietInv

\* A step of the server
LEMMA QuietServer ==
  ASSUME QuietInv, ServerStart \/ ServerRun
  PROVE  QuietInv'
<1>1. PICK from \in {"start", "loop", "fetch", "execute", "signal"},
           to \in {"loop", "fetch", "execute", "signal", "down"} : ServerStep(from, to)
  BY DEF ServerStart, ServerRun, ServerLoop, ServerFetch, ServerExecute, ServerSignal
<1>2. /\ UNCHANGED <<main, commands, n_cl, i, creating, tmp, reg, clients, n_clients, signals,
                     mbox, client>>
      /\ server # "down"
  BY <1>1 DEF ServerStep, mainVars, tableVars, signalVars, clientVars
<1>3. OneCreator' /\ InOrder' /\ Joining'
  BY <1>2 DEF QuietInv, OneCreator, InOrder, Joining, Active, Halfway, Created,
     AllClientsGone, Joined
<1>4. TakenDown'
  BY <1>2 DEF QuietInv, TakenDown
<1> QED BY <1>3, <1>4 DEF QuietInv

\* While main is in wait_for_clients the table is exact.
LEMMA JoinEntry ==
  ASSUME QuietInv, TypeInv, main = "join", creating["main"] = "out"
  PROVE  /\ Created = n_clients /\ n_clients \in Nat /\ i \in Nat /\ i <= n_cl /\ n_cl = n_clients
         /\ Entry = IF i < n_clients THEN i + 1 ELSE Zero
<1>1. /\ n_cl = n_clients /\ i <= n_cl /\ i \in Nat /\ n_clients \in 0 .. MAX_CLIENTS - 1
      /\ MAX_CLIENTS \in Nat \ {0}
  BY Practica3Assumption DEF QuietInv, Joining, OneCreator, TypeInv, MainTypeOK
<1>2. i \in Slot
  BY <1>1 DEF Slot
<1>3. clients[i] = IF i < n_clients THEN i + 1 ELSE Zero
  BY <1>2 DEF QuietInv, InOrder
<1> QED BY <1>1, <1>2, <1>3 DEF Entry, Created, Halfway

\* The shutdown, step by step; the loop of wait_for_clients always ends at the extra
\* entry, after it has waited for each client.
LEMMA QuietMain ==
  ASSUME QuietInv, TypeInv, Quit \/ MainRun \/ FinishHandler
  PROVE  QuietInv'
<1>1. creating["main"] = "out" /\ UNCHANGED <<signals, creating, tmp, reg, clients, client, server>>
  BY DEF Quit, MainRun, Wait, JoinClient, JoinZero, ClearList, Shutdown, MainNew, MainPost,
     MainWait, MainFree, JoinServer, FinishHandler, MboxFree, Return, MainStep, clientVars
<1>2. ASSUME UNCHANGED n_clients PROVE OneCreator' /\ InOrder'
  BY <1>1, <1>2 DEF QuietInv, OneCreator, InOrder, Active, Halfway, Created
<1>3. (\A c \in Client : Joined(c)) => AllClientsGone'
  <2>1. client' = client
    BY <1>1
  <2> QED BY <2>1 DEF AllClientsGone, Joined
<1>4. CASE Quit
  <2>1. /\ main = "commands" /\ main' = "join" /\ n_cl' = n_clients /\ i' = 0
        /\ UNCHANGED <<n_clients, mbox>>
    BY <1>4 DEF Quit, MainStep
  <2>2. Joining'
    <3>1. \A c \in Client : ~(c <= 0)
      BY DEF Client
    <3>2. n_clients \in Nat
      BY Practica3Assumption DEF QuietInv, OneCreator
    <3> QED BY <2>1, <3>1, <3>2 DEF Joining
  <2> QED BY <1>2, <2>1, <2>2 DEF QuietInv, TakenDown
<1>5. CASE JoinClient
  <2>1. /\ main = "join" /\ main' = "join" /\ i' = i + 1 /\ Entry \in Client
        /\ client[Entry] = "gone" /\ UNCHANGED <<n_cl, n_clients, mbox>>
    BY <1>5 DEF JoinClient, MainStep
  <2>2. /\ Created = n_clients /\ n_clients \in Nat /\ i \in Nat /\ i <= n_cl /\ n_cl = n_clients
        /\ Entry = IF i < n_clients THEN i + 1 ELSE Zero
    BY <1>1, <2>1, JoinEntry
  <2>3. i < n_clients /\ Entry = i + 1
    BY <2>1, <2>2 DEF Client, Zero
  <2>4. \A c \in Client : c <= i + 1 => client[c] = "gone"
    <3> TAKE c \in Client
    <3>1. c \in Nat /\ (c <= i + 1 => c <= i \/ c = i + 1)
      BY <2>2, Practica3Assumption DEF Client
    <3> QED BY <2>1, <2>3, <3>1 DEF QuietInv, Joining
  <2>5. Joining'
    BY <1>1, <2>1, <2>2, <2>3, <2>4 DEF Joining
  <2> QED BY <1>2, <2>1, <2>5 DEF QuietInv, TakenDown
<1>6. CASE JoinZero
  <2>1. /\ main = "join" /\ main' = "shutdown" /\ Entry = Zero /\ UNCHANGED <<n_clients, mbox>>
    BY <1>6 DEF JoinZero, MainStep
  <2>2. /\ Created = n_clients /\ n_clients \in Nat /\ i \in Nat /\ i <= n_cl /\ n_cl = n_clients
        /\ Entry = IF i < n_clients THEN i + 1 ELSE Zero
    BY <1>1, <2>1, JoinEntry
  <2>3. i = n_clients
    BY <2>1, <2>2 DEF Zero
  <2>4. \A c \in Client : Joined(c)
    <3>1. ASSUME NEW c \in Client PROVE Joined(c)
      <4>1. client[c] # "unborn" => c <= n_clients
        BY <2>2 DEF QuietInv, InOrder
      <4>2. c <= n_clients => client[c] = "gone"
        BY <2>1, <2>3 DEF QuietInv, Joining
      <4> QED BY <4>1, <4>2 DEF Joined
    <3> QED BY <3>1
  <2> QED BY <1>2, <1>3, <2>1, <2>4 DEF QuietInv, Joining, TakenDown
<1>7. CASE ClearList
  <2>1. main = "join" /\ i > n_cl
    BY <1>7 DEF ClearList, MainStep
  <2>2. i \in Nat /\ i <= n_cl /\ n_cl \in Nat
    BY <1>1, <2>1, JoinEntry
  <2> QED BY <2>1, <2>2
<1>8. CASE Shutdown \/ MainNew \/ MainPost \/ MainWait \/ MainFree \/ JoinServer
           \/ FinishHandler \/ MboxFree \/ Return
  <2>1. /\ main \notin {"commands", "join"} /\ main' \notin {"commands", "join"}
        /\ n_clients' = n_clients
    BY <1>8 DEF Shutdown, MainNew, MainPost, MainWait, MainFree, JoinServer, FinishHandler,
       MboxFree, Return, MainStep
  <2>2. Joining'
    <3>1. AllClientsGone'
      BY <1>3, <2>1 DEF QuietInv, Joining, AllClientsGone
    <3> QED BY <2>1, <3>1 DEF Joining
  <2>3. TakenDown'
    BY <1>1, <1>8 DEF QuietInv, TakenDown, Shutdown, MainNew, MainPost, MainWait, MainFree,
       JoinServer, FinishHandler, MboxFree, Return, MainStep
  <2> QED BY <1>2, <2>1, <2>2, <2>3 DEF QuietInv
<1> QED BY <1>4, <1>5, <1>6, <1>7, <1>8 DEF MainRun, Wait

\* Every step keeps the table in order.
LEMMA QuietNext ==
  NoSignals /\ Inv /\ RaceInv /\ TypeInv /\ QuietInv /\ [Next]_vars => QuietInv'
<1> SUFFICES ASSUME NoSignals, Inv, RaceInv, TypeInv, QuietInv, [Next]_vars PROVE QuietInv'
  OBVIOUS
<1>1. CASE UNCHANGED vars
  BY <1>1 DEF vars, mainVars, tableVars, signalVars, clientVars, serverVars, QuietInv,
     OneCreator, InOrder, Joining, TakenDown, Active, Halfway, Created, AllClientsGone, Joined
<1> QED BY <1>1, QuietCreate, QuietClient, QuietServer, QuietMain DEF Next

\* All four invariants in every state of a run without signals
LEMMA QuietInvariance ==
  ASSUME NoSignals PROVE Spec => [](Inv /\ RaceInv /\ TypeInv /\ QuietInv)
<1>1. Init => QuietInv
  BY QuietInit
<1>2. Inv /\ RaceInv /\ TypeInv /\ QuietInv /\ [Next]_vars => QuietInv'
  BY QuietNext
<1> QED BY <1>1, <1>2, TypeInvariance, PTL DEF Spec

(* Without signals the clients created are those of the table, one in each *)
(* of its first n_clients entries, between any two commands                *)
(* (clients.c:105-145).                                                    *)
THEOREM TableMatches == ASSUME NoSignals PROVE Spec => []TableIsExact
<1>1. QuietInv /\ TypeInv => TableIsExact
  <2> SUFFICES ASSUME QuietInv, TypeInv, creating = [a \in Creator |-> "out"],
                      NEW c \in Client
               PROVE  client[c] # "unborn" <=> \E s \in 0 .. n_clients - 1 : clients[s] = c
    BY DEF TableIsExact
  <2>1. creating["main"] = "out" /\ Created = n_clients
    BY DEF Creator, Created, Halfway
  <2>2. n_clients \in Nat /\ n_clients <= MAX_CLIENTS - 1 /\ MAX_CLIENTS \in Nat \ {0}
    BY Practica3Assumption DEF QuietInv, OneCreator
  <2>3. client[c] # "unborn" <=> c <= n_clients
    BY <2>1 DEF QuietInv, InOrder
  <2>4. \A s \in 0 .. n_clients - 1 : clients[s] = s + 1
    BY <2>2 DEF QuietInv, InOrder, Slot
  <2>5. c \in Nat /\ c >= 1
    BY Practica3Assumption DEF Client
  <2>6. c <= n_clients => c - 1 \in 0 .. n_clients - 1 /\ (c - 1) + 1 = c
    BY <2>2, <2>5
  <2>7. \A s \in 0 .. n_clients - 1 : s + 1 = c => c <= n_clients
    BY <2>2, <2>5
  <2> QED BY <2>3, <2>4, <2>6, <2>7
<1> QED BY <1>1, QuietInvariance, PTL

(* Without signals everything main takes down is out of use: past          *)
(* wait_for_clients every client is gone, although the extra join never    *)
(* lets it clear the table, and the mailbox is freed after the server      *)
(* (main.c:19-28, 228-243).                                                *)
THEOREM ShutdownIsClean == ASSUME NoSignals PROVE Spec => []CleanShutdown
<1>1. QuietInv => CleanShutdown
  <2> SUFFICES ASSUME QuietInv PROVE AllClientsGone /\ NoUseAfterMboxFree
    BY DEF CleanShutdown
  <2>1. AllClientsGone
    BY DEF QuietInv, Joining, AllClientsGone
  <2>2. NoUseAfterMboxFree
    BY DEF QuietInv, OneCreator, Joining, TakenDown, AllClientsGone, NoUseAfterMboxFree, Joined
  <2> QED BY <2>1, <2>2
<1> QED BY <1>1, QuietInvariance, PTL

\* The messages in the mailbox and that of a poster are of different clients.
LEMMA MailboxHasRoom ==
  ASSUME Inv, NEW K \in Nat, NEW c \in 1 .. K, ~Pending(c), Elements(chan) \subseteq 1 .. K
  PROVE  Len(chan) < K
<1>1. /\ chan \in Seq(Message) /\ Len(chan) \in Nat /\ DOMAIN chan = 1 .. Len(chan)
      /\ Distinct(chan)
  BY DEF Inv, MessageTypeOK, Once
<1>2. chan \in Injection(1 .. Len(chan), (1 .. K) \ {c})
  <2>1. \A k \in 1 .. Len(chan) : chan[k] \in Elements(chan)
    BY <1>1 DEF Elements
  <2>2. c \notin Elements(chan)
    BY DEF Pending
  <2>3. chan \in [1 .. Len(chan) -> (1 .. K) \ {c}]
    BY <1>1, <2>1, <2>2
  <2> QED BY <1>1, <2>3 DEF Injection, IsInjective, Distinct
<1>3. /\ IsFiniteSet(1 .. Len(chan)) /\ Cardinality(1 .. Len(chan)) = Len(chan)
      /\ IsFiniteSet(1 .. K) /\ Cardinality(1 .. K) = K
  <2>1. ASSUME NEW n \in Nat PROVE IsFiniteSet(1 .. n) /\ Cardinality(1 .. n) = n
    <3>1. /\ IsFiniteSet(1 .. n)
          /\ Cardinality(1 .. n) = IF 1 > n THEN 0 ELSE n - 1 + 1
      BY FS_Interval
    <3> QED BY <3>1
  <2> QED BY <1>1, <2>1
<1>4. IsFiniteSet((1 .. K) \ {c}) /\ Cardinality((1 .. K) \ {c}) = K - 1
  BY <1>3, FS_RemoveElement
<1>5. Len(chan) <= K - 1
  BY <1>2, <1>3, <1>4, FS_Injection
<1> QED BY <1>1, <1>5

(* If there is a slot of the mailbox for each client that the table can    *)
(* hold, which is so for the defaults (19 clients and 128 slots), and      *)
(* there are no signals, nobody who posts finds the mailbox full, and no   *)
(* counter leaves its range (clients.h:7, clients.c:115, mailbox.h:4).     *)
THEOREM NothingOutgrows ==
  ASSUME NoSignals, Capacity >= MAX_CLIENTS - 1
  PROVE  Spec => []Bounded
<1>1. Inv /\ QuietInv => RoomForAll
  <2> SUFFICES ASSUME Inv, QuietInv, main = "post" \/ \E c \in Client : client[c] = "post"
               PROVE  Len(chan) < Capacity
    BY DEF RoomForAll
  <2>0. /\ Capacity \in Nat \ {0} /\ MAX_CLIENTS \in Nat \ {0}
        /\ chan \in Seq(Message) /\ Len(chan) \in Nat
    BY Practica3Assumption DEF Inv, MessageTypeOK
  <2>1. \A m \in Message : Pending(m) => Waits(m)
    BY DEF Inv, Ownership
  <2>2. Elements(chan) \subseteq Message
    BY <2>0 DEF Elements
  <2>3. CASE main = "post"
    <3>1. \A c \in Client : client[c] # "wait"
      BY <2>3 DEF QuietInv, Joining, AllClientsGone, Joined
    <3>2. Elements(chan) = {}
      BY <2>1, <2>2, <2>3, <3>1 DEF Pending, Waits, Message
    <3>3. Len(chan) = 0
      <4>1. ASSUME Len(chan) # 0 PROVE FALSE
        <5>1. 1 \in 1 .. Len(chan)
          BY <2>0, <4>1
        <5>2. chan[1] \in Elements(chan)
          BY <2>0, <5>1 DEF Elements
        <5> QED BY <3>2, <5>2
      <4> QED BY <4>1
    <3> QED BY <2>0, <3>3
  <2>4. ASSUME NEW c \in Client, client[c] = "post" PROVE Len(chan) < Capacity
    <3>1. main \in {"commands", "join"}
      BY <2>4 DEF QuietInv, Joining, AllClientsGone, Joined
    <3>2. \A d \in Client : d \in Nat /\ d >= 1 /\ (client[d] # "unborn" => d <= Created)
      BY Practica3Assumption DEF QuietInv, InOrder, Client
    <3>3. Created \in Nat /\ Created <= MAX_CLIENTS - 1
      BY <2>0 DEF QuietInv, OneCreator, Created, Halfway, Active
    <3>4. \A m \in Elements(chan) : m \in Client /\ client[m] = "wait"
      BY <2>1, <2>2, <3>1 DEF Pending, Waits, Message
    <3>5. Elements(chan) \subseteq 1 .. Created /\ c \in 1 .. Created
      BY <2>4, <3>2, <3>3, <3>4
    <3>6. ~Pending(c)
      <4>1. c \in Message /\ c # NONE
        BY NoneIsNoClient
      <4> QED BY <2>1, <2>4, <4>1 DEF Waits
    <3>7. Len(chan) < Created
      BY <3>3, <3>5, <3>6, MailboxHasRoom
    <3> QED BY <2>0, <3>3, <3>7
  <2> QED BY <2>3, <2>4
<1>2. Inv /\ RaceInv /\ TypeInv /\ QuietInv => Bounded
  BY <1>1, TypesAre DEF Bounded
<1> QED BY <1>2, QuietInvariance, PTL
=============================================================================

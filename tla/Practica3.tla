----------------------------- MODULE Practica3 -----------------------------
(***************************************************************************)
(* The whole of practica3: main reads commands and creates clients, the    *)
(* handler of USR1 creates clients too, clients post messages and wait for *)
(* the answer, the server fetches, executes and answers, and main takes    *)
(* everything down at the end (main.c, clients.c, server.c, message.c).    *)
(*                                                                         *)
(* The mailbox is a BoundedChannel (see Mailbox) and op_completed a        *)
(* BinarySem (see Sem).  The thread of the signal handler is here only     *)
(* where it runs create_client and is finished (see SignalHandler).        *)
(*                                                                         *)
(* A message is known by the client that made it, or NONE for the one of   *)
(* shutdown_server; its type and its text tell nothing apart.              *)
(*                                                                         *)
(* CheckNothing, StoreStale, WaitForgotten, StartUnmarked, FetchPeek,      *)
(* SignalFirst, ClearEarly and ServerNotJoined are plausible mistakes;     *)
(* they are no part of Next.                                               *)
(***************************************************************************)
EXTENDS Naturals, Sequences

CONSTANTS MAX_CLIENTS,
          Capacity,      \* mailbox_size
          MaxCommands,   \* bound: "client" commands given to main
          MaxSignals,    \* bound: USR1 handled
          MaxMessages    \* bound: messages of a client

ASSUME Practica3Assumption ==
    /\ MAX_CLIENTS \in Nat \ {0} /\ Capacity \in Nat \ {0}
    /\ MaxCommands \in Nat /\ MaxSignals \in Nat /\ MaxMessages \in Nat \ {0}

Client  == 1 .. MaxCommands + MaxSignals   \* thread ids, in order of creation
Zero    == 0                               \* a pthread_t never written
Slot    == 0 .. MAX_CLIENTS - 1
Creator == {"main", "handler"}
NONE    == 0                               \* the message of shutdown_server
Message == Client \cup {NONE}

VARIABLES
    proc,      \* "running", "exited" or "crashed"
    main,      \* where main is
    commands,  \* "client" commands given
    signals,   \* USR1 delivered
    handler,   \* the thread that handles signals: "on" or "finished"
    creating,  \* where each creator is in create_client
    tmp,       \* the thread each creator has just created
    reg,       \* the n_clients each creator has loaded
    clients,   \* the table of clients
    n_clients,
    n_cl, i,   \* the locals of wait_for_clients
    client,    \* where each client is
    left,      \* the messages each client has still to send
    allocated, \* the messages that are allocated
    answer,    \* the allocated messages with an answer in content
    completed, \* the counter of op_completed
    chan,      \* the mailbox
    mbox,      \* "live" or "freed"
    serv_up,
    server,    \* where the server is
    msg        \* the message the server has fetched

mainVars    == <<main, commands, n_cl, i>>
tableVars   == <<creating, tmp, reg, clients, n_clients>>
signalVars  == <<signals, handler>>
clientVars  == <<client, left>>
messageVars == <<allocated, answer, completed>>
serverVars  == <<serv_up, server, msg>>
vars == <<proc, mainVars, tableVars, signalVars, clientVars, messageVars,
          chan, mbox, serverVars>>

\* main has created the mailbox, the signal handler and the server.
Init ==
    /\ proc = "running"
    /\ main = "commands" /\ commands = 0 /\ n_cl = 0 /\ i = 0
    /\ signals = 0 /\ handler = "on"
    /\ creating = [a \in Creator |-> "out"]
    /\ tmp = [a \in Creator |-> Zero]
    /\ reg = [a \in Creator |-> 0]
    /\ clients = [s \in Slot |-> Zero] /\ n_clients = 0
    /\ client = [c \in Client |-> "unborn"]
    /\ left = [c \in Client |-> 0]
    /\ allocated = {} /\ answer = {}
    /\ completed = [m \in Message |-> 0]
    /\ chan = << >> /\ mbox = "live"
    /\ serv_up = FALSE /\ server = "start" /\ msg = NONE

\* new_message and free_message
NewMessage(m) ==
    /\ allocated' = allocated \cup {m}
    /\ answer' = answer \ {m}
    /\ completed' = [completed EXCEPT ![m] = 0]

FreeMessage(m) ==
    allocated' = allocated \ {m} /\ UNCHANGED <<answer, completed>>

mbox_post(m) == Len(chan) < Capacity /\ chan' = Append(chan, m)

sys_sem_wait(m) ==
    completed[m] > 0 /\ completed' = [completed EXCEPT ![m] = @ - 1]
-----------------------------------------------------------------------------
(* create_client, run by main and, without a lock, by the handler of USR1 *)

Create(a, from, to) ==
    /\ proc = "running"
    /\ creating[a] = from
    /\ creating' = [creating EXCEPT ![a] = to]
    /\ UNCHANGED <<n_cl, i, handler, messageVars, chan, mbox, serverVars>>

\* A "client" command, or a USR1.
Call(a) ==
    /\ Create(a, "out", "check")
    /\ \/ /\ a = "main" /\ main = "commands" /\ commands < MaxCommands
          /\ commands' = commands + 1
          /\ signals' = signals
       \/ /\ a = "handler" /\ handler = "on" /\ signals < MaxSignals
          /\ signals' = signals + 1
          /\ commands' = commands
    /\ UNCHANGED <<proc, main, tmp, reg, clients, n_clients, clientVars>>

CheckNothing(a) ==
    /\ Create(a, "check", "create")
    /\ UNCHANGED <<proc, main, commands, signals, tmp, reg, clients, n_clients,
                   clientVars>>

Check(a) ==
    /\ n_clients < MAX_CLIENTS - 1
    /\ Create(a, "check", "create")
    /\ UNCHANGED <<proc, main, commands, signals, tmp, reg, clients, n_clients,
                   clientVars>>

\* The table is full, or pthread_create fails: main exits, the handler goes on.
Fail(a) ==
    /\ \/ n_clients >= MAX_CLIENTS - 1 /\ Create(a, "check", "out")
       \/ Create(a, "create", "out")
    /\ proc' = IF a = "main" THEN "exited" ELSE proc
    /\ UNCHANGED <<main, commands, signals, tmp, reg, clients, n_clients,
                   clientVars>>

pthread_create(a) ==
    \E c \in Client, n \in 1 .. MaxMessages :
        /\ client[c] = "unborn" /\ \A d \in 1 .. c - 1 : client[d] # "unborn"
        /\ Create(a, "create", "slot")
        /\ tmp' = [tmp EXCEPT ![a] = c]
        /\ client' = [client EXCEPT ![c] = "loop"]
        /\ left' = [left EXCEPT ![c] = n]
        /\ UNCHANGED <<proc, main, commands, signals, reg, clients, n_clients>>

SetSlot(a) ==
    /\ Create(a, "slot", "load")
    /\ clients' = [clients EXCEPT ![n_clients] = tmp[a]]
    /\ UNCHANGED <<proc, main, commands, signals, tmp, reg, n_clients, clientVars>>

\* n_clients++ is a load and a store.
LoadCount(a) ==
    /\ Create(a, "load", "store")
    /\ reg' = [reg EXCEPT ![a] = n_clients]
    /\ UNCHANGED <<proc, main, commands, signals, tmp, clients, n_clients,
                   clientVars>>

StoreStale(a) ==
    /\ Create(a, "store", "out")
    /\ n_clients' = reg[a]
    /\ UNCHANGED <<proc, main, commands, signals, tmp, reg, clients, clientVars>>

StoreCount(a) ==
    /\ Create(a, "store", "out")
    /\ n_clients' = reg[a] + 1
    /\ UNCHANGED <<proc, main, commands, signals, tmp, reg, clients, clientVars>>

CreateStep(a) ==
    \/ Check(a) \/ Fail(a) \/ pthread_create(a) \/ SetSlot(a)
    \/ LoadCount(a) \/ StoreCount(a)
-----------------------------------------------------------------------------
(* client_thread *)

ClientStep(c, from, to) ==
    /\ proc = "running"
    /\ client[c] = from
    /\ client' = [client EXCEPT ![c] = to]
    /\ UNCHANGED <<mainVars, tableVars, signalVars, mbox, serverVars>>

\* new_message, or the end of the loop, or no memory for the message
ClientLoop(c) ==
    \/ /\ left[c] > 0
       /\ ClientStep(c, "loop", "post")
       /\ left' = [left EXCEPT ![c] = @ - 1]
       /\ NewMessage(c)
       /\ UNCHANGED <<proc, chan>>
    \/ /\ ClientStep(c, "loop", "gone")
       /\ UNCHANGED <<proc, left, messageVars, chan>>

\* In a freed mailbox the pointers to the mutex and to the buffer are NULL.
ClientPost(c) ==
    /\ ClientStep(c, "post", "wait")
    /\ IF mbox = "live" THEN mbox_post(c) /\ proc' = proc
                        ELSE proc' = "crashed" /\ chan' = chan
    /\ UNCHANGED <<left, messageVars>>

WaitForgotten(c) ==
    /\ ClientStep(c, "wait", "process")
    /\ UNCHANGED <<proc, left, messageVars, chan>>

ClientWait(c) ==
    /\ ClientStep(c, "wait", "process")
    /\ sys_sem_wait(c)
    /\ UNCHANGED <<proc, left, allocated, answer, chan>>

\* process_answer and free_message
ClientProcess(c) ==
    /\ ClientStep(c, "process", "loop")
    /\ FreeMessage(c)
    /\ UNCHANGED <<proc, left, chan>>

ClientRun(c) == ClientLoop(c) \/ ClientPost(c) \/ ClientWait(c) \/ ClientProcess(c)
-----------------------------------------------------------------------------
(* server_thread *)

ServerStep(from, to) ==
    /\ proc = "running"
    /\ server = from
    /\ server' = to
    /\ UNCHANGED <<proc, mainVars, tableVars, signalVars, clientVars, allocated, mbox>>

StartUnmarked ==
    /\ ServerStep("start", "loop")
    /\ UNCHANGED <<answer, completed, chan, serv_up, msg>>

ServerStart ==
    /\ ServerStep("start", "loop")
    /\ serv_up' = TRUE
    /\ UNCHANGED <<answer, completed, chan, msg>>

ServerLoop ==
    /\ ServerStep("loop", IF serv_up THEN "fetch" ELSE "down")
    /\ UNCHANGED <<answer, completed, chan, serv_up, msg>>

FetchPeek ==
    /\ ServerStep("fetch", "execute")
    /\ chan # << >>
    /\ msg' = Head(chan)
    /\ UNCHANGED <<answer, completed, chan, serv_up>>

ServerFetch ==
    /\ ServerStep("fetch", "execute")
    /\ chan # << >>
    /\ msg' = Head(chan)
    /\ chan' = Tail(chan)
    /\ UNCHANGED <<answer, completed, serv_up>>

SignalFirst ==
    /\ ServerStep("execute", "signal")
    /\ completed' = [completed EXCEPT ![msg] = 1]
    /\ UNCHANGED <<answer, chan, serv_up, msg>>

ServerExecute ==
    /\ ServerStep("execute", "signal")
    /\ answer' = answer \cup {msg}
    /\ UNCHANGED <<completed, chan, serv_up, msg>>

ServerSignal ==
    /\ ServerStep("signal", "loop")
    /\ completed' = [completed EXCEPT ![msg] = 1]
    /\ UNCHANGED <<answer, chan, serv_up, msg>>

ServerRun == ServerLoop \/ ServerFetch \/ ServerExecute \/ ServerSignal
-----------------------------------------------------------------------------
(* main, from the end of the commands to the end of the program *)

MainStep(from, to) ==
    /\ proc = "running"
    /\ creating["main"] = "out"
    /\ main = from
    /\ main' = to
    /\ UNCHANGED <<commands, signals, creating, tmp, reg, clients, clientVars,
                   server, msg>>

\* "exit", "quit" or the end of the input; then the locals of wait_for_clients
Quit ==
    /\ MainStep("commands", "join")
    /\ n_cl' = n_clients /\ i' = 0
    /\ UNCHANGED <<proc, n_clients, handler, messageVars, chan, mbox, serv_up>>

\* The loop of wait_for_clients runs while i <= n_cl: one entry too many.
Entry == IF i \in Slot THEN clients[i] ELSE Zero

JoinClient ==
    /\ i <= n_cl
    /\ Entry \in Client /\ client[Entry] = "gone"
    /\ MainStep("join", "join")
    /\ i' = i + 1
    /\ UNCHANGED <<proc, n_cl, n_clients, handler, messageVars, chan, mbox, serv_up>>

\* To join a thread that never was is undefined: the call fails, and the
\* function returns before it clears the list, or the process crashes.
JoinZero ==
    /\ i <= n_cl
    /\ Entry = Zero
    /\ MainStep("join", "shutdown")
    /\ proc' \in {"running", "crashed"}
    /\ UNCHANGED <<n_cl, i, n_clients, handler, messageVars, chan, mbox, serv_up>>

ClearEarly ==
    /\ i + 1 >= n_cl
    /\ MainStep("join", "shutdown")
    /\ n_clients' = 0
    /\ UNCHANGED <<proc, n_cl, i, handler, messageVars, chan, mbox, serv_up>>

ClearList ==
    /\ i > n_cl
    /\ MainStep("join", "shutdown")
    /\ n_clients' = 0
    /\ UNCHANGED <<proc, n_cl, i, handler, messageVars, chan, mbox, serv_up>>

Shutdown ==
    /\ MainStep("shutdown", "new")
    /\ serv_up' = FALSE
    /\ UNCHANGED <<proc, n_cl, i, n_clients, handler, messageVars, chan, mbox>>

\* new_message(NONE); without memory shutdown_server returns at once
MainNew ==
    \/ /\ MainStep("new", "post")
       /\ NewMessage(NONE)
       /\ UNCHANGED <<proc, n_cl, i, n_clients, handler, chan, mbox, serv_up>>
    \/ /\ MainStep("new", "join_server")
       /\ UNCHANGED <<proc, n_cl, i, n_clients, handler, messageVars, chan, mbox,
                      serv_up>>

MainPost ==
    /\ MainStep("post", "wait")
    /\ mbox_post(NONE)
    /\ UNCHANGED <<proc, n_cl, i, n_clients, handler, messageVars, mbox, serv_up>>

MainWait ==
    /\ MainStep("wait", "free")
    /\ sys_sem_wait(NONE)
    /\ UNCHANGED <<proc, n_cl, i, n_clients, handler, allocated, answer, chan,
                   mbox, serv_up>>

MainFree ==
    /\ MainStep("free", "join_server")
    /\ FreeMessage(NONE)
    /\ UNCHANGED <<proc, n_cl, i, n_clients, handler, chan, mbox, serv_up>>

ServerNotJoined ==
    /\ MainStep("join_server", "finish")
    /\ UNCHANGED <<proc, n_cl, i, n_clients, handler, messageVars, chan, mbox, serv_up>>

JoinServer ==
    /\ server = "down"
    /\ MainStep("join_server", "finish")
    /\ UNCHANGED <<proc, n_cl, i, n_clients, handler, messageVars, chan, mbox, serv_up>>

\* finish_signal_handler, when it returns
FinishHandler ==
    /\ creating["handler"] = "out"
    /\ MainStep("finish", "mbox_free")
    /\ handler' = "finished"
    /\ UNCHANGED <<proc, n_cl, i, n_clients, messageVars, chan, mbox, serv_up>>

MboxFree ==
    /\ MainStep("mbox_free", "return")
    /\ mbox' = "freed"
    /\ UNCHANGED <<proc, n_cl, i, n_clients, handler, messageVars, chan, serv_up>>

Return ==
    /\ MainStep("return", "return")
    /\ proc' = "exited"
    /\ UNCHANGED <<n_cl, i, n_clients, handler, messageVars, chan, mbox, serv_up>>

Wait    == JoinClient \/ JoinZero \/ ClearList
MainRun == \/ Wait \/ Shutdown \/ MainNew \/ MainPost \/ MainWait \/ MainFree
           \/ JoinServer \/ MboxFree \/ Return
-----------------------------------------------------------------------------
Next == \/ \E a \in Creator : Call(a) \/ CreateStep(a)
        \/ \E c \in Client : ClientRun(c)
        \/ ServerStart \/ ServerRun
        \/ Quit \/ MainRun \/ FinishHandler

Spec == Init /\ [][Next]_vars

\* Every thread is scheduled; nobody has to give a command, send a signal or
\* quit, and finish_signal_handler may never return (see SignalHandler).
FairSpec ==
    /\ Spec
    /\ \A a \in Creator : WF_vars(CreateStep(a))
    /\ \A c \in Client : WF_vars(ClientRun(c))
    /\ WF_vars(ServerStart) /\ WF_vars(ServerRun)
    /\ WF_vars(MainRun)
-----------------------------------------------------------------------------
Elements(s) == {s[k] : k \in DOMAIN s}
Joined(c)   == client[c] \in {"unborn", "gone"}

TypeOK ==
    /\ proc \in {"running", "exited", "crashed"}
    /\ main \in {"commands", "join", "shutdown", "new", "post", "wait", "free",
                 "join_server", "finish", "mbox_free", "return"}
    /\ commands \in 0 .. MaxCommands /\ signals \in 0 .. MaxSignals
    /\ handler \in {"on", "finished"}
    /\ creating \in [Creator -> {"out", "check", "create", "slot", "load", "store"}]
    /\ tmp \in [Creator -> Client \cup {Zero}] /\ reg \in [Creator -> 0 .. MAX_CLIENTS]
    /\ clients \in [Slot -> Client \cup {Zero}] /\ n_clients \in 0 .. MAX_CLIENTS
    /\ n_cl \in 0 .. MAX_CLIENTS /\ i \in 0 .. MAX_CLIENTS + 1
    /\ client \in [Client -> {"unborn", "loop", "post", "wait", "process", "gone"}]
    /\ left \in [Client -> 0 .. MaxMessages]
    /\ allocated \subseteq Message /\ answer \subseteq Message
    /\ completed \in [Message -> {0, 1}]
    /\ chan \in Seq(Message) /\ Len(chan) <= Capacity
    /\ mbox \in {"live", "freed"} /\ serv_up \in BOOLEAN
    /\ server \in {"start", "loop", "fetch", "execute", "signal", "down"}
    /\ msg \in Message

(* No thread touches a message that was freed: those in the mailbox and    *)
(* the one the server works on, until its signal, are allocated.           *)
NoUseAfterFree ==
    /\ Elements(chan) \subseteq allocated
    /\ server \in {"execute", "signal"} => msg \in allocated

(* What a client reads from its message is the answer to that message.     *)
AnswerBeforeRead ==
    \A c \in Client : client[c] = "process" => c \in answer /\ c \in allocated

(* Each message is answered once: no answer is in op_completed when the    *)
(* message is in the mailbox or with the server.                           *)
AnsweredOnce ==
    \A m \in Message :
        completed[m] = 1 /\ m \in allocated
        => m \notin Elements(chan) /\ ~(server \in {"execute", "signal"} /\ msg = m)

(* The life of every message, whoever creates clients and whatever races   *)
(* there are on the table: allocated while it is under way, answered once, *)
(* and read after it was answered.                                         *)
MessagesSafe == NoUseAfterFree /\ AnswerBeforeRead /\ AnsweredOnce

(* Nobody who posts finds the mailbox full: the hypothesis under which     *)
(* mbox_fetch returns (see Mailbox).                                       *)
RoomForAll ==
    (main = "post" \/ \E c \in Client : client[c] = "post") => Len(chan) < Capacity

(* Nothing outgrows its place: the table with its counters, and the        *)
(* mailbox, where nobody blocks.                                           *)
Bounded == TypeOK /\ RoomForAll

(* main.c:228-231: when wait_for_clients is over all the clients created   *)
(* are gone, whatever the call for the extra entry did.                    *)
AllClientsGone ==
    main \notin {"commands", "join"} => \A c \in Client : Joined(c)

(* The mailbox is freed when nobody can use it any more.                   *)
NoUseAfterMboxFree ==
    mbox = "freed" =>
        /\ server = "down"
        /\ \A c \in Client : client[c] \notin {"loop", "post"}
        /\ creating["handler"] = "out"

(* What main takes down is no longer used: the clients it has waited for   *)
(* are gone, and the mailbox it frees has no user left.                    *)
CleanShutdown == AllClientsGone /\ NoUseAfterMboxFree

(* The table holds the clients created, one per entry, up to n_clients.    *)
TableIsExact ==
    creating = [a \in Creator |-> "out"] /\ main = "commands"
    => \A c \in Client : client[c] # "unborn" <=> \E s \in 0 .. n_clients - 1 : clients[s] = c

(* Every message posted by a client is answered, unless the process ends.  *)
ClientIsAnswered ==
    \A c \in Client : client[c] = "wait" ~> client[c] # "wait" \/ proc # "running"

(* server.c:35 and main.c:233-237: shutdown_server waits for the server to *)
(* answer the message it posts, then the server goes down and main goes on *)
(* (without memory for the message nothing is posted).                     *)
ShutdownEnds == main = "post" ~> main = "finish" \/ proc # "running"
=============================================================================

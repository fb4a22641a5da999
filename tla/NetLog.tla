------------------------------- MODULE NetLog -------------------------------
(***************************************************************************)
(* The log server.  Every task prints with print_msg() (src/main/main.c:   *)
(* 146-175), which also puts the text into a queue of Cap messages if a    *)
(* client is connected (putMsg, src/main/tcp_srv.c:98-117).  net_log_task  *)
(* (tcp_srv.c:119-185) accepts one client at a time and sends it one       *)
(* message of the queue per turn; with nothing to send it looks whether    *)
(* the client is still there (sendMsg, tcp_srv.c:64-96).                   *)
(*                                                                         *)
(* tcpCli is read by all tasks without a lock, and the look at it and the  *)
(* queueing are two steps.  The log task prints too: that a client has     *)
(* come, and, while tcpCli is still set, that its socket has failed.       *)
(*                                                                         *)
(* A message is known by who printed it, how many that one queued before,  *)
(* and the client for whom it was meant.  The memory of a message is       *)
(* modelled by `heap', the set of messages allocated and not yet freed.    *)
(***************************************************************************)
EXTENDS Integers, Sequences, FiniteSets

CONSTANTS
  Printers,   \* the tasks that print, without the log task
  Cap,        \* length of the queue: 8 in the code
  MaxMsgs,    \* bound: messages one task prints for clients
  MaxClients  \* bound: clients in a behaviour

LogTask == "log"

ASSUME PrintersAssumption == IsFiniteSet(Printers) /\ LogTask \notin Printers
ASSUME CapAssumption == Cap \in Nat \ {0} /\ MaxMsgs \in Nat /\ MaxClients \in Nat

VARIABLES
  tcpCli,    \* number of the connected client, or None
  clients,   \* clients so far
  msgq,      \* the queue
  heap,      \* messages in memory
  held,      \* what a task is about to queue: nothing or one message
  evt,       \* what could not be sent, until it is freed: nothing or one message
  printed,   \* messages a task has made so far
  lpc,       \* where the log task is
  alive,     \* the client's end of the connection is open
  got        \* what this client has received

vars == <<tcpCli, clients, msgq, heap, held, evt, printed, lpc, alive, got>>

None == 0
Everyone == Printers \cup {LogTask}
Text(t)  == [from |-> t, n |-> printed[t] + 1, for |-> tcpCli]
Message  == [from : Everyone, n : Nat \ {0}, for : Nat \ {0}]

Init ==
  /\ tcpCli = None /\ clients = 0 /\ msgq = <<>> /\ heap = {}
  /\ held = [p \in Printers |-> {}] /\ evt = {} /\ printed = [t \in Everyone |-> 0]
  /\ lpc = "accept" /\ alive = FALSE /\ got = <<>>

\* Mutant: the queue takes one message more than it should.
QueuedOver(m) ==
  IF Len(msgq) <= Cap
    THEN heap' = heap \cup {m} /\ msgq' = Append(msgq, m)
    ELSE UNCHANGED <<heap, msgq>>

\* Mutant: the message goes to the front of the queue.
QueuedInFront(m) ==
  IF Len(msgq) < Cap
    THEN heap' = heap \cup {m} /\ msgq' = <<m>> \o msgq
    ELSE UNCHANGED <<heap, msgq>>

\* putMsg: xQueueSend() does not wait; what finds the queue full is freed.
Queued(m) ==
  IF Len(msgq) < Cap
    THEN heap' = heap \cup {m} /\ msgq' = Append(msgq, m)
    ELSE UNCHANGED <<heap, msgq>>

(***************************************************************************)
(* The printing tasks.                                                     *)
(***************************************************************************)
\* print_msg: if (tcpCli >= 0).  Without a client nothing changes.
PrintMsg(p) ==
  /\ held[p] = {} /\ tcpCli # None /\ printed[p] < MaxMsgs
  /\ held' = [held EXCEPT ![p] = {Text(p)}]
  /\ printed' = [printed EXCEPT ![p] = @ + 1]
  /\ UNCHANGED <<tcpCli, clients, msgq, heap, evt, lpc, alive, got>>

\* putMsg(st), for whichever client there is by now; calloc() may fail.
Put(p) ==
  \E m \in held[p] :
    /\ held' = [held EXCEPT ![p] = {}]
    /\ Queued(m) \/ UNCHANGED <<heap, msgq>>
    /\ UNCHANGED <<tcpCli, clients, evt, printed, lpc, alive, got>>

(***************************************************************************)
(* The log task.                                                           *)
(***************************************************************************)
LogPrints ==
  /\ printed' = [printed EXCEPT ![LogTask] = @ + 1]
  /\ Queued(Text(LogTask)) \/ UNCHANGED <<heap, msgq>>

\* accept() returns a socket.
Accept ==
  /\ lpc = "accept" /\ clients < MaxClients
  /\ lpc' = "online" /\ alive' = TRUE /\ got' = <<>>
  /\ clients' = clients + 1 /\ tcpCli' = clients + 1
  /\ UNCHANGED <<msgq, heap, held, evt, printed>>

\* "New log_client ... online"
Online ==
  /\ lpc = "online" /\ lpc' = "serve"
  /\ LogPrints
  /\ UNCHANGED <<tcpCli, clients, held, evt, alive, got>>

\* Mutant: nothing is sent to a client that has gone, and nothing taken.
SendIfAlive ==
  /\ lpc = "serve" /\ msgq # <<>> /\ alive
  /\ msgq' = Tail(msgq) /\ heap' = heap \ {Head(msgq)} /\ got' = Append(got, Head(msgq))
  /\ UNCHANGED <<tcpCli, clients, held, evt, printed, lpc, alive>>

\* A message is received from the queue and sent; what was sent is freed.
\* send() does not wait: it fails if the client is too slow, and perhaps if it
\* is gone.
SendNext ==
  /\ lpc = "serve" /\ msgq # <<>>
  /\ msgq' = Tail(msgq)
  /\ \/ /\ heap' = heap \ {Head(msgq)}
        /\ got' = IF alive THEN Append(got, Head(msgq)) ELSE got
        /\ UNCHANGED <<evt, lpc>>
     \/ /\ evt' = {Head(msgq)} /\ lpc' = "failed"
        /\ UNCHANGED <<heap, got>>
  /\ UNCHANGED <<tcpCli, clients, held, printed, alive>>

\* Nothing to send: recv() returns 0 when the client has gone.
CheckOffline ==
  /\ lpc = "serve" /\ msgq = <<>> /\ ~alive
  /\ lpc' = "failed"
  /\ UNCHANGED <<tcpCli, clients, msgq, heap, held, evt, printed, alive, got>>

\* show_socket_error_reason() prints before the socket is closed.
ShowError ==
  /\ lpc = "failed" /\ lpc' = "close"
  /\ LogPrints
  /\ UNCHANGED <<tcpCli, clients, held, evt, alive, got>>

\* Mutant: a message that could not be sent is not freed.
CloseLeaking ==
  /\ lpc = "close" /\ lpc' = "accept"
  /\ tcpCli' = None /\ alive' = FALSE /\ evt' = {}
  /\ UNCHANGED <<clients, msgq, heap, held, printed, got>>

\* Mutant: a message that could not be sent is kept for the next client.
CloseKeeping ==
  /\ lpc = "close" /\ lpc' = "accept"
  /\ tcpCli' = None /\ alive' = FALSE
  /\ msgq' = IF evt # {} /\ Len(msgq) < Cap THEN Append(msgq, CHOOSE m \in evt : TRUE) ELSE msgq
  /\ evt' = {}
  /\ UNCHANGED <<clients, heap, held, printed, got>>

\* net_log_close() and free(); tcpCli is cleared, and what is printed then is not
\* queued.
Close ==
  /\ lpc = "close" /\ lpc' = "accept"
  /\ tcpCli' = None /\ alive' = FALSE
  /\ heap' = heap \ evt /\ evt' = {}
  /\ UNCHANGED <<clients, msgq, held, printed, got>>

\* The client (external).
Leave ==
  /\ tcpCli # None /\ alive
  /\ alive' = FALSE
  /\ UNCHANGED <<tcpCli, clients, msgq, heap, held, evt, printed, lpc, got>>

Serve == Online \/ SendNext \/ CheckOffline \/ ShowError \/ Close

\* After the last client of a behaviour nothing need happen any more.
Done == clients = MaxClients /\ UNCHANGED vars

Next ==
  \/ \E p \in Printers : PrintMsg(p) \/ Put(p)
  \/ Accept \/ Serve \/ Leave \/ Done

Spec == Init /\ [][Next]_vars

\* Fairness: the log task is never starved while it has a client.
FairSpec == Spec /\ WF_vars(Serve)

(***************************************************************************)
(* Properties.                                                             *)
(***************************************************************************)
\* The type invariant.
TypeOK ==
  /\ tcpCli \in {None, clients} /\ clients \in 0..MaxClients
  /\ msgq \in Seq(Message) /\ Len(msgq) <= Cap /\ heap \subseteq Message
  /\ held \in [Printers -> SUBSET Message] /\ \A p \in Printers : Cardinality(held[p]) <= 1
  /\ evt \subseteq Message /\ Cardinality(evt) <= 1
  /\ printed \in [Everyone -> Nat]
  /\ lpc \in {"accept", "online", "serve", "failed", "close"}
  /\ alive \in BOOLEAN /\ got \in Seq(Message)

\* Every message is freed once it is sent, has failed to be sent, or finds the
\* queue full: what is in memory is what is queued, and what could not be sent
\* while its client is being closed (tcp_srv.c:83, 112).
NoLeak ==
  /\ heap = {msgq[i] : i \in DOMAIN msgq} \cup evt
  /\ evt # {} => lpc \in {"failed", "close"}

\* A client receives each task's messages in the order it printed them, none
\* twice, although messages of several tasks and clients share the queue.
InOrder ==
  \A i, j \in DOMAIN got : i < j /\ got[i].from = got[j].from => got[i].n < got[j].n

\* The queue is not emptied between two clients, and a task may queue late what
\* it printed for the one before: a new client gets messages that were meant
\* for earlier ones, but never more than fit in the queue and in the hands of
\* the printing tasks when it came.
InHand   == UNION {held[p] : p \in Printers}
Received == {got[i] : i \in DOMAIN got}
Stale(k) == {m \in heap \cup InHand \cup Received : m.for < k}
StaleBounded ==
  tcpCli # None => Cardinality(Stale(tcpCli)) <= Cap + Cardinality(Printers)

\* NetLog implements LossyFifo: over all clients, and whatever is lost, no message is
\* received twice, by one client or by two, or after a later one of the same task,
\* and none that was not printed (main.c:170-172, tcp_srv.c:64-117).
InTransit    == {msgq[i] : i \in DOMAIN msgq} \cup InHand
NumbersOf(t) == {m.n : m \in {k \in InTransit : k.from = t}}
Transit      == [t \in Everyone |-> NumbersOf(t)]
Seen         == [i \in 1..Len(got) |-> <<got[i].from, got[i].n>>]
Promise == INSTANCE LossyFifo WITH
  Tasks <- Everyone, made <- printed, transit <- Transit, seen <- Seen
ImplementsLossyFifo == Promise!Spec

\* While a client is connected, whatever is queued is taken from the queue.
IsQueued(t, k) == \E i \in DOMAIN msgq : msgq[i].from = t /\ msgq[i].n = k
Drains ==
  \A t \in Printers, k \in 1..MaxMsgs : IsQueued(t, k) ~> (~IsQueued(t, k) \/ tcpCli = None)
=============================================================================

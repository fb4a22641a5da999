------------------------------- MODULE Restart -------------------------------
(***************************************************************************)
(* How a restart of the chip comes about.  Somebody sets restart_flag: the *)
(* main task for the pin (src/main/main.c:1040), the session for the       *)
(* command cpureset (fmb630.c:1152), the TLS task for its client           *)
(* (tls_srv.c:697).  Every task looks at the flag in its own time and      *)
(* ends; the main task, once it has seen the flag, waits until total_task  *)
(* is zero, at most Grace times 100 ms, and restarts the chip.             *)
(*                                                                         *)
(* total_task is a plain byte that tasks on two cores, preempted at any    *)
(* moment, count up when they start and down when they end: the load and   *)
(* the store are two steps here.                                           *)
(*                                                                         *)
(* The model begins in the main loop, with the session, the TLS server and *)
(* the log server running.  The SNTP and the FTP task are started by the   *)
(* main loop when the TLS client asks for them.  What a task does for its  *)
(* living is left out.                                                     *)
(***************************************************************************)
EXTENDS Integers, FiniteSets

CONSTANTS
  Grace,        \* cnt in app_main: 30 in the code
  MaxLaunches   \* bound: SNTP and FTP tasks started in a behaviour

ASSUME GraceAssumption  == Grace \in Nat \ {0}
ASSUME LaunchAssumption == MaxLaunches \in Nat

VARIABLES
  restart_flag,
  total_task,
  mpc,        \* where the main task is
  cnt,        \* tries left in the main task's wait
  q_rst,      \* the pin's interrupt has put a byte into the queue
  go,         \* sntp_go and ftp_go_flag: the tasks to be started
  launches,
  st,         \* where each of the other tasks is
  reg,        \* the value of total_task a task has loaded and not yet stored
  eot,        \* the TLS task is to end with a restart
  auth,       \* the TLS client is authenticated
  proved,     \* history: the client has given the hash it was asked for
  raced       \* two tasks were between load and store at the same time

mainVars == <<mpc, cnt, launches>>
taskVars == <<st, reg>>
tlsVars  == <<eot, auth, proved>>
vars == <<restart_flag, total_task, mainVars, q_rst, go, taskVars, tlsVars, raced>>

Started == {"sntp", "ftp"}                       \* started on request
Tasks   == {"fmb", "tls", "log"} \cup Started

\* "none": not created, or deleted.  "born": created, total_task++ is next.
\* "inc", "dec": between load and store.  "end": the count down is next.
Phases(t) ==
  {"none", "born", "inc", "run", "end", "dec"} \cup
  CASE t = "fmb" -> {"leave"}
    [] t = "log" -> {"serve"}
    [] t = "tls" -> {"accept", "shake", "read", "reading", "quit"}
    [] OTHER     -> {}

Init ==
  /\ restart_flag = FALSE /\ total_task = 3
  /\ mpc = "top" /\ cnt = Grace /\ q_rst = FALSE /\ go = {} /\ launches = 0
  /\ st = [t \in Tasks |-> IF t \in Started THEN "none" ELSE "run"]
  /\ reg = [t \in Tasks |-> 0]
  /\ eot = FALSE /\ auth = FALSE /\ proved = FALSE /\ raced = FALSE

Up == mpc # "restarted"
Goes(t, from, to) == Up /\ st[t] = from /\ st' = [st EXCEPT ![t] = to]

(***************************************************************************)
(* total_task++ and if (total_task) total_task--, the same in every task.  *)
(***************************************************************************)
Between(t) == st[t] \in {"inc", "dec"}

Load(t) ==
  /\ reg' = [reg EXCEPT ![t] = total_task]
  /\ raced' = (raced \/ \E u \in Tasks \ {t} : Between(u))
  /\ UNCHANGED <<restart_flag, total_task, mainVars, q_rst, go, tlsVars>>

Store(t, value) ==
  /\ total_task' = value
  /\ reg' = [reg EXCEPT ![t] = 0]
  /\ UNCHANGED <<restart_flag, mainVars, q_rst, go, tlsVars, raced>>

CountUp(t) ==
  \/ Goes(t, "born", "inc") /\ Load(t)
  \/ Goes(t, "inc", "run") /\ Store(t, (reg[t] + 1) % 256)

\* Mutant: a task that ends is not counted down.
NotCountDown(t) ==
  \/ Goes(t, "end", "dec") /\ Load(t)
  \/ Goes(t, "dec", "none") /\ Store(t, total_task)

\* Mutant: total_task is counted down without looking whether it is zero.
CountDownUnguarded(t) ==
  \/ Goes(t, "end", "dec") /\ Load(t)
  \/ Goes(t, "dec", "none") /\ Store(t, (reg[t] - 1) % 256)

CountDown(t) ==
  \/ Goes(t, "end", "dec") /\ Load(t)
  \/ Goes(t, "dec", "none") /\ Store(t, IF reg[t] > 0 THEN reg[t] - 1 ELSE total_task)

Count(t) == CountUp(t) \/ CountDown(t)

(***************************************************************************)
(* The main task.                                                          *)
(***************************************************************************)
Main(from, to) == mpc = from /\ mpc' = to

\* while (!restart_flag)
MainTest ==
  /\ IF restart_flag THEN Main("top", "wait") ELSE Main("top", "sntp")
  /\ UNCHANGED <<restart_flag, total_task, cnt, launches, q_rst, go, taskVars, tlsVars, raced>>

\* A task that was asked for and is not running is started.  The 500 ms of
\* vTaskDelay() after that are ample for it to count itself.
Settled == \A t \in Started : st[t] \notin {"born", "inc"}

Launch(t, next) ==
  /\ Settled
  /\ t \in go /\ st[t] = "none" /\ launches < MaxLaunches
  /\ mpc = t /\ mpc' = next
  /\ go' = go \ {t} /\ launches' = launches + 1
  /\ st' = [st EXCEPT ![t] = "born"]
  /\ UNCHANGED <<restart_flag, total_task, cnt, q_rst, reg, tlsVars, raced>>

\* Not asked for, still running, or it could not be created.
LaunchNot(t, next) ==
  /\ Settled
  /\ mpc = t /\ mpc' = next
  /\ go' = IF st[t] = "none" THEN go \ {t} ELSE go
  /\ UNCHANGED <<restart_flag, total_task, cnt, launches, q_rst, taskVars, tlsVars, raced>>

\* xQueueReceive: a byte of the pin's interrupt sets the flag and ends the loop.
MainPin ==
  /\ Settled
  /\ IF q_rst THEN Main("pin", "wait") ELSE Main("pin", "top")
  /\ q_rst' = FALSE /\ restart_flag' = (restart_flag \/ q_rst)
  /\ UNCHANGED <<total_task, cnt, launches, go, taskVars, tlsVars, raced>>

\* while (total_task) { cnt--; if (!cnt) break; vTaskDelay }
MainWait ==
  /\ mpc = "wait"
  /\ IF total_task = 0
       THEN mpc' = "stop" /\ UNCHANGED cnt
       ELSE cnt' = cnt - 1 /\ mpc' = IF cnt' = 0 THEN "stop" ELSE "wait"
  /\ UNCHANGED <<restart_flag, total_task, launches, q_rst, go, taskVars, tlsVars, raced>>

\* Unmount, stop WiFi, esp_restart(): the tasks and all memory are gone.
MainRestart ==
  /\ Main("stop", "restarted")
  /\ restart_flag' = FALSE /\ total_task' = 0 /\ cnt' = 0 /\ launches' = 0
  /\ q_rst' = FALSE /\ go' = {} /\ raced' = FALSE
  /\ eot' = FALSE /\ auth' = FALSE /\ proved' = FALSE
  /\ st' = [t \in Tasks |-> "none"] /\ reg' = [t \in Tasks |-> 0]

MainTask ==
  \/ MainTest \/ MainPin \/ MainWait \/ MainRestart
  \/ Launch("sntp", "ftp") \/ LaunchNot("sntp", "ftp")
  \/ Launch("ftp", "pin")  \/ LaunchNot("ftp", "pin")

\* The interrupt, while the main loop reads the queue; a byte too many is dropped.
Press ==
  /\ mpc \in {"top", "sntp", "ftp", "pin"} /\ ~q_rst
  /\ q_rst' = TRUE
  /\ UNCHANGED <<restart_flag, total_task, mainVars, go, taskVars, tlsVars, raced>>

(***************************************************************************)
(* The session: its inner loop and its outer loop test the flag.           *)
(***************************************************************************)
Quiet == UNCHANGED <<restart_flag, total_task, mainVars, q_rst, go, reg, tlsVars, raced>>

CpuReset ==
  /\ Up /\ st["fmb"] = "run" /\ ~restart_flag
  /\ restart_flag' = TRUE
  /\ UNCHANGED <<total_task, mainVars, q_rst, go, taskVars, tlsVars, raced>>

FmbLeaves == restart_flag /\ Goes("fmb", "run", "leave") /\ Quiet
FmbEnds   == (IF restart_flag THEN Goes("fmb", "leave", "end")
                              ELSE Goes("fmb", "leave", "run")) /\ Quiet

(***************************************************************************)
(* The log server does not look at the flag while it has a client; SNTP    *)
(* gives up within 15 s or at once; FTP does not look at the flag at all.  *)
(***************************************************************************)
LogEnds    == restart_flag /\ Goes("log", "run", "end") /\ Quiet
LogClient  == ~restart_flag /\ Goes("log", "run", "serve") /\ Quiet
LogAlone   == Goes("log", "serve", "run") /\ Quiet
StartedEnds(t) == Goes(t, "run", "end") /\ Quiet

(***************************************************************************)
(* The TLS task.                                                           *)
(***************************************************************************)
\* exit: the task ends if eot says so, else it tests its outer loop.
Left(e) == IF e THEN "quit" ELSE "run"

TlsQuiet == UNCHANGED <<restart_flag, total_task, mainVars, q_rst, go, reg, raced>>

\* Mutant: the authentication outlives the connection.
Exit1Keeping(from, e) == Goes("tls", from, Left(e)) /\ UNCHANGED auth

\* exit1, before exit: the client is gone.
Exit1(from, e) == Goes("tls", from, Left(e)) /\ auth' = FALSE

\* while (!restart_flag), and the bind, which may fail and is tried again.
TlsTop ==
  /\ Goes("tls", "run", IF restart_flag THEN "quit" ELSE "accept")
  /\ proved' = FALSE /\ UNCHANGED <<eot, auth>> /\ TlsQuiet

\* Mutant: the poll leaves the loops without asking for the restart again.
AcceptSeesOnly ==
  /\ restart_flag /\ Exit1("accept", eot)
  /\ UNCHANGED <<eot, proved>> /\ TlsQuiet

\* The poll looks at the flag after every accept(), successful or not.
AcceptSees ==
  /\ restart_flag /\ Exit1("accept", TRUE)
  /\ eot' = TRUE /\ UNCHANGED proved /\ TlsQuiet

\* A client connects, or accept() fails and the server socket is made anew.
AcceptReturns == ~restart_flag /\ (Goes("tls", "accept", "shake") \/ Goes("tls", "accept", "run"))
                 /\ Quiet

HandshakeDone  == Goes("tls", "shake", "read") /\ Quiet
HandshakeFails == Goes("tls", "shake", Left(eot)) /\ Quiet

\* while (!tls_hangup && !restart_flag)
ReadTest ==
  /\ IF restart_flag THEN Exit1("read", eot)
                     ELSE Goes("tls", "read", "reading") /\ UNCHANGED auth
  /\ UNCHANGED <<eot, proved>> /\ TlsQuiet

\* What a turn of the read loop ends with: the answer, then if (!auth || eot)
\* break, both only while nobody restarts; otherwise the loop's test.
TurnEnds(e, au) ==
  IF ~restart_flag /\ (e \/ ~au) THEN Exit1("reading", e)
                                 ELSE Goes("tls", "reading", "read") /\ auth' = au

\* parser_json_str.  Anybody may give the hash; all else only an authenticated client
\* is granted.  What is asked for decides eot anew.  "other" is what is granted to
\* nobody, and the commands that only store a parameter, set the time or read.
Obeys(asks) ==
  /\ asks \in Started \cup {"restart"} => auth
  /\ eot' = (asks = "restart")
  /\ proved' = (proved \/ asks = "auth")
  /\ go' = go \cup ({asks} \cap Started)

\* Data of the client.  Bound: one task is asked for at a time.
ReadData(asks) ==
  /\ asks \in Started => launches < MaxLaunches /\ go = {}
  /\ Obeys(asks)
  /\ TurnEnds(eot', auth \/ asks = "auth")
  /\ UNCHANGED <<restart_flag, total_task, mainVars, q_rst, reg, raced>>

\* A timeout only ends the read of an authenticated client.
ReadTimeout == auth /\ TurnEnds(eot, auth) /\ UNCHANGED <<eot, proved>> /\ TlsQuiet

\* The connection is closed or broken, or a client that is not authenticated
\* times out.
ReadFails == Exit1("reading", eot) /\ UNCHANGED <<eot, proved>> /\ TlsQuiet

\* quit1: restart_flag = eot, whatever the flag was.
TlsQuit ==
  /\ Goes("tls", "quit", "end")
  /\ restart_flag' = eot
  /\ UNCHANGED <<total_task, mainVars, q_rst, go, reg, tlsVars, raced>>

TlsServer ==
  \/ TlsTop \/ AcceptSees \/ HandshakeFails \/ ReadTest
  \/ ReadFails \/ TlsQuit

TlsClient ==
  \/ AcceptReturns \/ HandshakeDone \/ ReadTimeout
  \/ \E asks \in Started \cup {"auth", "restart", "other"} : ReadData(asks)

-----------------------------------------------------------------------------
Done == ~Up /\ UNCHANGED vars

Next ==
  \/ MainTask \/ Press
  \/ \E t \in Tasks : Count(t)
  \/ CpuReset \/ FmbLeaves \/ FmbEnds
  \/ LogEnds \/ LogClient \/ LogAlone
  \/ \E t \in Started : StartedEnds(t)
  \/ TlsServer \/ TlsClient
  \/ Done

Spec == Init /\ [][Next]_vars

(***************************************************************************)
(* Fairness: the scheduler runs the main task, the counting of a task that *)
(* was started, and the TLS task up to its next wait, whose handshake and  *)
(* reads time out.  Nothing is assumed of clients, of FTP or of the log    *)
(* server.                                                                 *)
(***************************************************************************)
FairSpec ==
  /\ Spec /\ WF_vars(MainTask) /\ WF_vars(TlsServer)
  /\ \A t \in Started : WF_vars(Count(t))

(***************************************************************************)
(* Properties.                                                             *)
(***************************************************************************)
\* The type invariant.  Lost updates never take total_task below zero, where it
\* would wrap to 255, nor above the number of tasks there have been.
TypeOK ==
  /\ restart_flag \in BOOLEAN /\ total_task \in 0..3 + launches
  /\ mpc \in {"top", "sntp", "ftp", "pin", "wait", "stop", "restarted"}
  /\ cnt \in 0..Grace /\ q_rst \in BOOLEAN /\ go \subseteq Started
  /\ launches \in 0..MaxLaunches
  /\ \A t \in Tasks : st[t] \in Phases(t)
  /\ DOMAIN st = Tasks /\ reg \in [Tasks -> 0..3 + launches]
  /\ eot \in BOOLEAN /\ auth \in BOOLEAN /\ proved \in BOOLEAN /\ raced \in BOOLEAN

\* Tasks whose count up is stored and whose count down is not.
Open == {t \in Tasks : st[t] \notin {"none", "born", "inc"}}

\* As long as no two tasks were between load and store at the same time,
\* total_task is the number of open tasks, and the main task that stops
\* waiting before its tries are used up has waited for all of them
\* (main.c:1064-1068).
WaitsForTasks ==
  ~raced =>
    /\ total_task = Cardinality(Open)
    /\ mpc = "stop" /\ cnt > 0 => \A t \in Tasks : st[t] = "none"

\* Who is taken for authenticated has given the hash on the connection it is heard
\* on: an authentication never passes from one client to the next, however the
\* first one left (tls_srv.c:105, 527-560, 667-675).
AuthIsOfThisClient == auth => proved

\* A restart the main task is bound to carry out: the pin was pressed, the TLS
\* task is to end with a restart, or the flag is set while the TLS server waits
\* for a client, whose poll asks for the restart again.
Assured == q_rst \/ eot \/ (restart_flag /\ st["tls"] = "accept")

\* An assured restart happens, whatever the other tasks do with the flag
\* (main.c:1040-1045, tls_srv.c:462-465, 660, 683, 697).
AssuredRestarts == Assured ~> mpc = "restarted"

\* Every restart asked for happens.  The end of the TLS task breaks this: with
\* a client connected, it takes the flag back (tls_srv.c:697), and the main
\* task may not have seen it.
RestartHappens == restart_flag ~> mpc = "restarted"
=============================================================================

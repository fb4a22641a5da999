---------------------------- MODULE RestartProofs ----------------------------
(***************************************************************************)
(* Proofs about Restart, for any number of tries and of tasks started.     *)
(***************************************************************************)
EXTENDS Restart, FiniteSetTheorems, TLAPS

-----------------------------------------------------------------------------
\* What a task does between its start and its end.
Middle == {"run", "end", "leave", "serve", "accept", "shake", "read", "reading", "quit"}

\* A task was created and has not counted itself yet.
Starting(t) == st[t] \in {"born", "inc"}

LEMMA SomePhases ==
  /\ \A t \in Tasks : {"none", "born", "inc", "run", "end", "dec"} \subseteq Phases(t)
  /\ "leave" \in Phases("fmb") /\ "serve" \in Phases("log")
  /\ {"accept", "shake", "read", "reading", "quit"} \subseteq Phases("tls")
<1>1. \A t \in Tasks : {"none", "born", "inc", "run", "end", "dec"} \subseteq Phases(t)
  BY DEF Phases
<1>2. "leave" \in Phases("fmb")
  BY DEF Phases
<1>3. "serve" \in Phases("log")
  BY DEF Phases
<1>4. {"accept", "shake", "read", "reading", "quit"} \subseteq Phases("tls")
  BY DEF Phases
<1> QED
  BY <1>1, <1>2, <1>3, <1>4

LEMMA GoesOn ==
  ASSUME DOMAIN st = Tasks, \A u \in Tasks : st[u] \in Phases(u),
         NEW t \in Tasks, NEW from, NEW to \in Phases(t), Goes(t, from, to)
  PROVE  /\ DOMAIN st' = Tasks /\ \A u \in Tasks : st'[u] \in Phases(u)
         /\ st[t] = from /\ st'[t] = to /\ \A u \in Tasks : u # t => st'[u] = st[u]
         /\ Up
  BY DEF Goes

\* The steps that neither start nor count nor end a task.
GoOn ==
  /\ UNCHANGED <<total_task, mainVars, reg, raced>>
  /\ \/ UNCHANGED st
     \/ \E t \in Tasks : \E from \in Middle, to \in Middle \cap Phases(t) : Goes(t, from, to)

LEMMA TlsGoesOn ==
  ASSUME NEW from \in Middle, NEW to \in {"accept", "shake", "read", "reading", "quit", "run"},
         Goes("tls", from, to), UNCHANGED <<total_task, mainVars, reg, raced>>
  PROVE  GoOn
<1>1. to \in Middle \cap Phases("tls") /\ "tls" \in Tasks
  BY SomePhases DEF Middle, Tasks
<1> QED
  BY <1>1 DEF GoOn

LEMMA GoOnSteps ==
  ASSUME \/ Press \/ CpuReset \/ FmbLeaves \/ FmbEnds
         \/ LogEnds \/ LogClient \/ LogAlone
         \/ \E t \in Started : StartedEnds(t)
         \/ TlsServer \/ TlsClient
         \/ UNCHANGED vars
  PROVE  GoOn
<1>a. /\ "fmb" \in Tasks /\ "log" \in Tasks /\ Started \subseteq Tasks
      /\ {"run", "end", "leave", "serve", "accept", "shake", "read", "reading", "quit"} = Middle
  BY DEF Tasks, Middle
<1>1. CASE Press \/ CpuReset \/ UNCHANGED vars
  BY <1>1 DEF Press, CpuReset, GoOn, vars, mainVars, taskVars
<1>2. CASE FmbLeaves \/ FmbEnds
  <2>1. {"leave", "end", "run"} \subseteq Middle \cap Phases("fmb")
    BY <1>a, SomePhases
  <2>2. \E from, to \in {"leave", "end", "run"} : Goes("fmb", from, to)
    BY <1>2 DEF FmbLeaves, FmbEnds
  <2>3. UNCHANGED <<total_task, mainVars, reg, raced>>
    BY <1>2 DEF FmbLeaves, FmbEnds, Quiet
  <2> QED
    BY <1>a, <2>1, <2>2, <2>3 DEF GoOn
<1>3. CASE LogEnds \/ LogClient \/ LogAlone
  <2>1. {"serve", "end", "run"} \subseteq Middle \cap Phases("log")
    BY <1>a, SomePhases
  <2>2. \E from, to \in {"serve", "end", "run"} : Goes("log", from, to)
    BY <1>3 DEF LogEnds, LogClient, LogAlone
  <2>3. UNCHANGED <<total_task, mainVars, reg, raced>>
    BY <1>3 DEF LogEnds, LogClient, LogAlone, Quiet
  <2> QED
    BY <1>a, <2>1, <2>2, <2>3 DEF GoOn
<1>4. CASE \E t \in Started : StartedEnds(t)
  <2>1. PICK t \in Started : Goes(t, "run", "end")
    BY <1>4 DEF StartedEnds
  <2>2. UNCHANGED <<total_task, mainVars, reg, raced>>
    BY <1>4 DEF StartedEnds, Quiet
  <2>3. "run" \in Middle /\ "end" \in Middle \cap Phases(t)
    BY <1>a, SomePhases
  <2> QED
    BY <1>a, <2>1, <2>2, <2>3 DEF GoOn
<1>5. CASE TlsServer \/ TlsClient
  <2> DEFINE Places == {"accept", "shake", "read", "reading", "quit", "run"}
  <2>1. CASE TlsQuit
    <3>1. Goes("tls", "quit", "end") /\ UNCHANGED <<total_task, mainVars, reg, raced>>
      BY <2>1 DEF TlsQuit
    <3>2. "tls" \in Tasks /\ "quit" \in Middle /\ "end" \in Middle \cap Phases("tls")
      BY <1>a, SomePhases DEF Tasks
    <3> QED
      BY <3>1, <3>2 DEF GoOn
  <2>2. CASE ~TlsQuit
    <3>1. /\ \E from \in Middle, to \in Places : Goes("tls", from, to)
          /\ UNCHANGED <<total_task, mainVars, reg, raced>>
      <4>1. CASE TlsTop \/ AcceptSees \/ HandshakeFails
        BY <1>a, <4>1 DEF TlsTop, AcceptSees, HandshakeFails, Exit1, Left, TlsQuiet, Quiet
      <4>2. CASE ReadTest \/ ReadFails
        BY <1>a, <4>2 DEF ReadTest, ReadFails, Exit1, Left, TlsQuiet
      <4>3. CASE AcceptReturns \/ HandshakeDone
        BY <1>a, <4>3 DEF AcceptReturns, HandshakeDone, Quiet
      <4>4. CASE ReadTimeout
        BY <1>a, <4>4 DEF ReadTimeout, TurnEnds, Exit1, Left, TlsQuiet
      <4>5. CASE \E asks \in Started \cup {"auth", "restart", "other"} : ReadData(asks)
        BY <1>a, <4>5 DEF ReadData, TurnEnds, Exit1, Left
      <4> QED
        BY <1>5, <2>2, <4>1, <4>2, <4>3, <4>4, <4>5 DEF TlsServer, TlsClient
    <3> QED
      BY <3>1, TlsGoesOn
  <2> QED
    BY <2>1, <2>2
<1> QED
  BY <1>1, <1>2, <1>3, <1>4, <1>5

-----------------------------------------------------------------------------
\* The type invariant.  The main task lets the 500 ms pass after it has started a
\* task, so that at most one is on its way to count itself; until then the
\* counter leaves room for it.
StartInv ==
  \A t \in Tasks : Starting(t) =>
    /\ t \in Started /\ mpc \in {"ftp", "pin"}
    /\ \A u \in Tasks : Starting(u) => u = t
    /\ total_task <= 2 + launches /\ \A u \in Tasks : reg[u] <= 2 + launches

TypeInv == TypeOK /\ StartInv /\ (mpc \notin {"stop", "restarted"} => cnt > 0)

\* The parts of the type invariant.
PlacesType == DOMAIN st = Tasks /\ \A t \in Tasks : st[t] \in Phases(t)
CountsType ==
  /\ launches \in 0..MaxLaunches /\ total_task \in 0..3 + launches
  /\ reg \in [Tasks -> 0..3 + launches]
  /\ mpc \in {"top", "sntp", "ftp", "pin", "wait", "stop", "restarted"} /\ cnt \in 0..Grace
FlagsType ==
  /\ restart_flag \in BOOLEAN /\ q_rst \in BOOLEAN /\ go \subseteq Started
  /\ eot \in BOOLEAN /\ auth \in BOOLEAN /\ proved \in BOOLEAN /\ raced \in BOOLEAN

LEMMA TypeParts == TypeOK <=> PlacesType /\ CountsType /\ FlagsType
  BY DEF TypeOK, PlacesType, CountsType, FlagsType

\* The steps of Next: those that go on, those of the main task, and the counting.
LEMMA NextCases ==
  ASSUME [Next]_vars
  PROVE  \/ GoOn
         \/ MainTask
         \/ \E t \in Tasks : Count(t)
<1>1. CASE Next
  BY <1>1, GoOnSteps DEF Next, Done
<1>2. CASE UNCHANGED vars
  BY <1>2, GoOnSteps
<1> QED
  BY <1>1, <1>2

LEMMA FlagsStep ==
  ASSUME FlagsType, [Next]_vars
  PROVE  FlagsType'
<1> USE DEF FlagsType
<1>1. CASE MainTest \/ MainPin \/ MainWait \/ MainRestart
  BY <1>1 DEF MainTest, MainPin, MainWait, MainRestart, Main, tlsVars
<1>2. CASE MainTask /\ ~(MainTest \/ MainPin \/ MainWait \/ MainRestart)
  <2>1. \E t, next \in Tasks \cup {"pin"} : Launch(t, next) \/ LaunchNot(t, next)
    BY <1>2 DEF MainTask, Tasks, Started
  <2> QED
    BY <2>1 DEF Launch, LaunchNot, tlsVars
<1>3. CASE \E t \in Tasks : Count(t)
  <2>1. UNCHANGED <<restart_flag, q_rst, go, tlsVars>>
    BY <1>3 DEF Count, CountUp, CountDown, Load, Store
  <2>2. raced' \in BOOLEAN
    BY <1>3 DEF Count, CountUp, CountDown, Load, Store
  <2> QED
    BY <2>1, <2>2 DEF tlsVars
<1>4. CASE Press \/ CpuReset \/ UNCHANGED vars
  BY <1>4 DEF Press, CpuReset, vars, tlsVars
<1>5. CASE FmbLeaves \/ FmbEnds \/ LogEnds \/ LogClient \/ LogAlone
  BY <1>5 DEF FmbLeaves, FmbEnds, LogEnds, LogClient, LogAlone, Quiet, tlsVars
<1>6. CASE \E t \in Started : StartedEnds(t)
  BY <1>6 DEF StartedEnds, Quiet, tlsVars
<1>7. CASE TlsTop \/ AcceptSees \/ HandshakeFails \/ TlsQuit
  BY <1>7 DEF TlsTop, AcceptSees, HandshakeFails, TlsQuit, Exit1, Quiet, TlsQuiet, tlsVars
<1>8. CASE ReadTest \/ ReadFails \/ AcceptReturns \/ HandshakeDone
  BY <1>8 DEF ReadTest, ReadFails, AcceptReturns, HandshakeDone, Exit1, Quiet, TlsQuiet, tlsVars
<1>9. CASE ReadTimeout
  BY <1>9 DEF ReadTimeout, TurnEnds, Exit1, TlsQuiet
<1>10. ASSUME NEW asks \in Started \cup {"auth", "restart", "other"}, ReadData(asks)
       PROVE  FlagsType'
  <2>1. Obeys(asks) /\ TurnEnds(eot', auth \/ asks = "auth") /\ UNCHANGED <<restart_flag, q_rst, raced>>
    BY <1>10 DEF ReadData
  <2>2. eot' \in BOOLEAN /\ proved' \in BOOLEAN /\ go' \subseteq Started
    BY <2>1 DEF Obeys
  <2>3. auth' \in BOOLEAN
    BY <2>1 DEF TurnEnds, Exit1
  <2> QED
    BY <2>1, <2>2, <2>3
<1> QED
  BY <1>1, <1>2, <1>3, <1>4, <1>5, <1>6, <1>7, <1>8, <1>9, <1>10
     DEF Next, Done, TlsServer, TlsClient

\* What a step that goes on does not change.
LEMMA GoOnKeeps ==
  ASSUME PlacesType, GoOn
  PROVE  /\ PlacesType'
         /\ \A t \in Tasks : st'[t] = st[t] \/ {st[t], st'[t]} \subseteq Middle
         /\ UNCHANGED <<total_task, mpc, cnt, launches, reg, raced>>
<1>1. UNCHANGED <<total_task, mpc, cnt, launches, reg, raced>>
  BY DEF GoOn, mainVars
<1>2. CASE UNCHANGED st
  BY <1>1, <1>2 DEF PlacesType
<1>3. CASE \E t \in Tasks : \E from \in Middle, to \in Middle \cap Phases(t) : Goes(t, from, to)
  <2>a. PICK t \in Tasks : \E from \in Middle, to \in Middle \cap Phases(t) : Goes(t, from, to)
    BY <1>3
  <2>1. PICK from \in Middle, to \in Middle \cap Phases(t) : Goes(t, from, to)
    BY <2>a
  <2>2. /\ PlacesType' /\ st[t] = from /\ st'[t] = to
        /\ \A u \in Tasks : u # t => st'[u] = st[u]
    BY <2>1, GoesOn DEF PlacesType
  <2> QED
    BY <1>1, <2>1, <2>2
<1> QED
  BY <1>2, <1>3 DEF GoOn

LEMMA TypeGoOn ==
  ASSUME TypeInv, GoOn
  PROVE  PlacesType' /\ CountsType' /\ StartInv' /\ (mpc \notin {"stop", "restarted"} => cnt > 0)'
<1>1. PlacesType /\ CountsType /\ StartInv
  BY TypeParts DEF TypeInv
<1>2. /\ PlacesType'
      /\ \A t \in Tasks : st'[t] = st[t] \/ {st[t], st'[t]} \subseteq Middle
      /\ UNCHANGED <<total_task, mpc, cnt, launches, reg, raced>>
  BY <1>1, GoOnKeeps
<1>3. \A t \in Tasks : Starting(t)' => Starting(t)
  BY <1>2 DEF Starting, Middle
<1>4. CountsType' /\ (mpc \notin {"stop", "restarted"} => cnt > 0)'
  BY <1>1, <1>2 DEF CountsType, TypeInv
<1>5. StartInv'
  BY <1>1, <1>2, <1>3 DEF StartInv
<1> QED
  BY <1>2, <1>4, <1>5

\* The main task's steps, but for the start of a task.
LEMMA TypeMain ==
  ASSUME TypeInv, MainTest \/ MainPin \/ MainWait \/ MainRestart
  PROVE  PlacesType' /\ CountsType' /\ StartInv' /\ (mpc \notin {"stop", "restarted"} => cnt > 0)'
<1>1. PlacesType /\ CountsType /\ StartInv /\ (mpc \notin {"stop", "restarted"} => cnt > 0)
  BY TypeParts DEF TypeInv
<1>2. CASE MainRestart
  <2>1. /\ st' = [t \in Tasks |-> "none"] /\ reg' = [t \in Tasks |-> 0]
        /\ total_task' = 0 /\ launches' = 0 /\ cnt' = 0 /\ mpc' = "restarted"
    BY <1>2 DEF MainRestart, Main
  <2>2. PlacesType'
    BY <2>1, SomePhases DEF PlacesType
  <2>3. CountsType'
    BY <2>1, GraceAssumption, LaunchAssumption DEF CountsType
  <2>4. StartInv'
    BY <2>1 DEF StartInv, Starting
  <2> QED
    BY <2>1, <2>2, <2>3, <2>4
<1>3. CASE MainTest \/ MainPin \/ MainWait
  <2>1. UNCHANGED <<total_task, launches, st, reg>>
    BY <1>3 DEF MainTest, MainPin, MainWait, taskVars
  <2>2. PlacesType'
    BY <1>1, <2>1 DEF PlacesType
  <2>3. /\ mpc' \in {"top", "sntp", "ftp", "pin", "wait", "stop", "restarted"} /\ cnt' \in 0..Grace
        /\ (mpc \notin {"stop", "restarted"} => cnt > 0)'
    <3>1. CASE MainTest \/ MainPin
      BY <1>1, <3>1 DEF MainTest, MainPin, Main, CountsType
    <3>2. CASE MainWait
      BY <1>1, <3>2, GraceAssumption DEF MainWait, CountsType
    <3> QED
      BY <1>3, <3>1, <3>2
  <2>4. CountsType'
    BY <1>1, <2>1, <2>3 DEF CountsType
  <2>5. StartInv'
    <3>1. \A t \in Tasks : ~Starting(t)
      <4>1. mpc \in {"top", "wait"} \/ Settled
        BY <1>3 DEF MainTest, MainPin, MainWait, Main
      <4> QED
        BY <1>1, <4>1 DEF StartInv, Settled, Starting
    <3> QED
      BY <2>1, <3>1 DEF StartInv, Starting
  <2> QED
    BY <2>2, <2>3, <2>4, <2>5
<1> QED
  BY <1>2, <1>3

LEMMA TypeLaunch ==
  ASSUME TypeInv, MainTask, ~(MainTest \/ MainPin \/ MainWait \/ MainRestart)
  PROVE  PlacesType' /\ CountsType' /\ StartInv' /\ (mpc \notin {"stop", "restarted"} => cnt > 0)'
<1>1. PlacesType /\ CountsType /\ StartInv /\ (mpc \notin {"stop", "restarted"} => cnt > 0)
  BY TypeParts DEF TypeInv
<1>2. PICK t \in Started : \E next \in {"ftp", "pin"} : Launch(t, next) \/ LaunchNot(t, next)
  BY DEF MainTask, Started
<1>3. PICK next \in {"ftp", "pin"} : Launch(t, next) \/ LaunchNot(t, next)
  BY <1>2
<1>4. \A u \in Tasks : ~Starting(u)
  BY <1>1, <1>3 DEF Launch, LaunchNot, StartInv, Settled, Starting
<1>5. /\ t \in Tasks /\ mpc' = next /\ UNCHANGED <<total_task, cnt, reg>>
      /\ mpc \notin {"stop", "restarted"}
  BY <1>3 DEF Launch, LaunchNot, taskVars, Tasks, Started
<1>6. CASE Launch(t, next)
  <2>1. st' = [st EXCEPT ![t] = "born"] /\ launches' = launches + 1 /\ launches < MaxLaunches
    BY <1>6 DEF Launch
  <2>2. PlacesType'
    BY <1>1, <1>5, <2>1, SomePhases DEF PlacesType
  <2>3. CountsType'
    BY <1>1, <1>5, <2>1, LaunchAssumption DEF CountsType
  <2>4. \A u \in Tasks : Starting(u)' => u = t
    BY <1>1, <1>4, <1>5, <2>1 DEF PlacesType, Starting
  <2>5. total_task' <= 2 + launches' /\ \A u \in Tasks : reg'[u] <= 2 + launches'
    BY <1>1, <1>5, <2>1, LaunchAssumption DEF CountsType
  <2>6. StartInv'
    BY <1>5, <2>4, <2>5 DEF StartInv
  <2> QED
    BY <1>1, <1>5, <2>2, <2>3, <2>6
<1>7. CASE LaunchNot(t, next)
  <2>1. UNCHANGED <<st, launches>>
    BY <1>7 DEF LaunchNot, taskVars
  <2>2. PlacesType' /\ CountsType'
    BY <1>1, <1>5, <2>1 DEF PlacesType, CountsType
  <2>3. StartInv'
    BY <1>4, <2>1 DEF StartInv, Starting
  <2> QED
    BY <1>1, <1>5, <2>2, <2>3
<1> QED
  BY <1>3, <1>6, <1>7

LEMMA Modulo == \A x \in Nat : x % 256 \in 0..x
  OBVIOUS

\* The two steps of counting, up or down.
LEMMA CountSteps ==
  ASSUME NEW t \in Tasks, Count(t)
  PROVE  \/ Goes(t, "born", "inc") /\ Load(t)
         \/ Goes(t, "inc", "run") /\ Store(t, (reg[t] + 1) % 256)
         \/ Goes(t, "end", "dec") /\ Load(t)
         \/ Goes(t, "dec", "none") /\ Store(t, IF reg[t] > 0 THEN reg[t] - 1 ELSE total_task)
  BY DEF Count, CountUp, CountDown

LEMMA TypeCount ==
  ASSUME TypeInv, NEW t \in Tasks, Count(t)
  PROVE  PlacesType' /\ CountsType' /\ StartInv' /\ (mpc \notin {"stop", "restarted"} => cnt > 0)'
<1>1. PlacesType /\ CountsType /\ StartInv /\ (mpc \notin {"stop", "restarted"} => cnt > 0)
  BY TypeParts DEF TypeInv
<1>2. /\ UNCHANGED <<launches, mpc, cnt>>
      /\ reg \in [Tasks -> 0..3 + launches] /\ launches \in Nat /\ total_task \in 0..3 + launches
  BY <1>1 DEF Count, CountUp, CountDown, Load, Store, mainVars, CountsType
<1>3. ASSUME NEW from, NEW to \in {"inc", "run", "dec", "none"}, Goes(t, from, to)
      PROVE  /\ PlacesType' /\ st[t] = from /\ st'[t] = to
             /\ \A u \in Tasks : u # t => st'[u] = st[u]
  <2>1. to \in Phases(t)
    BY SomePhases
  <2> QED
    BY <1>1, <1>3, <2>1, GoesOn DEF PlacesType
<1>4. ASSUME Load(t), \A u \in Tasks : Starting(u)' <=> Starting(u)
      PROVE  CountsType' /\ StartInv'
  <2>1. reg' = [reg EXCEPT ![t] = total_task] /\ UNCHANGED total_task
    BY <1>4 DEF Load
  <2>2. CountsType'
    BY <1>1, <1>2, <2>1 DEF CountsType
  <2>3. StartInv'
    BY <1>1, <1>2, <1>4, <2>1 DEF StartInv
  <2> QED
    BY <2>2, <2>3
<1>5. CASE Goes(t, "born", "inc") /\ Load(t)
  <2>1. PlacesType' /\ \A u \in Tasks : Starting(u)' <=> Starting(u)
    BY <1>3, <1>5 DEF Starting
  <2> QED
    BY <1>1, <1>2, <1>4, <1>5, <2>1
<1>6. CASE Goes(t, "end", "dec") /\ Load(t)
  <2>1. PlacesType' /\ \A u \in Tasks : Starting(u)' <=> Starting(u)
    BY <1>3, <1>6 DEF Starting
  <2> QED
    BY <1>1, <1>2, <1>4, <1>6, <2>1
<1>7. CASE Goes(t, "inc", "run") /\ Store(t, (reg[t] + 1) % 256)
  <2>1. PlacesType' /\ Starting(t) /\ \A u \in Tasks : Starting(u)' => Starting(u) /\ u # t
    BY <1>3, <1>7 DEF Starting
  <2>2. \A u \in Tasks : ~Starting(u)'
    BY <1>1, <2>1 DEF StartInv
  <2>3. total_task' = (reg[t] + 1) % 256 /\ reg' = [reg EXCEPT ![t] = 0]
    BY <1>7 DEF Store
  <2>4. reg[t] \in Nat /\ reg[t] <= 2 + launches
    BY <1>1, <1>2, <2>1 DEF StartInv
  <2>5. total_task' \in 0..3 + launches
    BY <1>2, <2>3, <2>4, Modulo
  <2>6. CountsType'
    BY <1>1, <1>2, <2>3, <2>5 DEF CountsType
  <2>7. StartInv'
    BY <2>2 DEF StartInv
  <2> QED
    BY <1>1, <1>2, <2>1, <2>6, <2>7
<1>8. CASE /\ Goes(t, "dec", "none")
           /\ Store(t, IF reg[t] > 0 THEN reg[t] - 1 ELSE total_task)
  <2>1. PlacesType' /\ \A u \in Tasks : Starting(u)' <=> Starting(u)
    BY <1>3, <1>8 DEF Starting
  <2>2. /\ total_task' = IF reg[t] > 0 THEN reg[t] - 1 ELSE total_task
        /\ reg' = [reg EXCEPT ![t] = 0]
    BY <1>8 DEF Store
  <2>3. CountsType'
    BY <1>1, <1>2, <2>2 DEF CountsType
  <2>4. StartInv'
    BY <1>1, <1>2, <2>1, <2>2 DEF StartInv
  <2> QED
    BY <1>1, <1>2, <2>1, <2>3, <2>4
<1> QED
  BY <1>5, <1>6, <1>7, <1>8, CountSteps

LEMMA TypeStep ==
  ASSUME TypeInv, [Next]_vars
  PROVE  TypeInv'
<1>1. FlagsType'
  BY FlagsStep, TypeParts DEF TypeInv
<1>2. PlacesType' /\ CountsType' /\ StartInv' /\ (mpc \notin {"stop", "restarted"} => cnt > 0)'
  BY NextCases, TypeGoOn, TypeMain, TypeLaunch, TypeCount
<1>3. TypeOK'
  BY <1>1, <1>2 DEF TypeOK, PlacesType, CountsType, FlagsType
<1> QED
  BY <1>2, <1>3 DEF TypeInv

LEMMA TypeInit == Init => TypeInv
<1> SUFFICES ASSUME Init PROVE TypeInv
  OBVIOUS
<1>1. PlacesType
  BY SomePhases DEF Init, PlacesType
<1>2. CountsType
  BY GraceAssumption, LaunchAssumption DEF Init, CountsType
<1>3. FlagsType
  BY DEF Init, FlagsType
<1>4. StartInv
  BY DEF Init, StartInv, Starting
<1>5. cnt > 0
  BY GraceAssumption DEF Init
<1> QED
  BY <1>1, <1>2, <1>3, <1>4, <1>5, TypeParts DEF TypeInv

LEMMA SpecType == Spec => []TypeInv
<1>1. TypeInv /\ [Next]_vars => TypeInv'
  BY TypeStep
<1> QED
  BY <1>1, TypeInit, PTL DEF Spec

\* Whatever updates are lost, total_task never wraps below zero and never exceeds
\* the number of tasks there have been; the main task's tries do not run below
\* zero (main.c:1064-1068).
THEOREM SpecTypeOK == Spec => []TypeOK
<1>1. TypeInv => TypeOK
  BY DEF TypeInv
<1> QED
  BY <1>1, SpecType, PTL

-----------------------------------------------------------------------------
\* The inductive invariant of the authentication: only while the TLS task reads
\* from its client is anybody authenticated.
AuthInv == auth => proved /\ st["tls"] \in {"read", "reading"}

LEMMA AuthStep ==
  ASSUME TypeInv, AuthInv, [Next]_vars
  PROVE  AuthInv'
<1> USE DEF AuthInv
<1>a. /\ PlacesType /\ auth \in BOOLEAN /\ proved \in BOOLEAN /\ eot \in BOOLEAN
      /\ restart_flag \in BOOLEAN
  BY TypeParts DEF TypeInv, FlagsType
\* Steps of others.
<1>b. ASSUME UNCHANGED <<auth, proved>>, st'["tls"] = st["tls"] PROVE AuthInv'
  BY <1>b
\* Nobody is authenticated anyway.
<1>c. ASSUME st["tls"] \notin {"read", "reading"}, UNCHANGED auth PROVE AuthInv'
  BY <1>c
<1>d. ASSUME NEW t \in Tasks \ {"tls"}, NEW from, NEW to, Goes(t, from, to) PROVE st'["tls"] = st["tls"]
  BY <1>a, <1>d DEF Goes, PlacesType, Tasks
<1>e. Started \subseteq Tasks \ {"tls"} /\ {"fmb", "log"} \subseteq Tasks \ {"tls"}
  BY DEF Tasks, Started
<1>1. CASE MainTask
  <2>1. CASE MainRestart
    BY <2>1 DEF MainRestart
  <2>2. CASE MainTest \/ MainPin \/ MainWait
    BY <2>2, <1>b DEF MainTest, MainPin, MainWait, tlsVars, taskVars
  <2>3. ASSUME NEW t \in Started, NEW next, Launch(t, next) \/ LaunchNot(t, next) PROVE AuthInv'
    <3>1. UNCHANGED <<auth, proved>>
      BY <2>3 DEF Launch, LaunchNot, tlsVars
    <3>2. st'["tls"] = st["tls"]
      BY <1>a, <1>e, <2>3 DEF Launch, LaunchNot, taskVars, PlacesType, Tasks
    <3> QED
      BY <1>b, <3>1, <3>2
  <2> QED
    BY <1>1, <2>1, <2>2, <2>3 DEF MainTask, Started
<1>2. ASSUME NEW t \in Tasks, Count(t) PROVE AuthInv'
  <2>1. UNCHANGED <<auth, proved>>
    BY <1>2 DEF Count, CountUp, CountDown, Load, Store, tlsVars
  <2>2. \E from \in {"born", "inc", "end", "dec"}, to \in {"inc", "run", "dec", "none"} :
          Goes(t, from, to)
    BY <1>2, CountSteps
  <2>3. CASE t = "tls"
    <3>1. st["tls"] \notin {"read", "reading"}
      BY <2>2, <2>3 DEF Goes
    <3> QED
      BY <1>c, <2>1, <3>1
  <2>4. CASE t # "tls"
    BY <1>b, <1>d, <2>1, <2>2, <2>4
  <2> QED
    BY <2>3, <2>4
<1>3. CASE Press \/ CpuReset \/ UNCHANGED vars
  BY <1>3, <1>b DEF Press, CpuReset, vars, tlsVars, taskVars
<1>4. CASE FmbLeaves \/ FmbEnds \/ LogEnds \/ LogClient \/ LogAlone \/ \E t \in Started : StartedEnds(t)
  <2>1. UNCHANGED <<auth, proved>>
    BY <1>4 DEF FmbLeaves, FmbEnds, LogEnds, LogClient, LogAlone, StartedEnds, Quiet, tlsVars
  <2>2. \E t \in {"fmb", "log"} \cup Started, from, to \in Middle : Goes(t, from, to)
    BY <1>4 DEF FmbLeaves, FmbEnds, LogEnds, LogClient, LogAlone, StartedEnds, Middle
  <2> QED
    BY <1>b, <1>d, <1>e, <2>1, <2>2
<1>5. CASE TlsTop \/ HandshakeFails \/ AcceptReturns \/ TlsQuit
  <2>1. st["tls"] \notin {"read", "reading"} /\ UNCHANGED auth
    BY <1>5 DEF TlsTop, HandshakeFails, AcceptReturns, TlsQuit, Goes, Quiet, tlsVars
  <2> QED
    BY <1>c, <2>1
<1>6. CASE HandshakeDone
  <2>1. st["tls"] \notin {"read", "reading"} /\ UNCHANGED auth
    BY <1>6 DEF HandshakeDone, Goes, Quiet, tlsVars
  <2> QED
    BY <1>c, <2>1
<1>7. CASE AcceptSees \/ ReadFails
  BY <1>7 DEF AcceptSees, ReadFails, Exit1
\* A read goes on, for the client that is authenticated, or ends for good.
<1>8. ASSUME NEW e, NEW au, TurnEnds(e, au), au => proved' PROVE AuthInv'
  <2>1. CASE Exit1("reading", e)
    BY <2>1 DEF Exit1
  <2>2. CASE Goes("tls", "reading", "read") /\ auth' = au
    <3>1. st'["tls"] = "read"
      BY <1>a, <2>2 DEF Goes, PlacesType, Tasks
    <3> QED
      BY <1>8, <2>2, <3>1
  <2> QED
    BY <1>8, <2>1, <2>2 DEF TurnEnds
<1>9. CASE ReadTest
  <2>1. CASE Exit1("read", eot)
    BY <2>1 DEF Exit1
  <2>2. CASE Goes("tls", "read", "reading") /\ UNCHANGED <<auth, proved>>
    <3>1. st'["tls"] = "reading"
      BY <1>a, <2>2 DEF Goes, PlacesType, Tasks
    <3> QED
      BY <2>2, <3>1
  <2> QED
    BY <1>9, <2>1, <2>2 DEF ReadTest
<1>10. CASE ReadTimeout
  <2>1. auth /\ TurnEnds(eot, auth) /\ UNCHANGED proved
    BY <1>10 DEF ReadTimeout
  <2> QED
    BY <1>8, <2>1
<1>11. ASSUME NEW asks \in Started \cup {"auth", "restart", "other"}, ReadData(asks)
       PROVE  AuthInv'
  <2>1. TurnEnds(eot', auth \/ asks = "auth") /\ proved' = (proved \/ asks = "auth")
    BY <1>11 DEF ReadData, Obeys
  <2>2. (auth \/ asks = "auth") => proved'
    BY <2>1
  <2> QED
    BY <1>8, <2>1, <2>2
<1> QED
  BY <1>1, <1>2, <1>3, <1>4, <1>5, <1>6, <1>7, <1>9, <1>10, <1>11
     DEF Next, Done, TlsServer, TlsClient

\* Nobody is taken for authenticated who has not given the hash on the connection he
\* is heard on, however the client before him left (tls_srv.c:105, 527-560, 667-675).
THEOREM SpecAuthIsOfThisClient == Spec => []AuthIsOfThisClient
<1>1. Init => AuthInv
  BY DEF Init, AuthInv
<1>2. TypeInv /\ AuthInv /\ [Next]_vars => AuthInv'
  BY AuthStep
<1>3. AuthInv => AuthIsOfThisClient
  BY DEF AuthInv, AuthIsOfThisClient
<1> QED
  BY <1>1, <1>2, <1>3, SpecType, PTL DEF Spec

-----------------------------------------------------------------------------
\* The inductive invariant of the counter, as long as no two tasks were between load
\* and store at the same time: what the one task there has loaded is still the
\* value, and nobody counts on a main task that has waited for all.
CountInv ==
  ~raced =>
    /\ total_task = Cardinality(Open)
    /\ \A t \in Tasks : Between(t) =>
         /\ reg[t] = total_task
         /\ \A u \in Tasks : Between(u) => u = t
    /\ mpc = "stop" /\ cnt > 0 => \A t \in Tasks : st[t] = "none"

\* There are five tasks.
LEMMA OpenSize ==
  IsFiniteSet(Open) /\ Cardinality(Open) \in 0..5
<1>1. IsFiniteSet(Tasks) /\ Cardinality(Tasks) = 5
  <2>1. Tasks = ((({"fmb"} \cup {"tls"}) \cup {"log"}) \cup {"sntp"}) \cup {"ftp"}
    BY DEF Tasks, Started
  <2>2. IsFiniteSet({"fmb"}) /\ Cardinality({"fmb"}) = 1
    BY FS_Singleton
  <2>3. /\ IsFiniteSet({"fmb"} \cup {"tls"})
        /\ Cardinality({"fmb"} \cup {"tls"}) = 2
    BY <2>2, FS_AddElement
  <2>4. /\ IsFiniteSet(({"fmb"} \cup {"tls"}) \cup {"log"})
        /\ Cardinality(({"fmb"} \cup {"tls"}) \cup {"log"}) = 3
    BY <2>3, FS_AddElement
  <2>5. /\ IsFiniteSet((({"fmb"} \cup {"tls"}) \cup {"log"}) \cup {"sntp"})
        /\ Cardinality((({"fmb"} \cup {"tls"}) \cup {"log"}) \cup {"sntp"}) = 4
    BY <2>4, FS_AddElement
  <2> QED
    BY <2>1, <2>5, FS_AddElement
<1>2. Open \in SUBSET Tasks
  BY DEF Open
<1>3. IsFiniteSet(Open) /\ Cardinality(Open) <= 5
  BY <1>1, <1>2, FS_Subset
<1> QED
  BY <1>3, FS_CardinalityType

\* A task that counts itself.
LEMMA CountCount ==
  ASSUME TypeInv, CountInv, NEW t \in Tasks, Count(t)
  PROVE  CountInv'
<1> SUFFICES ASSUME ~raced'
             PROVE  /\ total_task' = Cardinality(Open')
                    /\ \A u \in Tasks : Between(u)' =>
                         /\ reg'[u] = total_task'
                         /\ \A w \in Tasks : Between(w)' => w = u
                    /\ mpc' = "stop" /\ cnt' > 0 => \A u \in Tasks : st'[u] = "none"
  BY DEF CountInv
<1>a. PlacesType /\ reg \in [Tasks -> Nat] /\ total_task \in Nat /\ raced \in BOOLEAN
  BY TypeParts DEF TypeInv, CountsType, FlagsType
<1>b. ~raced /\ UNCHANGED <<mpc, cnt>>
  BY <1>a DEF Count, CountUp, CountDown, Load, Store, mainVars
<1>c. /\ total_task = Cardinality(Open)
      /\ \A u \in Tasks : Between(u) =>
           /\ reg[u] = total_task
           /\ \A w \in Tasks : Between(w) => w = u
      /\ mpc = "stop" /\ cnt > 0 => \A u \in Tasks : st[u] = "none"
  BY <1>b DEF CountInv
<1>d. \E from \in {"born", "inc", "end", "dec"} : st[t] = from
  BY CountSteps DEF Goes
<1>e. ~(mpc' = "stop" /\ cnt' > 0)
  BY <1>b, <1>c, <1>d
<1>1. ASSUME Load(t), \E from \in {"born", "end"}, to \in {"inc", "dec"} :
               /\ st[t] = from /\ st' = [st EXCEPT ![t] = to]
               /\ from = "born" <=> to = "inc"
      PROVE  /\ total_task' = Cardinality(Open')
             /\ \A u \in Tasks : Between(u)' =>
                  /\ reg'[u] = total_task'
                  /\ \A w \in Tasks : Between(w)' => w = u
  <2>1. /\ reg' = [reg EXCEPT ![t] = total_task] /\ UNCHANGED total_task
        /\ \A u \in Tasks \ {t} : ~Between(u)
    BY <1>1 DEF Load
  <2>2. Open' = Open
    BY <1>1, <1>a DEF Open, PlacesType
  <2>3. \A u \in Tasks : Between(u)' => u = t
    BY <1>1, <1>a, <2>1 DEF Between, PlacesType
  <2>4. reg'[t] = total_task'
    BY <1>a, <2>1
  <2> QED
    BY <1>c, <2>1, <2>2, <2>3, <2>4
<1>2. ASSUME Goes(t, "inc", "run"), Store(t, (reg[t] + 1) % 256)
      PROVE  /\ total_task' = Cardinality(Open')
             /\ \A u \in Tasks : ~Between(u)'
  <2>1. st[t] = "inc" /\ st' = [st EXCEPT ![t] = "run"] /\ DOMAIN st = Tasks
    BY <1>2, <1>a DEF Goes, PlacesType
  <2>2. reg[t] = Cardinality(Open) /\ \A u \in Tasks : Between(u) => u = t
    BY <1>c, <2>1 DEF Between
  <2>3. total_task' = Cardinality(Open) + 1
    BY <1>2, <2>2, OpenSize DEF Store
  <2>4. Open' = Open \cup {t} /\ t \notin Open
    BY <2>1 DEF Open
  <2>5. Cardinality(Open') = Cardinality(Open) + 1
    BY <2>4, OpenSize, FS_AddElement
  <2>6. \A u \in Tasks : ~Between(u)'
    BY <2>1, <2>2 DEF Between
  <2> QED
    BY <2>3, <2>5, <2>6
<1>3. ASSUME Goes(t, "dec", "none"),
             Store(t, IF reg[t] > 0 THEN reg[t] - 1 ELSE total_task)
      PROVE  /\ total_task' = Cardinality(Open')
             /\ \A u \in Tasks : ~Between(u)'
  <2>1. st[t] = "dec" /\ st' = [st EXCEPT ![t] = "none"] /\ DOMAIN st = Tasks
    BY <1>3, <1>a DEF Goes, PlacesType
  <2>2. reg[t] = Cardinality(Open) /\ \A u \in Tasks : Between(u) => u = t
    BY <1>c, <2>1 DEF Between
  <2>3. Open' = Open \ {t} /\ t \in Open
    BY <2>1 DEF Open
  <2>4. Cardinality(Open') = Cardinality(Open) - 1
    BY <2>3, OpenSize, FS_RemoveElement
  <2>5. Cardinality(Open) > 0
    BY <2>3, OpenSize, FS_EmptySet
  <2>6. total_task' = Cardinality(Open) - 1
    BY <1>3, <2>2, <2>5, OpenSize DEF Store
  <2>7. \A u \in Tasks : ~Between(u)'
    BY <2>1, <2>2 DEF Between
  <2> QED
    BY <2>4, <2>6, <2>7
<1>4. CASE Goes(t, "born", "inc") /\ Load(t)
  BY <1>1, <1>4, <1>e DEF Goes
<1>5. CASE Goes(t, "end", "dec") /\ Load(t)
  BY <1>1, <1>5, <1>e DEF Goes
<1>6. CASE Goes(t, "inc", "run") /\ Store(t, (reg[t] + 1) % 256)
  BY <1>2, <1>6, <1>e
<1>7. CASE /\ Goes(t, "dec", "none")
           /\ Store(t, IF reg[t] > 0 THEN reg[t] - 1 ELSE total_task)
  BY <1>3, <1>7, <1>e
<1> QED
  BY <1>4, <1>5, <1>6, <1>7, CountSteps

\* The main task.  It stops waiting before its time only when there are no open
\* tasks, and no task is on its way to count itself.
LEMMA CountMain ==
  ASSUME TypeInv, CountInv, MainTask
  PROVE  CountInv'
<1>a. /\ PlacesType /\ StartInv /\ raced \in BOOLEAN
      /\ cnt \in 0..Grace /\ total_task \in Nat
  BY TypeParts DEF TypeInv, CountsType, FlagsType
<1>1. CASE MainRestart
  <2>1. /\ st' = [t \in Tasks |-> "none"] /\ total_task' = 0 /\ mpc' = "restarted"
    BY <1>1 DEF MainRestart, Main
  <2>2. Open' = {} /\ \A t \in Tasks : ~Between(t)'
    BY <2>1 DEF Open, Between
  <2> QED
    BY <2>1, <2>2, FS_EmptySet DEF CountInv
<1>2. CASE MainTest \/ MainPin
  <2>1. UNCHANGED <<st, reg, total_task, raced>> /\ mpc' # "stop"
    BY <1>2 DEF MainTest, MainPin, Main, taskVars
  <2>2. Open' = Open /\ \A t \in Tasks : Between(t)' <=> Between(t)
    BY <2>1 DEF Open, Between
  <2> QED
    BY <2>1, <2>2 DEF CountInv
<1>3. CASE MainWait
  <2>1. /\ UNCHANGED <<st, reg, total_task, raced>> /\ mpc = "wait"
        /\ total_task = 0 \/ ~(mpc' = "stop" /\ cnt' > 0)
    BY <1>3, <1>a DEF MainWait, taskVars
  <2>2. Open' = Open /\ \A t \in Tasks : Between(t)' <=> Between(t)
    BY <2>1 DEF Open, Between
  <2>3. ASSUME ~raced, mpc' = "stop", cnt' > 0 PROVE \A t \in Tasks : st[t] = "none"
    <3>1. Cardinality(Open) = 0
      BY <2>1, <2>3 DEF CountInv
    <3>2. Open = {}
      BY <3>1, OpenSize, FS_EmptySet
    <3>3. \A t \in Tasks : ~Starting(t)
      BY <1>a, <2>1 DEF StartInv
    <3> QED
      BY <3>2, <3>3 DEF Open, Starting
  <2> QED
    BY <2>1, <2>2, <2>3 DEF CountInv
<1>4. ASSUME NEW t \in Started, NEW next \in {"ftp", "pin"}, Launch(t, next) \/ LaunchNot(t, next)
      PROVE  CountInv'
  <2>1. UNCHANGED <<reg, total_task, raced>> /\ mpc' # "stop"
    BY <1>4 DEF Launch, LaunchNot, taskVars
  <2>2. \/ UNCHANGED st
        \/ /\ st[t] = "none" /\ st' = [st EXCEPT ![t] = "born"] /\ DOMAIN st = Tasks
    BY <1>4, <1>a DEF Launch, LaunchNot, taskVars, PlacesType
  <2>3. Open' = Open /\ \A u \in Tasks : Between(u)' <=> Between(u)
    BY <2>2 DEF Open, Between
  <2> QED
    BY <2>1, <2>3 DEF CountInv
<1> QED
  BY <1>1, <1>2, <1>3, <1>4 DEF MainTask, Started

LEMMA CountStep ==
  ASSUME TypeInv, CountInv, [Next]_vars
  PROVE  CountInv'
<1>1. CASE GoOn
  <2>1. PlacesType
    BY TypeParts DEF TypeInv
  <2>2. /\ \A t \in Tasks : st'[t] = st[t] \/ {st[t], st'[t]} \subseteq Middle
        /\ UNCHANGED <<total_task, mpc, cnt, reg, raced>>
    BY <1>1, <2>1, GoOnKeeps
  <2>3. Open' = Open
    BY <2>2 DEF Open, Middle
  <2>4. \A t \in Tasks : /\ Between(t)' <=> Between(t)
                         /\ st[t] = "none" => st'[t] = "none"
    BY <2>2 DEF Between, Middle
  <2> QED
    BY <2>2, <2>3, <2>4 DEF CountInv
<1> QED
  BY <1>1, NextCases, CountMain, CountCount

LEMMA CountInit == Init => CountInv
<1> SUFFICES ASSUME Init PROVE CountInv
  OBVIOUS
<1>1. /\ st = [t \in Tasks |-> IF t \in Started THEN "none" ELSE "run"]
      /\ total_task = 3 /\ mpc = "top"
  BY DEF Init
<1>2. Open = ({"fmb"} \cup {"tls"}) \cup {"log"}
  BY <1>1 DEF Open, Tasks, Started
<1>3. IsFiniteSet({"fmb"}) /\ Cardinality({"fmb"}) = 1
  BY FS_Singleton
<1>4. IsFiniteSet({"fmb"} \cup {"tls"}) /\ Cardinality({"fmb"} \cup {"tls"}) = 2
  BY <1>3, FS_AddElement
<1>5. Cardinality(({"fmb"} \cup {"tls"}) \cup {"log"}) = 3
  BY <1>4, FS_AddElement
<1>6. \A t \in Tasks : ~Between(t)
  BY <1>1 DEF Between
<1> QED
  BY <1>1, <1>2, <1>5, <1>6 DEF CountInv

\* As long as no two tasks count themselves at the same time, the main task that
\* stops waiting before its tries are used up has waited for all tasks
\* (main.c:1064-1068).
THEOREM SpecWaitsForTasks == Spec => []WaitsForTasks
<1>1. TypeInv /\ CountInv /\ [Next]_vars => CountInv'
  BY CountStep
<1>2. CountInv => WaitsForTasks
  BY DEF CountInv, WaitsForTasks
<1> QED
  BY <1>1, <1>2, CountInit, SpecType, PTL DEF Spec
=============================================================================

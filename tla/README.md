# TLA+ models of esp_fmb630

`esp_fmb630` is firmware for an ESP32 that plays the part of a Teltonika FMB630
vehicle tracker.  It connects to a telemetry server over TCP, sends records of a
vehicle's sensors, takes commands, switches relays and output pins on request and,
in work mode 1, drives an imaginary vehicle along a list of compass directions,
parks and stops.  Next to it run a log server, a TLS control server, an SNTP client
and an FTP client that replaces the configuration file.

This directory holds TLA+ modules translated from the C source, the TLC
configurations that check them on small instances, and proofs, for all values of the
constants, of their invariants, their step properties and the two refinements.  `PROJECT.json` lists the
components, the runs, the mutants each property is tested with, the source lines of
every definition, the disagreements found between code and comments, and the
hazards.

    tlc -workers 2 -config FmbSession_quiet.cfg MCFmbSession     # one run
    tlapm FmbSessionProofs.tla                                   # one proof module

## 1. Inventory

### Components

| component | source | state it keeps | operations |
|---|---|---|---|
| session with the telemetry server | `fmb630.c` `fmb630_task` | `faza`, `first`, `grant`, `wait_ack`, `Vixod`, `err`, `kol_pack`, `lenr`/`ind`/`from_server`, `lenr_wait`, `tmr_send`, `tmr_ack` | connect, send IMEI, take the grant, send a record, read one byte, finish a frame, time out, close |
| commands, relays and pins | `fmb630.c` `parse_cmd` and the end of the session's loop | `box`, `tmr_box`, `pin`, `tmr_pin`, the reported values in `mirror` | `SET_ALL`, `SET_ON`, `SET_OFF`, `setdigout`, `DO REPORT`, `cpureset`, seven that only read; the sweep of the timers |
| scenario of the vehicle | `fmb630.c` `make_record` | `scena_index`, `scena_kols`, `cdut`, `send_period`, the sensors in `mirror` | one sample per record: Park, a move, Stop |
| scenario list and configuration file | `fmb630.c` `add_ones`, `get_ones`, `read_cfg`; `main.c` | the linked list, the parameters, the file on card and disk | build the list, find an entry, copy the card's file to the disk, choose between card, disk and defaults |
| timers | `main.c` `get_tmr`, `check_tmr` | a 32-bit count of 100 ms ticks | arm, ask whether due |
| restart | `main.c` `app_main`, all tasks | `restart_flag`, `total_task` | ask for a restart (pin, command, TLS client), stop every task, restart the chip |
| log server | `tcp_srv.c`, `print_msg` in `main.c` | a queue of eight messages, `tcpCli` | print, queue, accept a client, send |
| FTP client | `ftp_cli.c`; its start in `main.c` | control and data connection, `response`, the local file, what is mounted | mount, login, fetch `conf.txt`, quit, unmount |
| TLS control server | `tls_srv.c` | one client, authentication, a timeout | authenticate, read and set parameters, restart |
| SNTP client | `sntp_cli.c` | a retry count | set the clock |
| WiFi and boot | `main.c` | NVS parameters, event group | start-up in one fixed order, reconnect |
| display | `ssd1306.c` | nothing the program reads | draw |

### How they interact

* The session task is the only caller of `parse_cmd` and `make_record`; relays, pins,
  the scenario and the session change in one thread of control.  `mirror` is copied
  under `mirror_mutex`, changed, and copied back.
* Timers tick in the SDK's timer task and are read without a lock, one aligned word
  at a time.
* `restart_flag` and `total_task` are shared by every task on both cores, without a lock.
* Every task prints through `print_msg`, which feeds the log server's queue.
* The TLS client asks for a fetch through `ftp_go_flag` and `to_sd`; the main loop mounts
  the medium and creates the FTP task, whose `ftp_start` keeps the loop from unmounting
  it.  The FTP client writes the file that `read_cfg` reads at the next boot.
* The telemetry server is another program; it is known only from what the device
  sends it and does with what comes back.

### What is hard about it, and what must hold

* **Framing.**  Acknowledgements (4 bytes) and commands (8 + n + 4 bytes) share one
  stream that is read one byte per turn of the loop; the kind of frame is told by its
  fourth byte; the buffer is reset in four places, one of them when a record is sent.
  The device must stay in step with the stream, must not take other bytes for an
  acknowledgement and must execute each command once, in order.
* **Waiting.**  Sends fail or are cut short, the server stops answering, closes, or
  answers late; somebody asks for a restart meanwhile.  Every wait ends, and a
  restart stops the task unless the TLS task takes it back.
* **Timers and commands.**  A relay may be switched on for a time, then without one,
  named by one command and re-armed by another; its timer may run out between two
  sessions.  Timer, relay, pin and report must agree.
* **The scenario** depends on the pump, which commands and timers change between any
  two samples, and shares the ignition with the relay commands.  The vehicle may not drive off with its doors open or half fuelled,
  and must not wait for ever.
* **Restart** is a race of five tasks, a counter that is not atomic and a main loop
  that looks at the flag only now and then.
* **The log queue** is bounded, shared, and survives its client.  **The FTP client**
  overwrites the configuration before it knows whether a new one is coming, on a
  connection that may be refused, cut short or lost at every step, without a timeout;
  power may be lost while it writes.  What is then read must still be a configuration.

`PROJECT.json` has the full list of hazards, each at its line.

## 2. Plan

Order of work; all but 8 is done.

1. `FmbSession` — the session; `StopAndWait`, what it promises the server.
2. `FmbRelay` — relays, pins, timers and what is reported of them.
3. `FmbScenario` — the scenario.
4. `Restart` — the main loop, the pin's interrupt, `total_task` (load and store as two
   steps), the part of each of the five tasks that takes notice of a restart, and the
   TLS server with its clients' authentication.
5. `NetLog` — `print_msg`, the bounded queue and `net_log_task`; `LossyFifo`, what it
   promises those who read the log.
6. `ConfText`, `FtpGet`, `ConfFile` — the configuration file: what `read_cfg` makes of a
   text, the FTP client that fetches it, and the boot that copies and reads it.
7. Proofs of every invariant and step property of the runs and of the refinements of
   `StopAndWait` and `LossyFifo` (section 5).
8. Timers with a wrapping 32-bit tick, as operators with lemmas that say when the time
   left, which 2 keeps, is what `check_tmr` computes.

Compositions: session and scenario share `mirror` and the send timer; what one needs
of the other is an action of the module (`Pump` and `IgnitionCommand` in `FmbScenario`,
`connected` in `FmbRelay`, `CpuReset` in `Restart`, `TakeBack` in `FmbSession`), so that neither state space multiplies the other's.  The FTP
client, its server, the file and the boot that reads it are composed in `ConfFile`, because
what they must do together is a property of none of them alone.

## 3. Modules

| module | is |
|---|---|
| `FmbSession` | the session with the telemetry server |
| `StopAndWait` | the abstract specification of the flow of records |
| `FmbRelay` | commands, relays, pins and their timers |
| `FmbScenario` | the scenario of work mode 1 |
| `Restart` | how a restart of the chip comes about, or is lost |
| `NetLog` | the log queue, the tasks that print and the log server |
| `LossyFifo` | the abstract specification of the log: a channel that loses, and does nothing else wrong |
| `ConfText` | texts of a configuration file and what `read_cfg` makes of them; operators only |
| `FtpGet` | the FTP client, its server and the file it writes; extends `ConfText` |
| `ConfFile` | boot, main loop, restart and loss of power around `FtpGet` |
| `MCFmbSession`, `MCFmbRelay`, `MCFmbScenario`, `MCRestart`, `MCNetLog`, `MCConfFile` | their constants for TLC |
| `FmbSessionProofs` | theorems about the session, whatever the server sends |
| `FmbQuietProofs` | theorems about the session with the server of `session_quiet` |
| `FmbRelayProofs`, `FmbScenarioProofs`, `RestartProofs`, `NetLogProofs`, `ConfFileProofs` | theorems about the module of that name (`ConfFileProofs`: about `FtpGet` and `ConfText` too) |

Definitions that begin with the comment `Mutant:` are variants of the definition
below them with a plausible bug.  Nothing uses them; replacing the definition by the
variant must make TLC report the property that `PROJECT.json` names.

### FmbSession

`pc` cuts a turn of the code's loop into the points at which other actors can act:
`outer` (top of the outer loop), `loop` (top of the inner loop), `recv` (before
`recv()`), `check` (before the acknowledgement timer is looked at), `close`
(`out_of_job`), `done` (after both loops).  Variables keep the code's names; `rx` is
`from_server[0..lenr-1]`, so `lenr` and `ind`, which are always equal in phase 2, are
its length.  `err` is the set of bits that are 1.

Each branch of the `switch (faza)` is an action: `SendImei`, `ToRecv`, `RecvLogin`
(phase 0), `Grant` (phase 1), `SendRecord`, `SendNothing` and the reception of one byte,
`RecvMore`, `RecvHeader`, `RecvCommand`, `RecvAck`, according to where the frame stands
(phase 2).  `RecvNothing` is a turn with nothing to read, `RecvClosed` a `recv()` that
returns 0.  `SendRecord` and `RecvCommand` have an outcome parameter for a `send()`
that takes less than the message and for a failed allocation.

The connection is two FIFO queues: `up` of messages, because the server's side of the
framing is not the code's, and `down` of frames, with `off` the number of bytes of the
first one that have been read.  The bytes are those the code looks at: the fourth, the
length, the first of the payload.  TCP neither loses nor reorders; what can fail is
the connection (`SrvClose`, short sends).  Data that the server sent before it closed
is still read.

`sendDue` and `ackDue` say that the timers have expired.  Arming a timer clears its
flag; the clock sets it at any later moment.  `restart_flag` is set at any moment by
somebody else, and cleared at any moment, once, by the TLS task that ends (`TakeBack`,
`tlsTask`); also within `RecvCommand`, between `cpureset` and the look at the flag that
follows it.

### FmbRelay

`box`, `tmr_box`, `pin`, `tmr_pin` are the arrays of the code; `dout` and `ignition` are
`mirror.io1.val_dout*` and `val_din1`/`val_ignition`.  A timer is the time left
instead of the tick at which it ends, `NotArmed` the code's 0.  `SetAll`, `SetOne`,
`SetDigout` are the four commands; they work on the copies `bx` and `pn`, and
`SetAllError` is a `SET_ALL` whose later entries do not parse, which has changed its copy
by then and drops it (`Kept`).  `Sweep` is the end of a turn of the loop, with all relays and pins in one step
because nothing else writes them.  `Tick` is 100 ms; the units of `MaxTime` are ticks.
`named` is history: the relays the last command named.

### FmbScenario

One action per kind of entry; `Sample` is the code after the `switch`, which all of
them end with.  The eight compass directions have the same effect on everything
modelled and are one kind, `Move`.  `Pump` is a command or timer changing output 1
between two records, `IgnitionCommand` a command for relays 7 and 8, which sets the
reported ignition in any work mode; `byCommand` is history, the ignition was last set by
such a command.  `fuel` is the sensor reading `val_ain1`, which grows as the tank
empties, modulo `FuelMod` as `uint16_t` is; `stay` is history, the number of
records made in the current entry.

`MovesPerLap`, the samples of movement in one round of the list, is what `TankHolds` is
conditional on.  An entry with 0 samples counts as one, because the code makes the
sample before it looks at the number.

### Restart

`mpc` cuts a turn of the main loop into the test of the flag (`top`), the start of the
SNTP and the FTP task, the reading of the pin's queue (`pin`), and after the loop the
wait for the tasks (`wait`) and the restart (`stop`, `restarted`).  `st[t]` says where
each of the other tasks is.  A task that was created counts itself up (`born`, `inc`,
`run`) and down before it is deleted (`end`, `dec`, `none`); `inc` and `dec` lie between
the load and the store of `total_task++` and `if (total_task) total_task--`, so that
two tasks may lose one another's update, as they may on two cores.  What the session,
the log server, SNTP and FTP do otherwise is left out; of the TLS task its loops are
kept, with `eot` and `auth`, and of its clients what they ask for (`Obeys`).  History:
`raced`, two tasks have been between load and store at the same time; `proved`, the
client now connected has given the hash.

`Settled` is the one assumption on timing: the main task waits 500 ms after it has
created a task, and the task has counted itself by then.  The model is of the build as
configured: `SET_ISR_PIN`, `SET_SNTP`, `SET_FTP_CLI`, `SET_TLS_SRV` and `SET_NET_LOG` on,
`UDP_SEND_BCAST` and `SET_TIMEOUT60` off.

### NetLog

A task prints in two steps, as the code does: it looks at `tcpCli` (`PrintMsg`) and queues
its copy of the text (`Put`), with no lock between them, so that a client may come or
go meanwhile.  `lpc` is where `net_log_task` stands: in `accept()`, before its own
message about the new client, serving, after a failure, before the socket is closed.
Its messages go into the queue it empties itself.  `heap` is the set of messages
allocated and not freed; `evt` the one that could not be sent.  `send()` fails for a
client that is gone or too slow, `calloc()` may fail, and a full queue drops the newest
message, which is freed in the same step (`tcp_srv.c:110-112`).  `heap` being a set, `NoLeak`
sees a message that is lost or freed too early, but not one that is freed twice.  `got` is history: what the present client has received.

To `LossyFifo` a message is known by its task and its number there.  What is queued and
what the tasks have in hand is in transit; what has been taken from the queue and not
been sent is lost; a client that is accepted is a new reader.

### ConfText

A text on a medium is a beginning of a file somebody wrote: `of` names the file, `n`
counts its whole lines, `part` says whether a piece of the next one follows that the code
takes for a line.  That is all a transfer cut short, a copy cut short by the
2047 bytes of `rdFile` or a loss of power can leave, and all `read_cfg` can tell apart.  A
line names a parameter or is an entry of the scenario list; `Value` keeps where a
parameter's value is from instead of the value, and `Entries` which line of which file an
entry is.  `ReadCfg` has the effects of `read_cfg` on its two outputs, which differ:
the parameters are replaced only by a file that has enough of them, the list is extended
line by line.

### FtpGet

`fpc` names the reply the task waits for (`greet`, `user`, `pass`, `type`, `pasv`, `retr`,
`refused`, `final`, `quit`) or what it does next (`wait` for the WiFi, `open` the file,
`read` the data, `end`).  An action reads a reply, does all the code does with it, and
sends the next command.  `ReadResponse` blocks until a reply is there or the connection is
lost; then `response` keeps the digit of the reply before, as the buffer does.  `Awaits`
is the condition on which `closeFtpClient` waits for one more reply.

The server (external) answers each command with a digit the protocol allows, may send
the file whole or in part, and may be lost at any point, with or without the replies it
sent last; `asked` is the command it has not answered yet.  The file goes over the data
connection line by line, `sent` counts them.  History: `fallback` is what the medium should
hold if the fetch fails, `sure` the media whose file the server has confirmed.

### ConfFile

`mpc` goes through the boot (`card`, `disk`, `copy`, `read`, `start`) and then alternates
between the two halves of the main loop's turn that matter here (`loop`, before what is
mounted is unmounted; `launch`, before a fetch is started).  A restart goes through
`stopping`, the wait of up to 3 s for the other tasks, and `unmounted`, the 2 s after
everything has been unmounted.  The FTP client does not look at `restart_flag` and may run
all the time: what it had not yet written is lost with the unmount (`Lost`), `Put` no longer
reaches the file and `Open` fails.  `Reset` is the restart itself, or a loss of power at
any moment: memory is lost, a file that was open may be cut anywhere, and `PowerOn` may
find another file on the card.  `gps_ini` and `ones` hold what the boot has
found until `fmb630_task` is created with it; nothing changes them afterwards, so they are
not kept.

## 4. Runs

| run | shows |
|---|---|
| `session_quiet` | for a server that sends commands only while it withholds an acknowledgement: the device stays in step with the stream (`InFrame`), nothing else is taken for an acknowledgement (`NoFalseAck`), an acknowledgement always carries the size of the outstanding packet (`AckMatchesPacket`), commands are executed once and in order (`CommandsInOrder`) and, unless the session ends, at all (`CommandsServed`); the session implements `StopAndWait` (`StopAndWaitRecords`).  `QuietInv` is the inductive invariant behind these. |
| `session_anytime` | whatever the server sends, and whenever: no record without a grant (`NoRecordUngranted`), no session ends for no reason (`EndsForAReason`), every wait ends (`WaitEnds`), a restart stops the task unless the TLS task, ending, takes it back (`RestartStops`); see `restart_lost` for what then becomes of it. |
| `session_falseack` | **violation**: without the restriction of `session_quiet`, `NoFalseAck` fails (see 7). |
| `relay` | timers agree with what is on (`TimersMatch`), the report with the pins (`PinsReported`), a relay changes only by its own command or timer (`ChangesOnlyWhenNamed`), what is on for a time goes off (`TimedGoesOff`). |
| `relay_ignition` | **violation**: the reported ignition stays on after the timers switched both ignition relays off. |
| `scenario` | the vehicle moves only closed, not parked and, unless a relay command has switched it, with the ignition on (`MovesReady`), leaves a Park only with the pump released and the tank half full (`LeavesParkReady`), does not run dry on a short enough round (`TankHolds`), and waits no longer than the pump makes it (`WaitsEnd`). |
| `scenario_stop` | **violation**: a Stop does not last the number of samples the list gives. |
| `restart` | however updates of `total_task` are lost, it never leaves the range of the tasks there are (`TypeOK`); if no two tasks count at the same time it is exact, and the main task that stops waiting early has waited for all (`WaitsForTasks`); an authentication never passes to the next TLS client (`AuthIsOfThisClient`); a restart that the pin or the TLS client asked for, or that finds the TLS server waiting for a client, happens (`AssuredRestarts`). |
| `restart_lost` | **violation**: not every restart asked for happens (see 7). |
| `netlog` | every message is freed exactly when it is sent, has failed or finds no room (`NoLeak`); a client receives each task's messages in order and once (`InOrder`); over all clients no message is received twice, late or without having been printed: `NetLog` implements `LossyFifo` (`ImplementsLossyFifo`); what a client receives of its predecessors is bounded by the queue and the tasks in the middle of printing (`StaleBounded`); whatever is queued is taken while a client is connected (`Drains`). |
| `conffile` | a fetch that fails leaves what was there, or no file, unless a restart has unmounted its medium (`FailureIsClean`); the task that ends has given everything back (`Released`); client and server never misunderstand each other or wait for each other (`InStep`); the main loop unmounts no medium under the open file, only a restart does, after its wait (`MountedWhileOpen`); every fetch ends (`FtpEnds`).  However files were cut short, the parameters in use are all of one file or all defaults, and the scenario list is that file's, after at most the entries of a rejected one (`Configured`); a file that was fetched whole and confirmed is there until it is fetched again or the user removes it (`SureKept`). |
| `conffile_success` | **violation**: a fetch that returns 1 need not have fetched the file (see 7). |

### Bounds, and why they are enough

* Session: 2 records, 2 commands (1 in `session_anytime`), packets of 1 or 2 samples
  (`max_pk` is 3 in the code; 2 lets `kol_pack` wrap within two records), payloads of 2 bytes.  Two records make the second one
  depend on how the first ended, and a command can fall before, inside and after the
  wait for either.  Sessions repeat without bound: the counters are those of one
  session, and `ConnectOk` starts them again.  Three commands stand for twelve: the one
  that moves `tmr_send`, the one that restarts, and one of the rest (the first two in
  `session_quiet`, the one that restarts in `session_anytime`, whose properties depend on
  no other).  The payload's
  length only shifts the end of the frame; its value is not zero, so the length field
  has a byte that could be taken for the fourth of an acknowledgement.
* Relays: three (7, 8 and one other), two pins, times up to 2 ticks, two commands.
  Entries of one relay are independent of the others' except for the ignition, which
  looks at 7 and 8.  Two commands show one re-arming, overriding or leaving alone what
  the other set.
* Scenario: eight lists with the shapes of `conf.txt`, several Parks and Stops, a
  round too long for the tank, entries of no samples, lists that are not well formed, and
  the empty one.  The
  tank is scaled down from 750..3300 to 3..10; the relation that matters, that half the
  range is more than the reading of a full tank, is `FuelAssumption`.
* Restart: two tries instead of thirty (enough for the wait to end before, while and
  after tasks end), one SNTP or FTP task in a behaviour, one asked for at a time.  Three
  tasks that end and one that starts are enough for any two to lose updates.
* Log: a queue of two instead of eight, two tasks that print two messages each, and two
  clients: enough to fill the queue, to drop, and to leave a full queue and messages in
  the hands of both tasks to the second client.
* Configuration: three parameters of which a file must have two (eight and seven in the
  code), so that a file may have enough, too few, or just enough only by a line that was
  cut; files of two and three lines with an entry in each, one on each side: the server's, the
  disk's and the card's, the last with too few parameters.  A cut may fall at every line.
  Boots, fetches and losses of power repeat without bound.

The checks stop nowhere but where a self-loop says so (the end of the session's task, the
chip restarted, the last client of a behaviour of `NetLog` gone), so deadlock is checked
in every run.

### Fairness, and why the code justifies it

* `WF(Device)`: FreeRTOS runs a task that is ready, and nothing in the loop blocks for
  ever (`select` has a timeout of 50 ms, `recv` and `send` do not block).  `connect()`
  returns in bounded time.
* `WF(AckTimeout)`, `WF(Tick)`: the 100 ms timer does not stop.
* `WF(Connect)`, `SF(Sweep)` in `FmbRelay`: sweeps happen only in a session, so "what is
  on for a time goes off" needs sessions; that the server can be reached again
  is an assumption about the network, and the strong fairness says that sessions last
  at least one turn.
* `WF(MakeRecord)` in `FmbScenario`: likewise, records go on being made.
* `WF(MainTask)`, `WF(TlsServer)` and `WF(Count)` of a task just started in `Restart`: the
  main loop and the TLS task's loops never block without a timeout (its handshake and
  reads have one), and a task that counts is ready.  Nothing is assumed of TLS clients,
  of the session, of FTP, or of the log server, which may stay with its client for ever.
* `WF(Serve)` in `NetLog`: the log task has a turn every 100 ms while it has a client.
* `WF(FtpStep)`, `WF(ServerStep)` in `ConfFile`: the FTP task runs when it can, and the FTP
  server answers a command and ends a transfer unless it is lost, in which case the
  loss is noticed.  The second is an assumption about server and network: `recv()` has no
  timeout here, and a server that is silent for ever holds the task for ever.
* Nothing is assumed of the telemetry server, of commands, of the pump or of restarts.

## 5. Theorems

All are checked by `tlapm` for every value of the constants that satisfies the named
assumptions; there is no bound on records, commands, relays, pins, times, lists,
messages, clients, files or lines.  Every invariant and every step property of the
passing runs is a theorem.

| theorem | argument |
|---|---|
| `FmbSessionProofs!SpecTypeOK` | `TypeOK` is inductive.  One lemma per action and conjunct; the one place where it is not plain bookkeeping is the stream, where `TakeByte` must leave a sequence of frames. |
| `FmbSessionProofs!SpecEndsForAReason` | `EndsForAReason` is not inductive: the step that leaves the loop needs to know why it does.  `ReasonInv` adds that `Vixod` is set only together with an error bit, so that a session left without one is left while `restart_flag` is set (the TLS task may clear it right afterwards, which is why the property is one of steps), and that phase 1 is entered only with the grant, so that bit 0x10 cannot be set. |
| `FmbSessionProofs!SpecNoRecordUngranted` | `GrantInv` ties the device's phase to the server's side: any frame in the stream other than a refusal means that the server has granted the session, and so does every phase after 0, which is entered only on the byte of such a frame. |
| `FmbQuietProofs!SpecQuietInv`, `SpecInFrame`, `SpecNoFalseAck`, `SpecAckMatchesPacket`, `SpecCommandsInOrder` | `QuietInv` is inductive and gives the others.  It says where the one outstanding record is (on its way, at the server, its acknowledgement on its way, or confirmed), that the buffer is a beginning of the frame at the head of the stream, and that what is executed and what the stream still holds are the commands sent.  `AckMatchesPacket` needs it because the acknowledgement found in the buffer must be the one that this case distinction knows of. |
| `FmbQuietProofs!SpecStopAndWait` | step by step: with `QuietInv`, each action of the session and the server is an action of `StopAndWait` or leaves its variables alone. |
| `FmbRelayProofs!SpecTypeOK`, `SpecTimersMatch`, `SpecPinsReported` | the three are inductive together; a timer that counts down stays within its relay's time only because the relay's record does not change meanwhile. |
| `FmbRelayProofs!SpecChangesOnlyWhenNamed` | a step property: each action either names the relay or needs its timer to be 0. |
| `FmbScenarioProofs!SpecTypeOK`, `SpecLeavesParkReady` | `TypeOK` is inductive; the second is a property of each step. |
| `FmbScenarioProofs!SpecMovesReady` | `ReadyInv`: not only a vehicle that moves is ready (a relay command takes the ignition out of the account until the scenario sets it again), but every one whose next entry is a move; in a well-formed list that entry follows a move or a Park, which is left only ready. |
| `FmbScenarioProofs!SpecTankHolds` | `FuelInv`, for lists whose round is short enough: the fuel used, in samples of movement, is at most half the tank and what was driven in this round, `MovesUpTo` the current entry and the samples of that entry.  A Park, with which every round starts, brings it back to half.  That `MovesUpTo` exists, is a number and grows is proved by an induction over numbers, lemma `Induction`, itself from the smallest element of a set of numbers. |
| `RestartProofs!SpecTypeOK` | `StartInv`: the main task lets 500 ms pass after it has created a task, so at most one task is on its way to count itself and the counter has room for it, whatever updates were lost. |
| `RestartProofs!SpecAuthIsOfThisClient` | `AuthInv`: only while the TLS task reads from a client that has given the hash is `auth` set; each way out of the loop has to clear it. |
| `RestartProofs!SpecWaitsForTasks` | `CountInv`: as long as no two tasks were between load and store together, `total_task` is the number of tasks that have counted themselves, and what the one in between has loaded is still its value. |
| `NetLogProofs!SpecTypeOK`, `SpecInOrder` | `OrderInv`: what the client has, what could not be sent, the queue and what the tasks have in hand are in the order of printing, task by task, and nothing has a number that was not given out. |
| `NetLogProofs!SpecNoLeak` | `HeapInv`, which needs `OrderInv`: the queue never holds one message twice, so freeing the head frees no other. |
| `NetLogProofs!SpecStaleBounded` | `BoundInv`: only `Accept` adds to what is stale, and it finds at most a full queue and one message in each task's hands. |
| `NetLogProofs!SpecLossyFifo` | step by step: by `OrderInv` the head of the queue is the first of its task in transit, so sending it delivers the right one, and what is dropped, by the queue or by a failed `send()`, occurs nowhere else. |
| `ConfFileProofs!SpecTypeOK`, `SpecInStep`, `SpecReleased`, `SpecFailureIsClean`, `SpecSureKept`, `SpecMountedWhileOpen`, `SpecConfigured` | inductive together, as `ConfInv`.  `TalkInv`: which replies may be under way at each point of the client, in particular that a transfer accepted owes exactly one more, which is what `closeFtpClient` waits for.  `HeldInv`: what is open at each point.  `FileInv`: the open file is a beginning of the served one, and with a fetch that has not begun or has failed the medium holds what it did, or nothing, as long as it is mounted.  `MainInv`: no fetch runs before the loop, and its medium stays mounted until the main task is on its way to a restart.  `Configured` rests on lemmas on what `ReadCfg` makes of a text that was cut. |

Assumptions used: `BoundsAssumption`, `CommandAssumption`, `ServerAssumption` of
`FmbSession`; `RelaysAssumption`, `TimesAssumption` of `FmbRelay`; `ScenariosAssumption`,
`FuelAssumption` of `FmbScenario`; `GraceAssumption`, `LaunchAssumption` of `Restart`;
`PrintersAssumption`, `CapAssumption` of `NetLog`; `ConfAssumption`, `ServedAssumption`,
`MediaAssumption` of `ConfText`, `FtpGet` and `ConfFile`.  The theorems of
`FmbQuietProofs` assume `~CmdAnyTime` besides: with the other kind of server they are
false, which is what `session_falseack` shows.

Model-checked only: liveness (`CommandsServed`, `WaitEnds`, `RestartStops`, `TimedGoesOff`,
`WaitsEnd`, `AssuredRestarts`, `Drains`, `FtpEnds`), because the prover does not handle
fairness and `ENABLED`; and the runs that expect a violation, where there is nothing to
prove.

## 6. Not modelled, and why

* The contents of records and replies, the parsing and formatting of text, the
  checksum of commands (the code does not look at it): abstracted to what the
  properties tell apart.
* Commands that only read (`getio`, `getgps`, `getver`, ...): no state changes.
* The wraparound of the tick: planned (2, item 8).  A timer armed within its period of the
  wraparound, after 13 years of uptime, would be due at once.
* Of the FTP client what has no caller in the program: uploads, listings, directories,
  sizes and dates, renames, the active mode, callbacks.  Its result, `getFileOK`, is
  written and never read.
* The commands of the TLS client that store a parameter, the stored parameters
  themselves and the answers; the number of SNTP's retries, on which nothing depends but
  what is logged.
* The numbers of a scenario entry in the configuration file: an entry of more than 255
  samples never ends, because 255 marks the end of one (`fmb630.c:754`).
* In the boot: a directory that cannot be listed or an allocation that fails in
  `print_dir`, after which a file that is there is taken for missing and is copied over;
  the failing `malloc()` of `xfer`, which is not tested.
* The TLS handshake, mbedTLS, lwIP, cJSON, FAT, the SDK: libraries.
* Display and WiFi events: output only, or one unconditional call.

## 7. Where code and comments disagree

1. `fmb630.c:1365` against the comment at `fmb630.c:1432`.  Sending a record resets the
   receive buffer even when part of a command is in it.  The rest of the command is
   then read as the beginning of a frame; four bytes whose last is not zero, such as
   the end of the length field, end the wait for the record's acknowledgement, which the
   comment calls "server recv. packet OK".  A server that sends commands only while it
   withholds an acknowledgement never meets this, which is what `session_quiet` shows.
2. `fmb630.c:1466` against the comment at `fmb630.c:961`.  Commands set the reported
   ignition off when relays 7 and 8 are both off; the timers that switch them off do not.
3. `fmb630.c:744` against `conf.txt:11`.  The third sample of a Stop is counted as the
   second one again, so a Stop of three or more samples ends only when the pump is
   locked, and a locked pump ends it at once, whatever the number.
4. `tls_srv.c:697` against the text at `fmb630.c:1511`.  The TLS task leaves its loops
   when it sees `restart_flag` and then writes `restart_flag = eot`.  With a client of its
   own connected that did not ask for a restart, `eot` is 0, and the restart asked for by
   the command `cpureset` is taken back; if the main loop has not looked at the flag in
   between, "CPU reset now !" is followed by no reset, and the control server is gone.
   While it waits for a client it sets `eot` first (`tls_srv.c:463`), which is why
   `AssuredRestarts` holds there.
5. `ftp_cli.c:1060` against the comment at `ftp_cli.c:257`.  `xfer` is to "return 1 if
   successful, 0 otherwise".  An error of the data connection, or its early end, is taken
   for the end of the file; what `fflush()` and `fclose()` return and the server's last
   reply are not looked at.  A file cut short, even an empty one, counts as fetched.  The
   damage is bounded by the reader: `Configured` holds in spite of it.

Seen while reading and not checked by a run: the login stored for `ftp_user` is the whole
text `user:password` (`tls_srv.c:250` copies without cutting at the colon, against
`README.md:76`); the FTP server's address and port, and its login and password, are
stored by two calls each, and a loss of power may come between; the FTP parameters
are copied once at boot (`main.c:909-924`), so that a change takes effect after the next
restart only; `loginFtpClient` looks at the reply before when the reading of a reply fails,
and then goes on as if it were logged in, which `FailureIsClean` shows to do no harm
beyond the loss of the file.

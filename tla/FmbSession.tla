----------------------------- MODULE FmbSession -----------------------------
(***************************************************************************)
(* The session of the emulated tracker with its telemetry server           *)
(* (fmb630_task, src/main/fmb630.c:1159-1560).  The device connects, sends *)
(* its IMEI, waits for the one-byte grant, and then, in phase 2 of its     *)
(* loop, sends a record whenever the send timer is due and no              *)
(* acknowledgement is outstanding, while it reads the server's byte stream *)
(* one byte per turn of the loop.  That stream carries two kinds of frame: *)
(* a four-byte acknowledgement <<0,0,0,n>> and a command, an eight-byte    *)
(* header <<0,0,0,0>> \o length, then the payload and four bytes of        *)
(* checksum.  The device tells them apart by the fourth byte it has read   *)
(* since it last started a frame.                                          *)
(*                                                                         *)
(* The server is external; it is modelled by what the device expects of it.*)
(* CmdAnyTime = FALSE restricts it to sending a command only while it      *)
(* withholds the acknowledgement of a record.                              *)
(*                                                                         *)
(* Time is abstract: sendDue and ackDue say that check_tmr() of tmr_send   *)
(* and tmr_ack would now return 1.  Arming a timer clears its flag.        *)
(*                                                                         *)
(* restart_flag is set by a command, by the main task or by the TLS task,  *)
(* and cleared in one place: the TLS task ends with restart_flag = eot     *)
(* (src/main/tls_srv.c:697), which takes back a restart asked for by       *)
(* another.  It is started once, so it does that at most once.             *)
(***************************************************************************)
EXTENDS Integers, Sequences

CONSTANTS
  MaxRecords,  \* bound: records the device sends in one session
  MaxCmds,     \* bound: commands the server issues in one session
  MaxPk,       \* max_pk, the most samples in one packet
  PayLen,      \* length of a command payload (its first byte names the command)
  CmdIds,      \* the commands the server uses, as indices into cmds[]
  DoReport,    \* index of "#DO REPORT" in cmds[]
  CpuReset,    \* index of "cpureset" in cmds[]
  CmdAnyTime   \* TRUE: the server sends commands whenever it likes

ASSUME BoundsAssumption ==
  /\ MaxRecords \in Nat \ {0} /\ MaxCmds \in Nat /\ MaxPk \in 1..255
ASSUME CommandAssumption ==
  /\ PayLen \in 1..255
  /\ CmdIds \subseteq 0..254
  /\ DoReport \in 0..254 /\ CpuReset \in 0..254 /\ DoReport # CpuReset
ASSUME ServerAssumption == CmdAnyTime \in BOOLEAN

VARIABLES
  pc,           \* where the task is: outer loop, inner loop, or stopped
  faza,         \* phase of the session
  first,        \* the IMEI has not been sent yet in this session
  grant,        \* the server has accepted the IMEI
  wait_ack,     \* an answer of the server is outstanding
  Vixod,        \* the session is to be left
  err,          \* set of error bits of this session
  kol_pack,     \* samples per packet
  rx,           \* from_server[0..lenr-1]: bytes of the frame being read
  lenr_wait,    \* length at which the frame being read is looked at again
  restart_flag, \* somebody asked for a restart of the chip
  tlsTask,      \* the TLS task has not ended yet: it may take the restart back
  sendDue, ackDue,
  up,           \* messages from the device to the server, in order
  down,         \* frames from the server to the device, in order
  off,          \* bytes of Head(down) the device has already taken
  srv,          \* the server's side of the connection
  toAck,        \* packet sizes of the records the server has yet to acknowledge
  sent,         \* records sent in this session
  acked,        \* records the server has acknowledged in this session
  issued,       \* commands the server has sent in this session
  executed      \* commands the device has executed in this session

devVars == <<faza, first, grant, wait_ack, Vixod, err, kol_pack, rx, lenr_wait>>
timers  == <<sendDue, ackDue>>
srvVars == <<srv, toAck, acked, issued>>
restart == <<restart_flag, tlsTask>>
vars == <<pc, devVars, restart, timers, up, down, off, srvVars, sent, executed>>

(***************************************************************************)
(* Frames of the server's stream.                                          *)
(***************************************************************************)
Login(ok) == [kind |-> "login", val |-> ok]   \* the one-byte answer to the IMEI
Ack(n)    == [kind |-> "ack",   val |-> n]
Cmd(id)   == [kind |-> "cmd",   val |-> id]
Frame == {Login(ok) : ok \in {0, 1}} \cup {Ack(n) : n \in 1..MaxPk} \cup {Cmd(id) : id \in CmdIds}

FrameLen(f) ==
  CASE f.kind = "login" -> 1
    [] f.kind = "ack"   -> 4
    [] OTHER            -> 12 + PayLen

\* Byte i of frame f.  The bytes a property cannot tell apart are 0 (the rest
\* of the payload) or 1 (the last byte of the checksum).
ByteAt(f, i) ==
  CASE f.kind = "login"                   -> f.val
    [] f.kind = "ack" /\ i = 4            -> f.val
    [] f.kind = "cmd" /\ i = 8            -> PayLen
    [] f.kind = "cmd" /\ i = 9            -> f.val + 1
    [] f.kind = "cmd" /\ i = 12 + PayLen  -> 1
    [] OTHER                              -> 0

\* ntohl of the length field, as the device reads it from its buffer.
Join(high, low) == high * 256 + low
LenField(b) == Join(Join(Join(b[5], b[6]), b[7]), b[8])

\* Mutant: the checksum is not counted.
BodyAndSumUncounted(b) == LenField(b)

\* What is still to come once the eight-byte header is in: payload and checksum.
BodyAndSum(b) == LenField(b) + 4

\* The command index parse_cmd() gives when no command is recognised.
Unknown == -1

\* Messages of the device.
Imei     == [type |-> "imei",   val |-> 0]
Rec(n)   == [type |-> "record", val |-> n]
Reply(c) == [type |-> "reply",  val |-> c]
Message  == {Imei} \cup {Rec(n) : n \in 1..MaxPk} \cup {Reply(c) : c \in CmdIds \cup {Unknown}}

\* The error bits; 255, the value err has before the first session, is all of them.
ErrSend     == 32
ErrBits     == {1, 2, 4, 8, 16, ErrSend, 64, 128}

\* Mutant: the command text is taken from one byte too far.
CmdInShifted(b) == IF b[10] - 1 \in CmdIds THEN b[10] - 1 ELSE Unknown

\* The command a completed command frame asks for.
CmdIn(b) == IF b[9] - 1 \in CmdIds THEN b[9] - 1 ELSE Unknown

Connected == pc \in {"loop", "recv", "check"}

Init ==
  /\ pc = "outer" /\ faza = 0 /\ first = TRUE /\ grant = FALSE
  /\ wait_ack = FALSE /\ Vixod = FALSE /\ err = ErrBits
  /\ kol_pack = 1 /\ rx = <<>> /\ lenr_wait = 4
  /\ restart_flag = FALSE /\ tlsTask = TRUE
  /\ sendDue = FALSE /\ ackDue = FALSE
  /\ up = <<>> /\ down = <<>> /\ off = 0
  /\ srv = "off" /\ toAck = <<>> /\ acked = 0 /\ issued = <<>>
  /\ sent = 0 /\ executed = <<>>

(***************************************************************************)
(* The outer loop: one turn per session.                                   *)
(***************************************************************************)
OuterExit ==
  /\ pc = "outer" /\ restart_flag
  /\ pc' = "done"
  /\ UNCHANGED <<devVars, restart, timers, up, down, off, srvVars, sent, executed>>

\* connect() fails: to out_of_job with err as the last session left it.
ConnectFails ==
  /\ pc = "outer" /\ ~restart_flag
  /\ pc' = "close"
  /\ UNCHANGED <<devVars, restart, timers, up, down, off, srvVars, sent, executed>>

ConnectOk ==
  /\ pc = "outer" /\ ~restart_flag
  /\ pc' = "loop"
  /\ faza' = 0 /\ first' = TRUE /\ grant' = FALSE /\ wait_ack' = FALSE
  /\ Vixod' = FALSE /\ err' = {} /\ kol_pack' = 1 /\ rx' = <<>>
  /\ ackDue' = FALSE
  /\ srv' = "hello" /\ up' = <<>> /\ down' = <<>> /\ off' = 0
  /\ toAck' = <<>> /\ acked' = 0 /\ issued' = <<>> /\ sent' = 0 /\ executed' = <<>>
  /\ UNCHANGED <<lenr_wait, restart, sendDue>>

\* Mutant: a restart is not looked at inside a session.
LoopEndsVixodOnly == Vixod

\* while (!Vixod && !restart_flag)
LoopEnds == Vixod \/ restart_flag

\* The inner loop ends; the session is left with whatever error it met.
LoopExit ==
  /\ pc = "loop" /\ LoopEnds
  /\ pc' = "close"
  /\ UNCHANGED <<devVars, restart, timers, up, down, off, srvVars, sent, executed>>

\* shutdown() and close(); the server sees the connection end.
CloseSession ==
  /\ pc = "close"
  /\ pc' = "outer"
  /\ srv' = "off" /\ up' = <<>> /\ down' = <<>> /\ off' = 0 /\ toAck' = <<>>
  /\ UNCHANGED <<devVars, restart, timers, acked, issued, sent, executed>>

InLoop(f) == pc = "loop" /\ faza = f /\ ~LoopEnds

(***************************************************************************)
(* Phase 0: the IMEI and the one-byte answer.  Phase 1: set up phase 2.    *)
(***************************************************************************)
SendImei(ok) ==
  /\ InLoop(0) /\ first
  /\ first' = FALSE /\ wait_ack' = TRUE /\ ackDue' = FALSE
  /\ IF ok
       THEN /\ pc' = "recv" /\ up' = Append(up, Imei)
            /\ UNCHANGED <<err, Vixod>>
       ELSE /\ pc' = "check" /\ err' = err \cup {1} /\ Vixod' = TRUE
            /\ UNCHANGED up
  /\ UNCHANGED <<faza, grant, kol_pack, rx, lenr_wait, restart, sendDue,
                 down, off, srvVars, sent, executed>>

ToRecv ==
  /\ InLoop(0) /\ ~first
  /\ pc' = "recv"
  /\ UNCHANGED <<devVars, restart, timers, up, down, off, srvVars, sent, executed>>

Grant ==
  /\ InLoop(1)
  /\ pc' = "check"
  /\ IF grant
       THEN /\ faza' = 2 /\ sendDue' = TRUE /\ rx' = <<>> /\ lenr_wait' = 4
            /\ wait_ack' = FALSE
            /\ UNCHANGED <<err, Vixod>>
       ELSE /\ err' = err \cup {16} /\ Vixod' = TRUE
            /\ UNCHANGED <<faza, sendDue, rx, lenr_wait, wait_ack>>
  /\ UNCHANGED <<first, grant, kol_pack, restart, ackDue, up, down, off,
                 srvVars, sent, executed>>

(***************************************************************************)
(* Phase 2, first half: a record, when nothing is outstanding and tmr_send *)
(* is due.  kol_pack grows when tmr_two is due too.                        *)
(***************************************************************************)
\* Mutant: kol_pack is never wrapped.
NextKolPackUnwrapped == kol_pack + 1

NextKolPack == IF kol_pack + 1 > MaxPk THEN 1 ELSE kol_pack + 1

\* Mutant: a record is sent whenever the timer is due.
MaySendUnconfirmed == sendDue

MaySend == ~wait_ack /\ sendDue

\* Mutant: tmr_two advances kol_pack while a record is outstanding too.
SendNothingNewPack ==
  /\ InLoop(2) /\ ~MaySend
  /\ pc' = "recv" /\ kol_pack' \in {kol_pack, NextKolPack}
  /\ UNCHANGED <<faza, first, grant, wait_ack, Vixod, err, rx, lenr_wait, restart,
                 timers, up, down, off, srvVars, sent, executed>>

SendNothing ==
  /\ InLoop(2) /\ ~MaySend
  /\ pc' = "recv"
  /\ UNCHANGED <<devVars, restart, timers, up, down, off, srvVars, sent, executed>>

\* outcome: "ok", "short" (send() took less than the record) or "nomem"
\* (make_record() could not allocate and returned 0).
SendRecord(outcome) ==
  /\ InLoop(2) /\ MaySend
  /\ sendDue' = FALSE
  /\ kol_pack' \in {kol_pack, NextKolPack}
  /\ CASE outcome = "ok" ->
            /\ up' = Append(up, Rec(kol_pack')) /\ sent' = sent + 1
            /\ wait_ack' = TRUE /\ rx' = <<>> /\ lenr_wait' = 4 /\ ackDue' = FALSE
            /\ pc' = "recv"
            /\ UNCHANGED <<err, Vixod>>
       [] outcome = "short" ->
            /\ err' = err \cup {ErrSend} /\ Vixod' = TRUE /\ pc' = "check"
            /\ UNCHANGED <<up, sent, wait_ack, rx, lenr_wait, ackDue>>
       [] outcome = "nomem" ->
            /\ pc' = "recv"
            /\ UNCHANGED <<err, Vixod, up, sent, wait_ack, rx, lenr_wait, ackDue>>
  /\ UNCHANGED <<faza, first, grant, restart, down, off, srvVars, executed>>

(***************************************************************************)
(* Second half of a turn: recv() of one byte, in phases 0 and 2.           *)
(***************************************************************************)
NextByte == ByteAt(Head(down), off + 1)

TakeByte ==
  IF off + 1 = FrameLen(Head(down))
    THEN down' = Tail(down) /\ off' = 0
    ELSE off' = off + 1 /\ UNCHANGED down

\* The server's side of the connection is closed.
Gone == {"refused", "closed"}

RecvNothing ==
  /\ pc = "recv" /\ down = <<>> /\ srv \notin Gone
  /\ pc' = "check"
  /\ UNCHANGED <<devVars, restart, timers, up, down, off, srvVars, sent, executed>>

\* Mutant: the closed connection is not recorded in err.
RecvClosedSilently ==
  /\ pc = "recv" /\ down = <<>> /\ srv \in Gone
  /\ pc' = "check" /\ Vixod' = TRUE
  /\ UNCHANGED <<faza, first, grant, wait_ack, err, kol_pack, rx, lenr_wait, restart,
                 timers, up, down, off, srvVars, sent, executed>>

RecvClosed ==
  /\ pc = "recv" /\ down = <<>> /\ srv \in Gone
  /\ pc' = "check"
  /\ err' = err \cup {2} /\ Vixod' = TRUE
  /\ UNCHANGED <<faza, first, grant, wait_ack, kol_pack, rx, lenr_wait, restart,
                 timers, up, down, off, srvVars, sent, executed>>

\* Mutant: any answer to the IMEI grants the session.
GrantsAlways(b) == TRUE

Grants(b) == b = 1

RecvLogin ==
  /\ pc = "recv" /\ faza = 0 /\ wait_ack /\ down # <<>>
  /\ pc' = "check"
  /\ TakeByte
  /\ wait_ack' = FALSE
  /\ IF Grants(NextByte)
       THEN /\ grant' = TRUE /\ faza' = 1
            /\ UNCHANGED <<Vixod, err>>
       ELSE /\ Vixod' = TRUE /\ err' = err \cup {4}
            /\ UNCHANGED <<grant, faza>>
  /\ UNCHANGED <<first, kol_pack, rx, lenr_wait, restart, timers, up, srvVars,
                 sent, executed>>

\* What from_server holds once the next byte of the stream is in it.
Received == Append(rx, NextByte)

\* Mutant: whatever four bytes were read end the wait.
IsAckAlways(b) == TRUE

\* switch (from_server[3]): zero announces a command, anything else is an
\* acknowledgement.
IsAck(b) == b[4] # 0

RecvFrameByte ==
  /\ pc = "recv" /\ faza = 2 /\ down # <<>>
  /\ pc' = "check"
  /\ TakeByte

\* lenr has not reached lenr_wait.
RecvMore ==
  /\ RecvFrameByte
  /\ Len(Received) # lenr_wait
  /\ rx' = Received
  /\ UNCHANGED <<faza, first, grant, wait_ack, Vixod, err, kol_pack, lenr_wait,
                 restart, timers, up, srvVars, sent, executed>>

\* Mutant: the buffer is not emptied after an acknowledgement.
RecvAckKeepsBuffer ==
  /\ RecvFrameByte
  /\ Len(Received) = lenr_wait /\ IsAck(Received)
  /\ wait_ack' = FALSE /\ rx' = Received
  /\ UNCHANGED <<faza, first, grant, Vixod, err, kol_pack, lenr_wait, restart, timers,
                 up, srvVars, sent, executed>>

\* The fourth byte is not zero: whatever its value, it ends the wait.
RecvAck ==
  /\ RecvFrameByte
  /\ Len(Received) = lenr_wait /\ IsAck(Received)
  /\ wait_ack' = FALSE /\ rx' = <<>> /\ lenr_wait' = 4
  /\ UNCHANGED <<faza, first, grant, Vixod, err, kol_pack, restart, timers,
                 up, srvVars, sent, executed>>

\* The fourth byte is zero: wait for the length field, then for the whole command.
RecvHeader ==
  /\ RecvFrameByte
  /\ Len(Received) = lenr_wait /\ ~IsAck(Received) /\ Len(Received) \in {4, 8}
  /\ rx' = Received
  /\ lenr_wait' = IF Len(Received) = 4 THEN lenr_wait + 4
                  ELSE lenr_wait + BodyAndSum(Received)
  /\ UNCHANGED <<faza, first, grant, wait_ack, Vixod, err, kol_pack, restart,
                 timers, up, srvVars, sent, executed>>

\* Mutant: a command that comes before the acknowledgement is dropped.
RecvCommandDropped(ok) ==
  /\ RecvFrameByte
  /\ Len(Received) = lenr_wait /\ ~IsAck(Received) /\ Len(Received) > 8
  /\ rx' = <<>> /\ lenr_wait' = 4
  /\ UNCHANGED <<faza, first, grant, wait_ack, Vixod, err, kol_pack, restart, timers,
                 up, srvVars, sent, executed>>

\* restart_flag = eot, with eot = 0.
TakesBack == tlsTask /\ restart_flag' = FALSE /\ tlsTask' = FALSE

\* A whole command: parse_cmd() executes it, and its answer is sent (ok says
\* whether completely) unless the chip is to be restarted.  A restart that
\* parse_cmd() asks for may be taken back before the flag is looked at again.
RecvCommand(ok) ==
  LET id == CmdIn(Received) IN
  /\ RecvFrameByte
  /\ Len(Received) = lenr_wait /\ ~IsAck(Received) /\ Len(Received) > 8
  /\ rx' = <<>> /\ lenr_wait' = 4
  /\ executed' = Append(executed, id)
  /\ \/ /\ restart_flag' = (restart_flag \/ id = CpuReset)
        /\ UNCHANGED tlsTask
     \/ id = CpuReset /\ TakesBack
  /\ IF restart_flag'
       THEN /\ Vixod' = TRUE /\ err' = err \cup {64}
            /\ UNCHANGED <<up, sendDue>>
     ELSE IF ok
       THEN /\ up' = Append(up, Reply(id))
            /\ sendDue' = (sendDue /\ id # DoReport)
            /\ UNCHANGED <<Vixod, err>>
       ELSE /\ Vixod' = TRUE /\ err' = err \cup {ErrSend}
            /\ UNCHANGED <<up, sendDue>>
  /\ UNCHANGED <<faza, first, grant, wait_ack, kol_pack, ackDue, srvVars, sent>>

\* Mutant: a frame that has begun to arrive postpones the timeout.
AckLateIfSilent == wait_ack /\ ackDue /\ rx = <<>>

AckLate == wait_ack /\ ackDue

\* After the switch: the acknowledgement timer, then the next turn.
CheckAckTimer ==
  /\ pc = "check"
  /\ pc' = "loop"
  /\ IF AckLate
       THEN err' = err \cup {8} /\ Vixod' = TRUE
       ELSE UNCHANGED <<err, Vixod>>
  /\ UNCHANGED <<faza, first, grant, wait_ack, kol_pack, rx, lenr_wait, restart,
                 timers, up, down, off, srvVars, sent, executed>>

(***************************************************************************)
(* Time passes; other tasks ask for a restart and take it back.            *)
(***************************************************************************)
AckTimeout ==
  /\ Connected /\ wait_ack /\ ~ackDue
  /\ ackDue' = TRUE
  /\ UNCHANGED <<pc, devVars, restart, sendDue, up, down, off, srvVars, sent, executed>>

\* MaxRecords: after that many records the send timer is not seen to expire again.
SendTimeout ==
  /\ Connected /\ faza = 2 /\ ~sendDue /\ sent < MaxRecords
  /\ sendDue' = TRUE
  /\ UNCHANGED <<pc, devVars, restart, ackDue, up, down, off, srvVars, sent, executed>>

AskRestart ==
  /\ pc # "done" /\ ~restart_flag
  /\ restart_flag' = TRUE
  /\ UNCHANGED <<pc, tlsTask, devVars, timers, up, down, off, srvVars, sent, executed>>

\* The TLS task ends and takes back the restart another task has asked for.
TakeBack ==
  /\ restart_flag /\ TakesBack
  /\ UNCHANGED <<pc, devVars, timers, up, down, off, srvVars, sent, executed>>

(***************************************************************************)
(* The server (external).                                                  *)
(***************************************************************************)
SrvLogin(ok) ==
  /\ srv = "hello" /\ up # <<>> /\ Head(up).type = "imei"
  /\ up' = Tail(up)
  /\ down' = Append(down, Login(IF ok THEN 1 ELSE 0))
  /\ srv' = IF ok THEN "open" ELSE "refused"
  /\ UNCHANGED <<pc, devVars, restart, timers, off, toAck, acked, issued, sent, executed>>

SrvRecord ==
  /\ srv = "open" /\ up # <<>> /\ Head(up).type = "record"
  /\ up' = Tail(up)
  /\ toAck' = Append(toAck, Head(up).val)
  /\ UNCHANGED <<pc, devVars, restart, timers, down, off, srv, acked, issued, sent, executed>>

SrvReply ==
  /\ srv = "open" /\ up # <<>> /\ Head(up).type = "reply"
  /\ up' = Tail(up)
  /\ UNCHANGED <<pc, devVars, restart, timers, down, off, srvVars, sent, executed>>

SrvAck ==
  /\ srv = "open" /\ toAck # <<>>
  /\ down' = Append(down, Ack(Head(toAck)))
  /\ toAck' = Tail(toAck) /\ acked' = acked + 1
  /\ UNCHANGED <<pc, devVars, restart, timers, up, off, srv, issued, sent, executed>>

SrvCommand(id) ==
  /\ srv = "open" /\ Len(issued) < MaxCmds
  /\ CmdAnyTime \/ toAck # <<>>
  /\ down' = Append(down, Cmd(id))
  /\ issued' = Append(issued, id)
  /\ UNCHANGED <<pc, devVars, restart, timers, up, off, srv, toAck, acked, sent, executed>>

SrvClose ==
  /\ srv \in {"hello", "open"}
  /\ srv' = IF srv = "hello" THEN "refused" ELSE "closed"
  /\ UNCHANGED <<pc, devVars, restart, timers, up, down, off, toAck, acked, issued,
                 sent, executed>>

-----------------------------------------------------------------------------
Device ==
  \/ OuterExit \/ ConnectFails \/ ConnectOk \/ LoopExit \/ CloseSession
  \/ \E ok \in BOOLEAN : SendImei(ok)
  \/ ToRecv \/ Grant \/ SendNothing
  \/ \E outcome \in {"ok", "short", "nomem"} : SendRecord(outcome)
  \/ RecvNothing \/ RecvClosed \/ RecvLogin
  \/ RecvMore \/ RecvAck \/ RecvHeader
  \/ \E ok \in BOOLEAN : RecvCommand(ok)
  \/ CheckAckTimer

Server ==
  \/ \E ok \in BOOLEAN : SrvLogin(ok)
  \/ SrvRecord \/ SrvReply \/ SrvAck \/ SrvClose
  \/ \E id \in CmdIds : SrvCommand(id)

Done == pc = "done" /\ UNCHANGED vars

Next == Device \/ Server \/ AckTimeout \/ SendTimeout \/ AskRestart \/ TakeBack \/ Done

Spec == Init /\ [][Next]_vars

(***************************************************************************)
(* Fairness: the task is never starved (FreeRTOS runs it whenever it is    *)
(* ready, and nothing it calls in the loop blocks for ever) and an armed   *)
(* tmr_ack expires, because the 100 ms tick does not stop.  Nothing is     *)
(* assumed of the server, of tmr_send, of who asks for restarts or of the  *)
(* TLS task.                                                               *)
(***************************************************************************)
FairSpec == Spec /\ WF_vars(Device) /\ WF_vars(AckTimeout)

(***************************************************************************)
(* Properties.                                                             *)
(***************************************************************************)
ControlType ==
  /\ pc \in {"outer", "loop", "recv", "check", "close", "done"} /\ faza \in 0..2
  /\ first \in BOOLEAN /\ grant \in BOOLEAN /\ wait_ack \in BOOLEAN /\ Vixod \in BOOLEAN
  /\ restart_flag \in BOOLEAN /\ tlsTask \in BOOLEAN /\ sendDue \in BOOLEAN /\ ackDue \in BOOLEAN
ErrType     == err \in SUBSET ErrBits
PackType    == kol_pack \in 1..MaxPk
BufferType  == rx \in Seq(0..255) /\ lenr_wait \in Nat
StreamType  == up \in Seq(Message) /\ down \in Seq(Frame) /\ off \in Nat
ServerType  ==
  /\ srv \in {"off", "hello", "open"} \cup Gone
  /\ toAck \in Seq(1..MaxPk) /\ acked \in Nat /\ issued \in Seq(CmdIds)
CountersType == sent \in Nat /\ executed \in Seq(CmdIds \cup {Unknown})

\* The type invariant of the session's state.
TypeOK ==
  /\ ControlType /\ ErrType /\ PackType /\ BufferType
  /\ StreamType /\ ServerType /\ CountersType

\* In phase 2 the buffer starts at the first byte of a frame of the server's
\* stream: the device has in it exactly what it has taken of the frame at the
\* head.  The code resets lenr and ind in four places, one of them when a
\* record is sent (fmb630.c:1365).
InFrame == Connected /\ faza = 2 => Len(rx) = off

\* In phase 2, when the device no longer waits, the server has acknowledged
\* every record sent in the session: the four bytes that ended the wait were
\* its acknowledgement (fmb630.c:1432, "server recv. packet OK").
NoFalseAck == Connected /\ faza = 2 /\ ~wait_ack => acked = sent

\* An acknowledgement on its way carries the size of the packet the device
\* waits for, so the comparison with kol_pack that the comment at
\* fmb630.c:1432 leaves out would never fail.
AckMatchesPacket ==
  Connected => \A i \in 1..Len(down) : down[i].kind = "ack" => wait_ack /\ down[i].val = kol_pack

\* The device executes the server's commands in the order they were issued,
\* each once, and nothing else (fmb630.c:1389-1430).
CommandsInOrder == srv # "off" => executed = SubSeq(issued, 1, Len(executed))

\* No record leaves before the server has granted the session, and none in a
\* session it refused (fmb630.c:1315-1316, 1332).
NoRecordUngranted ==
  \A i \in 1..Len(up) : up[i].type = "record" => srv \in {"open", "closed"}

\* When a session that connected is left, an error is recorded or a restart is
\* asked for at that moment, even if the TLS task takes it back later;
\* "internal error" (bit 0x10) is never the reason.
LeftForAReason == Connected /\ ~Connected' => err # {} \/ restart_flag
EndsForAReason == [](Connected => 16 \notin err) /\ [][LeftForAReason]_vars

\* Every wait of a session, for the answer to the IMEI or to a record, ends:
\* an answer comes or the session is left.  The server need do nothing.
WaitEnds == (Connected /\ wait_ack) ~> (~wait_ack \/ pc = "close")

\* A restart that is asked for, whatever the session is doing, stops the task
\* (the main task waits for that before it restarts the chip), or the TLS task
\* takes it back; asked for after the TLS task has ended, it stops the task.
RestartStops ==
  /\ restart_flag ~> (pc = "done" \/ ~restart_flag)
  /\ (restart_flag /\ ~tlsTask) ~> pc = "done"

\* A command the server has issued is executed unless the session ends first.
CommandsServed ==
  \A k \in 1..MaxCmds :
    (Connected /\ Len(issued) >= k) ~> (Len(executed) >= k \/ pc = "close")

\* The session implements StopAndWait while phase 2 lasts.
Flowing == Connected /\ faza = 2
Promise == INSTANCE StopAndWait WITH
  link      <- IF Flowing THEN "up" ELSE "down",
  offered   <- IF Flowing THEN sent ELSE 0,
  received  <- IF Flowing THEN acked + Len(toAck) ELSE 0,
  confirmed <- IF ~Flowing THEN 0 ELSE IF wait_ack THEN sent - 1 ELSE sent

\* What the server is promised: one record at a time, confirmed only when the
\* server has it (fmb630.c:1348-1436).
StopAndWaitRecords == Promise!Spec

(***************************************************************************)
(* The inductive invariant of the proofs, for a server that keeps its      *)
(* commands to the time it withholds an acknowledgement.                   *)
(***************************************************************************)
IsRecord(m) == m.type = "record"
RecordUp    == \E i \in 1..Len(up) : IsRecord(up[i])
OneRecordUp == \E i \in 1..Len(up) :
                 up[i] = Rec(kol_pack) /\ \A j \in 1..Len(up) : IsRecord(up[j]) => j = i

\* Before phase 2 there are no records and no commands, and the stream holds at
\* most the answer to the IMEI.
BeforeRecords ==
  /\ sent = 0 /\ acked = 0 /\ toAck = <<>> /\ ~RecordUp
  /\ issued = <<>> /\ executed = <<>>
  /\ off = 0 /\ rx = <<>>
  /\ down # <<>> => faza = 0 /\ srv # "hello" /\ \E ok \in {0, 1} : down = <<Login(ok)>>

\* In phase 2 the last record, a packet of kol_pack samples, is confirmed, on
\* its way, at the server, or its acknowledgement is on its way and the last
\* frame of the stream.
OnlyCommands(n) == \A i \in 1..n : down[i].kind = "cmd"
Confirmed   == /\ ~wait_ack /\ acked = sent
               /\ toAck = <<>> /\ ~RecordUp /\ down = <<>>
OnItsWay    == /\ wait_ack /\ acked + 1 = sent
               /\ toAck = <<>> /\ OneRecordUp /\ down = <<>>
AtTheServer == /\ wait_ack /\ acked + 1 = sent
               /\ toAck = <<kol_pack>> /\ ~RecordUp
               /\ OnlyCommands(Len(down))
AckOnItsWay == /\ wait_ack /\ acked = sent
               /\ toAck = <<>> /\ ~RecordUp
               /\ down # <<>> /\ down[Len(down)] = Ack(kol_pack)
               /\ OnlyCommands(Len(down) - 1)

\* The buffer holds the first off bytes of the frame at the head of the stream.
Framed ==
  /\ off = Len(rx)
  /\ off > 0 => down # <<>> /\ off < FrameLen(Head(down))
  /\ \A i \in 1..Len(rx) : rx[i] = ByteAt(Head(down), i)
  /\ lenr_wait = IF off < 4 THEN 4 ELSE IF off < 8 THEN 8 ELSE 12 + PayLen

\* The commands in the stream are those issued and not yet executed.
CommandsDown == IF AckOnItsWay THEN Len(down) - 1 ELSE Len(down)
Pending ==
  /\ Len(issued) = Len(executed) + CommandsDown
  /\ \A i \in 1..CommandsDown : down[i] = Cmd(issued[Len(executed) + i])

\* CommandsInOrder, with what keeps it when the server issues one more.
ExecutedFirst ==
  /\ Len(executed) <= Len(issued)
  /\ \A i \in 1..Len(executed) : executed[i] = issued[i]

QuietInv ==
  /\ ExecutedFirst
  /\ Connected =>
       /\ faza # 0 => srv # "hello"
       /\ faza # 2 => BeforeRecords
       /\ faza = 2 => Framed /\ Pending /\ (Confirmed \/ OnItsWay \/ AtTheServer \/ AckOnItsWay)
=============================================================================

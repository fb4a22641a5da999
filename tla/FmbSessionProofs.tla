-------------------------- MODULE FmbSessionProofs --------------------------
(***************************************************************************)
(* Proofs about FmbSession, for every value of its constants.              *)
(***************************************************************************)
EXTENDS FmbSession, SequenceTheorems, TLAPS

\* Every byte of every frame is a byte.
LEMMA ByteType ==
  ASSUME NEW f \in Frame, NEW i \in Nat
  PROVE  ByteAt(f, i) \in 0..255
  BY BoundsAssumption, CommandAssumption DEF Frame, ByteAt, Login, Ack, Cmd

\* Every frame has a positive length.
LEMMA FrameLenType ==
  ASSUME NEW f \in Frame
  PROVE  FrameLen(f) \in Nat \ {0}
  BY CommandAssumption DEF Frame, FrameLen, Login, Ack, Cmd

\* Taking a byte leaves a stream of frames.
LEMMA TakeByteType ==
  ASSUME StreamType, BufferType, down # <<>>, TakeByte
  PROVE  /\ down' \in Seq(Frame) /\ off' \in Nat
         /\ Received \in Seq(0..255) /\ Len(Received) = Len(rx) + 1
<1>1. Head(down) \in Frame /\ Tail(down) \in Seq(Frame) /\ off + 1 \in Nat /\ down \in Seq(Frame)
  BY DEF StreamType
<1>2. NextByte \in 0..255
  BY <1>1, ByteType DEF NextByte
<1>3. down' \in Seq(Frame) /\ off' \in Nat
  <2>1. CASE off + 1 = FrameLen(Head(down))
    BY <1>1, <2>1 DEF TakeByte
  <2>2. CASE off + 1 # FrameLen(Head(down))
    BY <1>1, <2>2 DEF TakeByte
  <2> QED
    BY <2>1, <2>2
<1>4. Received \in Seq(0..255) /\ Len(Received) = Len(rx) + 1
  BY <1>2 DEF Received, BufferType
<1> QED
  BY <1>3, <1>4

\* One more byte of a number in network order.
LEMMA JoinType ==
  ASSUME NEW high \in Nat, NEW low \in 0..255
  PROVE  Join(high, low) \in Nat
<1>1. high * 256 \in Nat
  OBVIOUS
<1> QED
  BY <1>1 DEF Join

\* The length field is a natural number if its four bytes are bytes.
LEMMA LenFieldType ==
  ASSUME NEW b, b[5] \in 0..255, b[6] \in 0..255, b[7] \in 0..255, b[8] \in 0..255
  PROVE  LenField(b) \in Nat
<1>1. b[5] \in Nat
  OBVIOUS
<1>2. Join(b[5], b[6]) \in Nat
  BY <1>1, JoinType
<1>3. Join(Join(b[5], b[6]), b[7]) \in Nat
  BY <1>2, JoinType
<1> QED
  BY <1>3, JoinType DEF LenField

LEMMA BodyAndSumType ==
  ASSUME NEW b \in Seq(0..255), Len(b) = 8
  PROVE  BodyAndSum(b) \in Nat
<1>1. ASSUME NEW i \in 5..8
      PROVE  b[i] \in 0..255
  <2>1. i \in 1..Len(b)
    OBVIOUS
  <2> QED
    BY <2>1, ElementOfSeq
<1>2. b[5] \in 0..255
  BY <1>1
<1>3. b[6] \in 0..255
  BY <1>1
<1>4. b[7] \in 0..255
  BY <1>1
<1>5. b[8] \in 0..255
  BY <1>1
<1>6. LenField(b) \in Nat
  BY <1>2, <1>3, <1>4, <1>5, LenFieldType
<1> QED
  BY <1>6 DEF BodyAndSum

\* kol_pack stays within MaxPk.
LEMMA NextKolPackType ==
  ASSUME PackType
  PROVE  NextKolPack \in 1..MaxPk
  BY BoundsAssumption DEF PackType, NextKolPack

-----------------------------------------------------------------------------
\* Each part of the type invariant is kept by every step of the specification.

LEMMA InitType == Init => TypeOK
<1> SUFFICES ASSUME Init PROVE TypeOK
  OBVIOUS
<1>1. ControlType
  <2>1. pc \in {"outer", "loop", "recv", "check", "close", "done"} /\ faza \in 0..2
    BY DEF Init
  <2>2. /\ first \in BOOLEAN /\ grant \in BOOLEAN /\ wait_ack \in BOOLEAN /\ Vixod \in BOOLEAN
        /\ restart_flag \in BOOLEAN /\ tlsTask \in BOOLEAN
        /\ sendDue \in BOOLEAN /\ ackDue \in BOOLEAN
    BY DEF Init
  <2> QED
    BY <2>1, <2>2 DEF ControlType
<1>2. ErrType
  BY DEF Init, ErrType
<1>3. PackType
  BY BoundsAssumption DEF Init, PackType
<1>4. BufferType
  BY DEF Init, BufferType
<1>5. StreamType
  BY DEF Init, StreamType
<1>6. ServerType
  BY DEF Init, ServerType
<1>7. CountersType
  BY DEF Init, CountersType
<1> QED
  BY <1>1, <1>2, <1>3, <1>4, <1>5, <1>6, <1>7 DEF TypeOK

LEMMA ErrStep ==
  ASSUME ErrType, [Next]_vars
  PROVE  ErrType'
<1> USE DEF ErrType
<1>1. \A b \in {1, 2, 4, 8, 16, ErrSend, 64} : (err \cup {b}) \in SUBSET ErrBits
  BY DEF ErrBits
<1>2. ASSUME NEW ok \in BOOLEAN, SendImei(ok) PROVE err' \in SUBSET ErrBits
  BY <1>1, <1>2 DEF SendImei
<1>3. ASSUME NEW outcome \in {"ok", "short", "nomem"}, SendRecord(outcome)
      PROVE  err' \in SUBSET ErrBits
  BY <1>1, <1>3 DEF SendRecord
<1>4. ASSUME NEW ok \in BOOLEAN, RecvCommand(ok) PROVE err' \in SUBSET ErrBits
  BY <1>1, <1>4 DEF RecvCommand
<1>5. CASE Grant \/ RecvClosed \/ RecvLogin \/ CheckAckTimer
  BY <1>1, <1>5 DEF Grant, RecvClosed, RecvLogin, CheckAckTimer
<1>6. CASE ConnectOk
  BY <1>6 DEF ConnectOk
<1>7. CASE \/ OuterExit \/ ConnectFails \/ LoopExit \/ CloseSession \/ ToRecv \/ SendNothing
           \/ RecvNothing \/ RecvMore \/ RecvAck \/ RecvHeader
  BY <1>7 DEF OuterExit, ConnectFails, LoopExit, CloseSession, ToRecv, SendNothing,
     RecvNothing, RecvMore, RecvAck, RecvHeader, devVars
<1>8. CASE Server \/ AckTimeout \/ SendTimeout \/ AskRestart \/ TakeBack \/ UNCHANGED vars
  BY <1>8 DEF Server, SrvLogin, SrvRecord, SrvReply, SrvAck, SrvCommand, SrvClose,
     AckTimeout, SendTimeout, AskRestart, TakeBack, devVars, vars
<1> QED
  BY <1>1, <1>2, <1>3, <1>4, <1>5, <1>6, <1>7, <1>8 DEF Next, Device, Done

LEMMA PackStep ==
  ASSUME PackType, [Next]_vars
  PROVE  PackType'
<1> USE DEF PackType
<1>1. ASSUME NEW outcome \in {"ok", "short", "nomem"}, SendRecord(outcome)
      PROVE  kol_pack' \in 1..MaxPk
  BY <1>1, NextKolPackType DEF SendRecord
<1>2. CASE ConnectOk
  BY <1>2, BoundsAssumption DEF ConnectOk
<1>3. CASE Device /\ ~ConnectOk /\ ~\E outcome \in {"ok", "short", "nomem"} : SendRecord(outcome)
  BY <1>3 DEF Device, OuterExit, ConnectFails, LoopExit, CloseSession, SendImei, ToRecv, Grant,
     SendNothing, RecvNothing, RecvClosed, RecvLogin, RecvMore, RecvAck, RecvHeader,
     RecvCommand, CheckAckTimer, devVars
<1>4. CASE Server \/ AckTimeout \/ SendTimeout \/ AskRestart \/ TakeBack \/ UNCHANGED vars
  BY <1>4 DEF Server, SrvLogin, SrvRecord, SrvReply, SrvAck, SrvCommand, SrvClose,
     AckTimeout, SendTimeout, AskRestart, TakeBack, devVars, vars
<1> QED
  BY <1>1, <1>2, <1>3, <1>4 DEF Next, Done

LEMMA BufferStep ==
  ASSUME BufferType, StreamType, [Next]_vars
  PROVE  BufferType'
<1> USE DEF BufferType
<1>e. <<>> \in Seq(0..255)
  OBVIOUS
<1>1. ASSUME RecvFrameByte
      PROVE  Received \in Seq(0..255)
  BY <1>1, TakeByteType DEF RecvFrameByte
<1>2. CASE RecvMore
  BY <1>1, <1>2 DEF RecvMore
<1>3. CASE RecvHeader
  <2>1. rx' \in Seq(0..255)
    BY <1>1, <1>3 DEF RecvHeader
  <2>2. CASE Len(Received) = 4
    BY <1>3, <2>1, <2>2 DEF RecvHeader
  <2>3. CASE Len(Received) = 8
    <3>1. RecvFrameByte /\ lenr_wait' = lenr_wait + BodyAndSum(Received)
      BY <1>3, <2>3 DEF RecvHeader
    <3>2. BodyAndSum(Received) \in Nat
      BY <1>1, <2>3, <3>1, BodyAndSumType
    <3> QED
      BY <2>1, <3>1, <3>2
  <2> QED
    BY <1>3, <2>2, <2>3 DEF RecvHeader
<1>4. ASSUME NEW outcome \in {"ok", "short", "nomem"}, SendRecord(outcome)
      PROVE  BufferType'
  <2>1. (rx' = <<>> \/ rx' = rx) /\ (lenr_wait' = 4 \/ lenr_wait' = lenr_wait)
    BY <1>4 DEF SendRecord
  <2>2. rx' \in Seq(0..255)
    BY <1>e, <2>1
  <2>3. lenr_wait' \in Nat
    BY <2>1
  <2> QED
    BY <2>2, <2>3
<1>5. CASE ConnectOk \/ Grant \/ RecvAck \/ \E ok \in BOOLEAN : RecvCommand(ok)
  <2>1. (rx' = <<>> \/ rx' = rx) /\ (lenr_wait' = 4 \/ lenr_wait' = lenr_wait)
    BY <1>5 DEF ConnectOk, Grant, RecvAck, RecvCommand
  <2>2. rx' \in Seq(0..255)
    BY <1>e, <2>1
  <2>3. lenr_wait' \in Nat
    BY <2>1
  <2> QED
    BY <2>2, <2>3
<1>6. CASE \/ OuterExit \/ ConnectFails \/ LoopExit \/ CloseSession \/ ToRecv \/ SendNothing
           \/ RecvNothing \/ RecvClosed \/ RecvLogin \/ CheckAckTimer
           \/ \E ok \in BOOLEAN : SendImei(ok)
  BY <1>6 DEF OuterExit, ConnectFails, LoopExit, CloseSession, ToRecv, SendNothing,
     RecvNothing, RecvClosed, RecvLogin, CheckAckTimer, SendImei, devVars
<1>7. CASE Server \/ AckTimeout \/ SendTimeout \/ AskRestart \/ TakeBack \/ UNCHANGED vars
  BY <1>7 DEF Server, SrvLogin, SrvRecord, SrvReply, SrvAck, SrvCommand, SrvClose,
     AckTimeout, SendTimeout, AskRestart, TakeBack, devVars, vars
<1> QED
  BY <1>2, <1>3, <1>4, <1>5, <1>6, <1>7 DEF Next, Device, Done

\* What the device and the server put into the two streams.
LEMMA MessagesType ==
  /\ Imei \in Message
  /\ \A n \in 1..MaxPk : Rec(n) \in Message /\ Ack(n) \in Frame
  /\ Reply(CmdIn(Received)) \in Message
  /\ \A id \in CmdIds : Cmd(id) \in Frame
  /\ Login(0) \in Frame /\ Login(1) \in Frame
  BY DEF Message, Frame, CmdIn

LEMMA StreamStep ==
  ASSUME TypeOK, [Next]_vars
  PROVE  StreamType'
<1> USE DEF StreamType
<1>a. StreamType /\ BufferType /\ ServerType /\ PackType
  BY DEF TypeOK
<1>1. ASSUME NEW ok \in BOOLEAN, SendImei(ok) PROVE StreamType'
  BY <1>1, <1>a, MessagesType DEF SendImei
<1>2. ASSUME NEW outcome \in {"ok", "short", "nomem"}, SendRecord(outcome)
      PROVE  StreamType'
  <2>1. kol_pack' \in 1..MaxPk
    BY <1>a, PackStep DEF PackType
  <2>2. up' \in {up, Append(up, Rec(kol_pack'))} /\ UNCHANGED <<down, off>>
    BY <1>2 DEF SendRecord
  <2>3. Rec(kol_pack') \in Message
    BY <2>1, MessagesType
  <2> QED
    BY <1>a, <2>2, <2>3
<1>3. CASE RecvLogin
  <2>1. down' \in Seq(Frame) /\ off' \in Nat
    BY <1>3, <1>a, TakeByteType DEF RecvLogin
  <2> QED
    BY <1>3, <1>a, <2>1 DEF RecvLogin
<1>4. ASSUME RecvFrameByte
      PROVE  down' \in Seq(Frame) /\ off' \in Nat
  BY <1>4, <1>a, TakeByteType DEF RecvFrameByte
<1>5. CASE RecvMore \/ RecvAck \/ RecvHeader
  <2>1. RecvFrameByte /\ UNCHANGED up
    BY <1>5 DEF RecvMore, RecvAck, RecvHeader
  <2> QED
    BY <1>a, <1>4, <2>1
<1>6. ASSUME NEW ok \in BOOLEAN, RecvCommand(ok) PROVE StreamType'
  <2>1. RecvFrameByte /\ up' \in {up, Append(up, Reply(CmdIn(Received)))}
    BY <1>6 DEF RecvCommand
  <2>2. up' \in Seq(Message)
    BY <1>a, <2>1, MessagesType
  <2> QED
    BY <1>4, <2>1, <2>2
<1>7. CASE ConnectOk \/ CloseSession
  <2>1. up' = <<>> /\ down' = <<>> /\ off' = 0
    BY <1>7 DEF ConnectOk, CloseSession
  <2> QED
    BY <2>1
<1>8. CASE \/ OuterExit \/ ConnectFails \/ LoopExit \/ ToRecv \/ Grant \/ SendNothing
           \/ RecvNothing \/ RecvClosed \/ CheckAckTimer
           \/ SrvClose \/ AckTimeout \/ SendTimeout \/ AskRestart \/ TakeBack \/ UNCHANGED vars
  BY <1>8, <1>a DEF OuterExit, ConnectFails, LoopExit, ToRecv, Grant, SendNothing,
     RecvNothing, RecvClosed, CheckAckTimer, SrvClose, AckTimeout, SendTimeout, AskRestart,
     TakeBack, vars
<1>9. ASSUME NEW ok \in BOOLEAN, SrvLogin(ok) PROVE StreamType'
  BY <1>9, <1>a, MessagesType DEF SrvLogin
<1>10. CASE SrvRecord \/ SrvReply
  <2>1. up # <<>> /\ up' = Tail(up) /\ UNCHANGED <<down, off>>
    BY <1>10 DEF SrvRecord, SrvReply
  <2> QED
    BY <1>a, <2>1
<1>11. CASE SrvAck
  <2>1. toAck \in Seq(1..MaxPk) /\ toAck # <<>>
    BY <1>11, <1>a DEF SrvAck, ServerType
  <2>2. Head(toAck) \in 1..MaxPk
    BY <2>1, HeadTailProperties
  <2>3. Ack(Head(toAck)) \in Frame
    BY <2>2, MessagesType
  <2> QED
    BY <1>11, <1>a, <2>3 DEF SrvAck
<1>12. ASSUME NEW id \in CmdIds, SrvCommand(id) PROVE StreamType'
  BY <1>12, <1>a, MessagesType DEF SrvCommand
<1> QED
  BY <1>1, <1>2, <1>3, <1>5, <1>6, <1>7, <1>8, <1>9, <1>10, <1>11, <1>12
  DEF Next, Device, Server, Done

LEMMA ServerStep ==
  ASSUME TypeOK, [Next]_vars
  PROVE  ServerType'
<1> USE DEF ServerType, Gone
<1>a. StreamType /\ ServerType
  BY DEF TypeOK
<1>1. CASE ConnectOk
  <2>1. srv' = "hello" /\ toAck' = <<>> /\ acked' = 0 /\ issued' = <<>>
    BY <1>1 DEF ConnectOk
  <2> QED
    BY <2>1
<1>2. CASE CloseSession
  <2>1. srv' = "off" /\ toAck' = <<>> /\ UNCHANGED <<acked, issued>>
    BY <1>2 DEF CloseSession
  <2> QED
    BY <1>a, <2>1
<1>3. CASE Device /\ ~ConnectOk /\ ~CloseSession
  BY <1>3, <1>a DEF Device, OuterExit, ConnectFails, LoopExit, SendImei, ToRecv, Grant,
     SendNothing, SendRecord, RecvNothing, RecvClosed, RecvLogin, RecvMore, RecvAck,
     RecvHeader, RecvCommand, CheckAckTimer, srvVars
<1>4. CASE AckTimeout \/ SendTimeout \/ AskRestart \/ TakeBack \/ UNCHANGED vars \/ SrvReply
  BY <1>4, <1>a DEF AckTimeout, SendTimeout, AskRestart, TakeBack, SrvReply, srvVars, vars
<1>5. CASE SrvClose \/ \E ok \in BOOLEAN : SrvLogin(ok)
  BY <1>5, <1>a DEF SrvClose, SrvLogin
<1>6. CASE SrvRecord
  <2>1. \E n \in 1..MaxPk : Head(up) = Rec(n)
    <3>1. Head(up) \in Message /\ Head(up).type = "record"
      BY <1>6, <1>a DEF SrvRecord, StreamType
    <3> QED
      BY <3>1 DEF Message, Imei, Rec, Reply
  <2>2. Head(up).val \in 1..MaxPk
    BY <2>1 DEF Rec
  <2>3. toAck' = Append(toAck, Head(up).val) /\ UNCHANGED <<srv, acked, issued>>
    BY <1>6 DEF SrvRecord
  <2> QED
    BY <1>a, <2>2, <2>3
<1>7. CASE SrvAck
  <2>1. toAck # <<>> /\ toAck' = Tail(toAck) /\ acked' = acked + 1 /\ UNCHANGED <<srv, issued>>
    BY <1>7 DEF SrvAck
  <2> QED
    BY <1>a, <2>1
<1>8. ASSUME NEW id \in CmdIds, SrvCommand(id) PROVE ServerType'
  BY <1>8, <1>a DEF SrvCommand
<1> QED
  BY <1>1, <1>2, <1>3, <1>4, <1>5, <1>6, <1>7, <1>8 DEF Next, Server, Done

LEMMA CountersStep ==
  ASSUME TypeOK, [Next]_vars
  PROVE  CountersType'
<1> USE DEF CountersType
<1>a. CountersType
  BY DEF TypeOK
<1>1. CASE ConnectOk
  <2>1. sent' = 0 /\ executed' = <<>>
    BY <1>1 DEF ConnectOk
  <2> QED
    BY <2>1
<1>2. ASSUME NEW outcome \in {"ok", "short", "nomem"}, SendRecord(outcome)
      PROVE  CountersType'
  <2>1. sent' \in {sent, sent + 1} /\ UNCHANGED executed
    BY <1>2 DEF SendRecord
  <2> QED
    BY <1>a, <2>1
<1>3. ASSUME NEW ok \in BOOLEAN, RecvCommand(ok) PROVE CountersType'
  <2>1. CmdIn(Received) \in CmdIds \cup {Unknown}
    BY DEF CmdIn
  <2>2. executed' = Append(executed, CmdIn(Received)) /\ UNCHANGED sent
    BY <1>3 DEF RecvCommand
  <2> QED
    BY <1>a, <2>1, <2>2
<1>4. CASE \/ OuterExit \/ ConnectFails \/ LoopExit \/ CloseSession \/ ToRecv \/ Grant
           \/ SendNothing \/ RecvNothing \/ RecvClosed \/ RecvLogin \/ RecvMore \/ RecvAck
           \/ RecvHeader \/ CheckAckTimer \/ \E ok \in BOOLEAN : SendImei(ok)
  BY <1>4, <1>a DEF OuterExit, ConnectFails, LoopExit, CloseSession, ToRecv, Grant,
     SendNothing, RecvNothing, RecvClosed, RecvLogin, RecvMore, RecvAck, RecvHeader,
     CheckAckTimer, SendImei
<1>5. CASE Server \/ AckTimeout \/ SendTimeout \/ AskRestart \/ TakeBack \/ UNCHANGED vars
  BY <1>5, <1>a DEF Server, SrvLogin, SrvRecord, SrvReply, SrvAck, SrvCommand, SrvClose,
     AckTimeout, SendTimeout, AskRestart, TakeBack, vars
<1> QED
  BY <1>1, <1>2, <1>3, <1>4, <1>5 DEF Next, Device, Done

LEMMA ControlStep ==
  ASSUME ControlType, [Next]_vars
  PROVE  ControlType'
<1> USE DEF ControlType, restart
<1>1. CASE OuterExit \/ ConnectFails \/ LoopExit \/ CloseSession \/ ToRecv \/ SendNothing
           \/ RecvNothing
  BY <1>1 DEF OuterExit, ConnectFails, LoopExit, CloseSession, ToRecv, SendNothing,
     RecvNothing, devVars, timers
<1>2. CASE ConnectOk
  <2>1. pc' = "loop" /\ faza' = 0 /\ UNCHANGED <<restart_flag, tlsTask, sendDue>>
    BY <1>2 DEF ConnectOk
  <2>2. first' /\ ~grant' /\ ~wait_ack' /\ ~Vixod' /\ ~ackDue'
    BY <1>2 DEF ConnectOk
  <2>3. /\ first' \in BOOLEAN /\ grant' \in BOOLEAN /\ wait_ack' \in BOOLEAN
        /\ Vixod' \in BOOLEAN /\ ackDue' \in BOOLEAN
    BY <1>2 DEF ConnectOk
  <2> QED
    BY <2>1, <2>3
<1>3. ASSUME NEW ok \in BOOLEAN, SendImei(ok) PROVE ControlType'
  BY <1>3 DEF SendImei
<1>4. CASE Grant \/ RecvClosed \/ RecvLogin \/ CheckAckTimer
  <2>1. CASE Grant
    <3>1. pc' = "check" /\ (faza' = 2 \/ faza' = faza)
      BY <2>1 DEF Grant
    <3>2. /\ wait_ack' \in BOOLEAN /\ Vixod' \in BOOLEAN /\ sendDue' \in BOOLEAN
      BY <2>1 DEF Grant
    <3>3. UNCHANGED <<first, grant, restart_flag, tlsTask, ackDue>>
      BY <2>1 DEF Grant
    <3> QED
      BY <3>1, <3>2, <3>3
  <2>2. CASE RecvClosed
    BY <2>2 DEF RecvClosed, timers
  <2>3. CASE RecvLogin
    <3>1. pc' = "check" /\ (faza' = 1 \/ faza' = faza)
      BY <2>3 DEF RecvLogin
    <3>2. wait_ack' \in BOOLEAN /\ Vixod' \in BOOLEAN /\ grant' \in BOOLEAN
      BY <2>3 DEF RecvLogin
    <3>3. UNCHANGED <<first, restart_flag, tlsTask, sendDue, ackDue>>
      BY <2>3 DEF RecvLogin, timers
    <3> QED
      BY <3>1, <3>2, <3>3
  <2>4. CASE CheckAckTimer
    BY <2>4 DEF CheckAckTimer, timers
  <2> QED
    BY <1>4, <2>1, <2>2, <2>3, <2>4
<1>5. ASSUME NEW outcome \in {"ok", "short", "nomem"}, SendRecord(outcome)
      PROVE  ControlType'
  BY <1>5 DEF SendRecord
<1>6. CASE RecvMore \/ RecvAck \/ RecvHeader
  BY <1>6 DEF RecvMore, RecvAck, RecvHeader, RecvFrameByte, timers
<1>7. ASSUME NEW ok \in BOOLEAN, RecvCommand(ok) PROVE ControlType'
  <2>1. restart_flag' \in BOOLEAN /\ tlsTask' \in BOOLEAN
    BY <1>7 DEF RecvCommand, TakesBack
  <2>2. /\ pc' = "check" /\ UNCHANGED <<faza, first, grant, wait_ack, ackDue>>
        /\ Vixod' \in BOOLEAN /\ sendDue' \in BOOLEAN
    BY <1>7 DEF RecvCommand, RecvFrameByte
  <2> QED
    BY <2>1, <2>2
<1>8. CASE Server \/ UNCHANGED vars
  BY <1>8 DEF Server, SrvLogin, SrvRecord, SrvReply, SrvAck, SrvCommand, SrvClose,
     devVars, timers, vars
<1>9. CASE AckTimeout \/ SendTimeout \/ AskRestart \/ TakeBack
  <2>1. CASE AckTimeout
    BY <2>1 DEF AckTimeout, devVars
  <2>2. CASE SendTimeout
    BY <2>2 DEF SendTimeout, devVars
  <2>3. CASE AskRestart
    BY <2>3 DEF AskRestart, devVars, timers
  <2>4. CASE TakeBack
    <3>1. restart_flag' = FALSE /\ tlsTask' = FALSE
      BY <2>4 DEF TakeBack, TakesBack
    <3> QED
      BY <2>4, <3>1 DEF TakeBack, devVars, timers
  <2> QED
    BY <1>9, <2>1, <2>2, <2>3, <2>4
<1> QED
  BY <1>1, <1>2, <1>3, <1>4, <1>5, <1>6, <1>7, <1>8, <1>9 DEF Next, Device, Done

-----------------------------------------------------------------------------
\* The session's state keeps its types whatever the server sends, the network
\* does and however the timers expire (fmb630_task, fmb630.c:1159-1560); in
\* particular kol_pack stays between 1 and max_pk and nothing but bytes gets
\* into the buffer.
THEOREM SpecTypeOK == Spec => []TypeOK
<1>1. Init => TypeOK
  BY InitType
<1>2. TypeOK /\ [Next]_vars => TypeOK'
  <2> SUFFICES ASSUME TypeOK, [Next]_vars PROVE TypeOK'
    OBVIOUS
  <2>1. ControlType' /\ ErrType' /\ PackType'
    BY ControlStep, ErrStep, PackStep DEF TypeOK
  <2>2. BufferType' /\ StreamType'
    BY BufferStep, StreamStep DEF TypeOK
  <2>3. ServerType' /\ CountersType'
    BY ServerStep, CountersStep
  <2> QED
    BY <2>1, <2>2, <2>3 DEF TypeOK
<1> QED
  BY <1>1, <1>2, PTL DEF Spec

-----------------------------------------------------------------------------
\* Why a session ends: what makes EndsForAReason inductive.  A session told to
\* end (Vixod) has an error recorded, or a restart was found asked for; that is
\* an error bit of its own (0x40), so it stays when the restart is taken back.
ReasonInv ==
  /\ Connected => 16 \notin err
  /\ Connected /\ Vixod => err # {}
  /\ Connected /\ faza = 1 => grant

LEMMA ReasonStep ==
  ASSUME TypeOK, ReasonInv, [Next]_vars
  PROVE  ReasonInv'
<1> USE DEF ReasonInv, Connected
<1>a. ControlType
  BY DEF TypeOK
<1>1. CASE OuterExit \/ ConnectFails \/ CloseSession
  BY <1>1 DEF OuterExit, ConnectFails, CloseSession, devVars
<1>2. CASE ConnectOk
  BY <1>2 DEF ConnectOk
<1>3. CASE LoopExit
  BY <1>3 DEF LoopExit, LoopEnds, devVars
<1>4. ASSUME NEW ok \in BOOLEAN, SendImei(ok) PROVE ReasonInv'
  BY <1>4 DEF SendImei, InLoop
<1>5. CASE ToRecv \/ SendNothing
  BY <1>5 DEF ToRecv, SendNothing, InLoop, devVars
<1>6. CASE Grant
  BY <1>6 DEF Grant, InLoop, LoopEnds
<1>7. ASSUME NEW outcome \in {"ok", "short", "nomem"}, SendRecord(outcome)
      PROVE  ReasonInv'
  <2>1. /\ pc = "loop" /\ pc' \in {"recv", "check"} /\ UNCHANGED <<faza, grant>>
        /\ (UNCHANGED err /\ UNCHANGED Vixod) \/ err' = err \cup {ErrSend}
    BY <1>7 DEF SendRecord, InLoop
  <2> QED
    BY <2>1 DEF ErrSend
<1>8. CASE RecvNothing \/ RecvClosed
  BY <1>8 DEF RecvNothing, RecvClosed, devVars
<1>9. CASE RecvLogin
  BY <1>9 DEF RecvLogin
<1>10. CASE RecvMore \/ RecvAck \/ RecvHeader
  BY <1>10 DEF RecvMore, RecvAck, RecvHeader, RecvFrameByte
<1>11. ASSUME NEW ok \in BOOLEAN, RecvCommand(ok) PROVE ReasonInv'
  <2>1. /\ pc = "recv" /\ pc' = "check" /\ UNCHANGED <<faza, grant>>
        /\ (UNCHANGED err /\ UNCHANGED Vixod) \/ err' = err \cup {ErrSend} \/ err' = err \cup {64}
    BY <1>11 DEF RecvCommand, RecvFrameByte
  <2> QED
    BY <2>1 DEF ErrSend
<1>12. CASE CheckAckTimer
  BY <1>12 DEF CheckAckTimer
<1>13. CASE Server \/ AckTimeout \/ SendTimeout \/ AskRestart \/ TakeBack \/ UNCHANGED vars
  BY <1>13 DEF Server, SrvLogin, SrvRecord, SrvReply, SrvAck, SrvCommand, SrvClose,
     AckTimeout, SendTimeout, AskRestart, TakeBack, devVars, vars
<1> QED
  BY <1>1, <1>2, <1>3, <1>4, <1>5, <1>6, <1>7, <1>8, <1>9, <1>10, <1>11, <1>12, <1>13
  DEF Next, Device, Done

\* No session that connected is left without an error bit unless a restart is
\* asked for at that moment, and phase 1 never finds the grant missing, so bit
\* 0x10 is dead (fmb630.c:1294, 1331-1347, 1500-1545).
THEOREM SpecEndsForAReason == Spec => EndsForAReason
<1>1. Init => ReasonInv
  BY DEF Init, ReasonInv, Connected
<1>2. TypeOK /\ ReasonInv /\ [Next]_vars => ReasonInv'
  BY ReasonStep
<1>3. ReasonInv => (Connected => 16 \notin err)
  BY DEF ReasonInv
<1>4. ReasonInv /\ [Next]_vars => [LeftForAReason]_vars
  <2> SUFFICES ASSUME ReasonInv, Next, Connected, ~Connected'
               PROVE  err # {} \/ restart_flag
    BY DEF LeftForAReason
  <2>1. LoopExit
    <3>1. ~(OuterExit \/ ConnectFails \/ ConnectOk \/ CloseSession)
      BY DEF OuterExit, ConnectFails, ConnectOk, CloseSession, Connected
    <3>2. Device
      BY DEF Next, Server, SrvLogin, SrvRecord, SrvReply, SrvAck, SrvCommand, SrvClose,
         AckTimeout, SendTimeout, AskRestart, TakeBack, Done, Connected, vars
    <3> QED
      BY <3>1, <3>2 DEF Device, SendImei, ToRecv, Grant, SendNothing, SendRecord, RecvNothing,
         RecvClosed, RecvLogin, RecvMore, RecvAck, RecvHeader, RecvCommand, RecvFrameByte,
         CheckAckTimer, Connected
  <2> QED
    BY <2>1 DEF LoopExit, LoopEnds, ReasonInv
<1> QED
  BY <1>1, <1>2, <1>3, <1>4, SpecTypeOK, PTL DEF Spec, EndsForAReason

-----------------------------------------------------------------------------
\* The server has granted the session when anything but a refusal is in the
\* stream or the device is past phase 0: what makes NoRecordUngranted inductive.
Granted  == srv \in {"open", "closed"}
GrantInv ==
  /\ NoRecordUngranted
  /\ Connected /\ faza # 0 => Granted
  /\ \A i \in 1..Len(down) : down[i] # Login(0) => Granted

\* A refusal holds no byte that grants.
LEMMA RefusalByte ==
  ASSUME NEW i
  PROVE  ~Grants(ByteAt(Login(0), i))
  BY DEF Grants, ByteAt, Login

LEMMA GrantStep ==
  ASSUME TypeOK, GrantInv, [Next]_vars
  PROVE  GrantInv'
<1> USE DEF GrantInv, NoRecordUngranted, Granted
<1>a. /\ up \in Seq(Message) /\ down \in Seq(Frame) /\ up' \in Seq(Message) /\ down' \in Seq(Frame)
  BY StreamStep DEF TypeOK, StreamType
<1>1. CASE ConnectOk \/ CloseSession
  BY <1>1 DEF ConnectOk, CloseSession, Connected
<1>2. CASE OuterExit \/ ConnectFails \/ LoopExit \/ ToRecv \/ SendNothing \/ RecvNothing
  BY <1>2 DEF OuterExit, ConnectFails, LoopExit, ToRecv, SendNothing, RecvNothing, InLoop,
     Connected, devVars, srvVars
<1>3. ASSUME NEW ok \in BOOLEAN, SendImei(ok) PROVE GrantInv'
  <2>1. /\ UNCHANGED <<srv, down, faza>> /\ pc = "loop"
        /\ up' = up \/ up' = Append(up, Imei)
    BY <1>3 DEF SendImei, InLoop, srvVars
  <2>2. \A i \in 1..Len(up') : up'[i] = Imei \/ (i \in 1..Len(up) /\ up'[i] = up[i])
    BY <1>a, <2>1
  <2>3. Imei.type # "record"
    BY DEF Imei
  <2> QED
    BY <2>1, <2>2, <2>3 DEF Connected
<1>4. CASE Grant
  BY <1>4 DEF Grant, InLoop, Connected, srvVars
<1>5. ASSUME NEW outcome \in {"ok", "short", "nomem"}, SendRecord(outcome)
      PROVE  GrantInv'
  <2>1. Granted
    BY <1>5 DEF SendRecord, InLoop, Connected
  <2> QED
    BY <1>5, <2>1 DEF SendRecord, srvVars
<1>6. CASE RecvClosed \/ CheckAckTimer
  BY <1>6 DEF RecvClosed, CheckAckTimer, Connected, srvVars
<1>7. CASE TakeByte /\ down # <<>> /\ UNCHANGED <<up, srv>> /\ pc = "recv" /\ UNCHANGED faza
  <2>1. down' = down \/ down' = Tail(down)
    BY <1>7 DEF TakeByte
  <2> QED
    BY <1>7, <1>a, <2>1 DEF Connected
<1>8. CASE RecvLogin
  <2>1. down' = down \/ down' = Tail(down)
    BY <1>8 DEF RecvLogin, TakeByte
  <2>2. faza' # 0 => Granted
    <3>1. faza' # 0 => Grants(ByteAt(Head(down), off + 1))
      BY <1>8 DEF RecvLogin, NextByte
    <3>2. Grants(ByteAt(Head(down), off + 1)) => Head(down) # Login(0)
      BY RefusalByte
    <3>3. Head(down) = down[1] /\ 1 \in 1..Len(down)
      BY <1>8, <1>a DEF RecvLogin
    <3> QED
      BY <3>1, <3>2, <3>3
  <2>3. UNCHANGED <<up, srv>>
    BY <1>8 DEF RecvLogin, srvVars
  <2>4. \A i \in 1..Len(down') : \E j \in 1..Len(down) : down'[i] = down[j]
    <3>1. down # <<>>
      BY <1>8 DEF RecvLogin
    <3>2. CASE down' = Tail(down)
      <4>1. Len(down) \in Nat /\ Len(down') = Len(down) - 1
        BY <1>a, <3>1, <3>2, HeadTailProperties
      <4>2. ASSUME NEW i \in 1..Len(down') PROVE down'[i] = down[i + 1] /\ i + 1 \in 1..Len(down)
        BY <1>a, <3>1, <3>2, <4>1, HeadTailProperties
      <4> QED
        BY <4>2
    <3>3. CASE down' = down
      BY <3>3
    <3> QED
      BY <2>1, <3>2, <3>3
  <2> QED
    BY <2>2, <2>3, <2>4
<1>9. CASE RecvMore \/ RecvAck \/ RecvHeader
  BY <1>7, <1>9 DEF RecvMore, RecvAck, RecvHeader, RecvFrameByte, srvVars
<1>10. ASSUME NEW ok \in BOOLEAN, RecvCommand(ok) PROVE GrantInv'
  <2>1. Granted
    BY <1>10 DEF RecvCommand, RecvFrameByte, Connected
  <2> QED
    BY <1>10, <2>1 DEF RecvCommand, srvVars
<1>11. ASSUME NEW ok \in BOOLEAN, SrvLogin(ok) PROVE GrantInv'
  <2>1. /\ srv = "hello" /\ up # <<>> /\ up' = Tail(up) /\ UNCHANGED <<pc, faza>>
        /\ down' = Append(down, Login(IF ok THEN 1 ELSE 0))
        /\ srv' = IF ok THEN "open" ELSE "refused"
    BY <1>11 DEF SrvLogin, devVars
  <2>2. \A i \in 1..Len(up') : \E j \in 1..Len(up) : up'[i] = up[j]
    BY <1>a, <2>1
  <2>3. NoRecordUngranted' /\ (Connected /\ faza # 0 => Granted)'
    BY <2>1, <2>2 DEF Connected
  <2>4. CASE ok
    BY <2>1, <2>3, <2>4
  <2>5. CASE ~ok
    <3>1. \A i \in 1..Len(down') :
            down'[i] = Login(0) \/ (i \in 1..Len(down) /\ down'[i] = down[i])
      BY <1>a, <2>1, <2>5
    <3>2. \A i \in 1..Len(down') : down'[i] = Login(0)
      BY <2>1, <3>1
    <3> QED
      BY <2>3, <3>2
  <2> QED
    BY <2>4, <2>5
<1>12. CASE SrvRecord \/ SrvReply \/ SrvAck \/ \E id \in CmdIds : SrvCommand(id)
  <2>1. /\ srv = "open" /\ UNCHANGED <<pc, faza, srv>>
        /\ up' = up \/ (up # <<>> /\ up' = Tail(up))
    BY <1>12 DEF SrvRecord, SrvReply, SrvAck, SrvCommand, devVars, srvVars
  <2> QED
    BY <2>1
<1>13. CASE SrvClose
  BY <1>13 DEF SrvClose, devVars, Connected
<1>14. CASE AckTimeout \/ SendTimeout \/ AskRestart \/ TakeBack \/ UNCHANGED vars
  BY <1>14 DEF AckTimeout, SendTimeout, AskRestart, TakeBack, Connected, devVars, srvVars, vars
<1> QED
  BY <1>1, <1>2, <1>3, <1>4, <1>5, <1>6, <1>8, <1>9, <1>10, <1>11, <1>12, <1>13, <1>14
  DEF Next, Device, Server, Done

\* A session the server refused, or has not answered, carries no record
\* (fmb630.c:1315-1316, 1332).
THEOREM SpecNoRecordUngranted == Spec => []NoRecordUngranted
<1>1. Init => GrantInv
  BY DEF Init, GrantInv, NoRecordUngranted, Connected
<1>2. TypeOK /\ GrantInv /\ [Next]_vars => GrantInv'
  BY GrantStep
<1>3. GrantInv => NoRecordUngranted
  BY DEF GrantInv
<1> QED
  BY <1>1, <1>2, <1>3, SpecTypeOK, PTL DEF Spec
=============================================================================

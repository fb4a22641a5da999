--------------------------- MODULE FmbQuietProofs ---------------------------
(***************************************************************************)
(* Proofs about FmbSession with a server that sends commands only while it *)
(* withholds an acknowledgement (CmdAnyTime = FALSE), for every value of   *)
(* the other constants: QuietInv is an inductive invariant, and what       *)
(* follows from it.                                                        *)
(***************************************************************************)
EXTENDS FmbSessionProofs

-----------------------------------------------------------------------------
\* What the device has in its buffer when a byte of the head frame comes in.

\* The bytes of an acknowledgement: the fourth is not zero.
LEMMA AckBytes ==
  ASSUME NEW n \in 1..MaxPk
  PROVE  /\ FrameLen(Ack(n)) = 4
         /\ ByteAt(Ack(n), 4) = n /\ n # 0
  BY BoundsAssumption DEF FrameLen, ByteAt, Ack

\* The bytes of a command: four zeros, the length of the payload, and the name
\* in the first byte of the payload.
LEMMA CmdBytes ==
  ASSUME NEW id \in CmdIds
  PROVE  /\ FrameLen(Cmd(id)) = 12 + PayLen
         /\ \A i \in 1..7 : ByteAt(Cmd(id), i) = 0
         /\ ByteAt(Cmd(id), 8) = PayLen
         /\ ByteAt(Cmd(id), 9) = id + 1
  BY CommandAssumption DEF FrameLen, ByteAt, Cmd

\* The buffer and the new byte are a beginning of the head frame.
LEMMA ReceivedBytes ==
  ASSUME StreamType, BufferType, down # <<>>, Framed
  PROVE  /\ Received \in Seq(0..255) /\ Len(Received) = off + 1
         /\ \A i \in 1..off + 1 : Received[i] = ByteAt(Head(down), i)
<1>1. Head(down) \in Frame /\ off \in Nat /\ off + 1 \in Nat
  BY DEF StreamType
<1>2. NextByte \in 0..255
  BY <1>1, ByteType DEF NextByte
<1>3. rx \in Seq(0..255) /\ Len(rx) = off
  BY DEF BufferType, Framed
<1>4. Received \in Seq(0..255) /\ Len(Received) = off + 1
  BY <1>2, <1>3 DEF Received
<1>5. ASSUME NEW i \in 1..off + 1
      PROVE  Received[i] = ByteAt(Head(down), i)
  <2>1. CASE i = off + 1
    BY <1>2, <1>3, <2>1 DEF Received, NextByte
  <2>2. CASE i \in 1..off
    BY <1>2, <1>3, <2>2 DEF Received, Framed
  <2> QED
    BY <1>1, <1>5, <2>1, <2>2
<1> QED
  BY <1>4, <1>5

\* Once the header of a command is in, the device knows its length.
LEMMA HeaderLength ==
  ASSUME NEW id \in CmdIds, NEW b, \A i \in 1..8 : b[i] = ByteAt(Cmd(id), i)
  PROVE  BodyAndSum(b) = PayLen + 4
<1>1. b[5] = 0 /\ b[6] = 0 /\ b[7] = 0 /\ b[8] = PayLen
  BY CmdBytes
<1>2. Join(0, 0) = 0
  BY DEF Join
<1>3. Join(0, PayLen) = PayLen
  BY CommandAssumption DEF Join
<1>4. LenField(b) = PayLen
  BY <1>1, <1>2, <1>3 DEF LenField
<1> QED
  BY <1>4 DEF BodyAndSum

\* What a whole command says is what the server has issued.
LEMMA CommandName ==
  ASSUME NEW id \in CmdIds, NEW b, b[9] = ByteAt(Cmd(id), 9)
  PROVE  CmdIn(b) = id
  BY CmdBytes, CommandAssumption DEF CmdIn

-----------------------------------------------------------------------------
\* QuietInv is kept by every step.

LEMMA QuietInit == Init => QuietInv
  BY DEF Init, QuietInv, ExecutedFirst, Connected

\* A step that leaves alone what QuietInv speaks of keeps it.
LEMMA QuietFrame ==
  ASSUME QuietInv, Connected' => Connected,
         UNCHANGED <<faza, wait_ack, kol_pack, rx, lenr_wait, up, down, off, srv, toAck,
                     acked, issued, sent, executed>>
  PROVE  QuietInv'
<1> USE DEF QuietInv
<1>1. ExecutedFirst'
  BY DEF ExecutedFirst
<1>2. BeforeRecords => BeforeRecords'
  BY DEF BeforeRecords, RecordUp
<1>3. Framed => Framed'
  BY DEF Framed
<1>4. /\ Confirmed' = Confirmed /\ OnItsWay' = OnItsWay
      /\ AtTheServer' = AtTheServer /\ AckOnItsWay' = AckOnItsWay
  BY DEF Confirmed, OnItsWay, AtTheServer, AckOnItsWay, RecordUp, OneRecordUp, OnlyCommands
<1>5. Pending => Pending'
  BY <1>4 DEF Pending, CommandsDown
<1> QED
  BY <1>1, <1>2, <1>3, <1>4, <1>5

LEMMA QuietConnect ==
  ASSUME ConnectOk
  PROVE  QuietInv'
  BY DEF ConnectOk, QuietInv, ExecutedFirst, BeforeRecords, RecordUp, Connected

LEMMA QuietClose ==
  ASSUME QuietInv, CloseSession
  PROVE  QuietInv'
  BY DEF CloseSession, QuietInv, ExecutedFirst, Connected

LEMMA QuietImei ==
  ASSUME TypeOK, QuietInv, NEW ok \in BOOLEAN, SendImei(ok)
  PROVE  QuietInv'
<1>1. /\ Connected /\ faza = 0 /\ BeforeRecords /\ ExecutedFirst /\ up \in Seq(Message)
  BY DEF SendImei, InLoop, QuietInv, Connected, TypeOK, StreamType
<1>2. UNCHANGED <<faza, sent, acked, toAck, issued, executed, off, rx, down, srv>>
  BY DEF SendImei, srvVars
<1>3. up' = up \/ up' = Append(up, Imei)
  BY DEF SendImei
<1>4. ~RecordUp'
  <2>1. ~IsRecord(Imei)
    BY DEF IsRecord, Imei
  <2>2. ~RecordUp
    BY <1>1 DEF BeforeRecords
  <2> QED
    BY <1>1, <1>3, <2>1, <2>2 DEF RecordUp, IsRecord
<1>5. BeforeRecords' /\ ExecutedFirst'
  BY <1>1, <1>2, <1>4 DEF BeforeRecords, ExecutedFirst
<1> QED
  BY <1>1, <1>2, <1>5 DEF QuietInv

\* Phase 2 begins with nothing on its way.
LEMMA QuietGrant ==
  ASSUME TypeOK, QuietInv, Grant
  PROVE  QuietInv'
<1>1. Connected /\ faza = 1 /\ BeforeRecords /\ ExecutedFirst /\ srv # "hello"
  BY DEF Grant, InLoop, QuietInv, Connected
<1>2. UNCHANGED <<sent, acked, toAck, issued, executed, off, down, up, srv>>
  BY DEF Grant, srvVars
<1>3. CASE grant
  <2>1. faza' = 2 /\ rx' = <<>> /\ lenr_wait' = 4 /\ wait_ack' = FALSE
    BY <1>3 DEF Grant
  <2>2. Framed'
    BY <1>1, <1>2, <2>1 DEF Framed, BeforeRecords
  <2>3. Confirmed' /\ Pending'
    BY <1>1, <1>2, <2>1 DEF Confirmed, Pending, CommandsDown, AckOnItsWay, BeforeRecords, RecordUp
  <2> QED
    BY <1>1, <1>2, <2>1, <2>2, <2>3 DEF QuietInv, ExecutedFirst
<1>4. CASE ~grant
  <2>1. UNCHANGED <<faza, rx>>
    BY <1>4 DEF Grant
  <2> QED
    BY <1>1, <1>2, <2>1 DEF QuietInv, ExecutedFirst, BeforeRecords, RecordUp
<1> QED
  BY <1>3, <1>4

\* A record is only sent when everything before it is confirmed.
LEMMA QuietSend ==
  ASSUME TypeOK, QuietInv, NEW outcome \in {"ok", "short", "nomem"}, SendRecord(outcome)
  PROVE  QuietInv'
<1>1. /\ Connected /\ faza = 2 /\ ~wait_ack /\ Framed /\ Pending /\ ExecutedFirst
      /\ Confirmed /\ srv # "hello" /\ up \in Seq(Message) /\ off \in Nat
  BY DEF SendRecord, InLoop, MaySend, QuietInv, Connected, OnItsWay, AtTheServer, AckOnItsWay,
     TypeOK, StreamType
<1>2. UNCHANGED <<faza, toAck, acked, issued, executed, off, down, srv>>
  BY DEF SendRecord, srvVars
<1>3. off = 0 /\ rx = <<>> /\ lenr_wait = 4
  <2>1. down = <<>>
    BY <1>1 DEF Confirmed
  <2>2. off = 0 /\ Len(rx) = 0
    BY <1>1, <2>1 DEF Framed
  <2>3. rx = <<>>
    BY <2>2 DEF TypeOK, BufferType
  <2> QED
    BY <1>1, <2>2, <2>3 DEF Framed
<1>4. ExecutedFirst'
  BY <1>1, <1>2 DEF ExecutedFirst
<1>5. CASE outcome = "ok"
  <2>1. /\ up' = Append(up, Rec(kol_pack')) /\ sent' = sent + 1
        /\ wait_ack' = TRUE /\ rx' = <<>> /\ lenr_wait' = 4
    BY <1>5 DEF SendRecord
  <2>2. Framed'
    BY <1>1, <1>2, <1>3, <2>1 DEF Framed
  <2>3. OneRecordUp'
    <3>1. \A i \in 1..Len(up) : ~IsRecord(up[i]) /\ up'[i] = up[i]
      BY <1>1, <2>1 DEF Confirmed, RecordUp
    <3>2. Len(up') = Len(up) + 1 /\ up'[Len(up')] = Rec(kol_pack')
      BY <1>1, <2>1
    <3>3. \A j \in 1..Len(up') : j = Len(up') \/ j \in 1..Len(up)
      BY <1>1, <3>2
    <3> QED
      BY <1>1, <3>1, <3>2, <3>3 DEF OneRecordUp, IsRecord
  <2>4. OnItsWay'
    BY <1>1, <1>2, <2>1, <2>3 DEF OnItsWay, Confirmed
  <2>5. Pending'
    BY <1>1, <1>2 DEF Pending, CommandsDown, Confirmed, AckOnItsWay
  <2> QED
    BY <1>1, <1>2, <1>4, <2>2, <2>4, <2>5 DEF QuietInv
<1>6. CASE outcome # "ok"
  <2>1. UNCHANGED <<up, sent, wait_ack, rx, lenr_wait>>
    BY <1>6 DEF SendRecord
  <2>2. Framed'
    BY <1>1, <1>2, <2>1 DEF Framed
  <2>3. Confirmed'
    BY <1>1, <1>2, <2>1 DEF Confirmed, RecordUp
  <2>4. Pending'
    BY <1>1, <1>2 DEF Pending, CommandsDown, Confirmed, AckOnItsWay
  <2> QED
    BY <1>1, <1>2, <1>4, <2>2, <2>3, <2>4 DEF QuietInv
<1> QED
  BY <1>5, <1>6

-----------------------------------------------------------------------------
\* The device takes a byte.

\* The answer to the IMEI is one byte, after which the stream is empty.
LEMMA QuietLogin ==
  ASSUME TypeOK, QuietInv, RecvLogin
  PROVE  QuietInv'
<1>1. Connected /\ faza = 0 /\ BeforeRecords /\ ExecutedFirst /\ down # <<>>
  BY DEF RecvLogin, QuietInv, Connected
<1>2. UNCHANGED <<sent, acked, toAck, issued, executed, rx, up, srv>> /\ faza' \in {0, 1}
  BY <1>1 DEF RecvLogin, srvVars
<1>3. PICK ok \in {0, 1} : down = <<Login(ok)>>
  BY <1>1 DEF BeforeRecords
<1>4. down' = <<>> /\ off' = 0
  <2>1. off = 0 /\ FrameLen(Head(down)) = 1 /\ Tail(down) = <<>>
    BY <1>1, <1>3 DEF BeforeRecords, FrameLen, Login
  <2> QED
    BY <2>1 DEF RecvLogin, TakeByte
<1>5. srv' # "hello" /\ BeforeRecords' /\ ExecutedFirst'
  BY <1>1, <1>2, <1>4 DEF BeforeRecords, ExecutedFirst, RecordUp
<1> QED
  BY <1>2, <1>5 DEF QuietInv

\* In phase 2 a byte comes from a command, or from an acknowledgement that is
\* the only frame left.
LEMMA HeadFrame ==
  ASSUME TypeOK, QuietInv, RecvFrameByte
  PROVE  /\ Connected /\ faza = 2 /\ Framed /\ Pending /\ ExecutedFirst /\ srv # "hello"
         /\ (AtTheServer \/ AckOnItsWay)
         /\ down # <<>> /\ down \in Seq(Frame) /\ off \in Nat
         /\ Head(down) = down[1] /\ Len(down) \in Nat \ {0}
         /\ \/ AckOnItsWay /\ Len(down) = 1 /\ Head(down) = Ack(kol_pack) /\ kol_pack \in 1..MaxPk
            \/ \E id \in CmdIds : Head(down) = Cmd(id) /\ id = issued[Len(executed) + 1]
                                  /\ CommandsDown >= 1
<1>1. /\ Connected /\ faza = 2 /\ Framed /\ Pending /\ ExecutedFirst /\ down # <<>>
      /\ srv # "hello" /\ (AtTheServer \/ AckOnItsWay)
  BY DEF RecvFrameByte, QuietInv, Connected, Confirmed, OnItsWay
<1>2. /\ down \in Seq(Frame) /\ off \in Nat /\ kol_pack \in 1..MaxPk
      /\ issued \in Seq(CmdIds) /\ executed \in Seq(CmdIds \cup {Unknown})
  BY DEF TypeOK, StreamType, PackType, ServerType, CountersType
<1>3. Head(down) = down[1] /\ Len(down) \in Nat \ {0}
  BY <1>1, <1>2
<1>4. CASE CommandsDown = 0
  <2>1. AckOnItsWay /\ Len(down) = 1
    <3>1. CASE AckOnItsWay
      BY <1>3, <1>4, <3>1 DEF CommandsDown
    <3>2. CASE ~AckOnItsWay
      BY <1>3, <1>4, <3>2 DEF CommandsDown
    <3> QED
      BY <3>1, <3>2
  <2> QED
    BY <1>1, <1>2, <1>3, <2>1 DEF AckOnItsWay
<1>5. CASE CommandsDown # 0
  <2>0. CommandsDown = Len(down) - 1 \/ CommandsDown = Len(down)
    BY DEF CommandsDown
  <2>1. CommandsDown >= 1 /\ CommandsDown \in Nat
    BY <1>3, <1>5, <2>0
  <2>2. down[1] = Cmd(issued[Len(executed) + 1])
    BY <1>1, <2>1 DEF Pending
  <2>3. Len(executed) + 1 \in 1..Len(issued)
    BY <1>1, <1>2, <2>1 DEF Pending
  <2>4. issued[Len(executed) + 1] \in CmdIds
    BY <1>2, <2>3
  <2> QED
    BY <1>1, <1>2, <1>3, <2>1, <2>2, <2>4
<1> QED
  BY <1>1, <1>2, <1>3, <1>4, <1>5

\* A byte in the middle of a frame: the buffer grows with what was taken.
LEMMA QuietByte ==
  ASSUME TypeOK, QuietInv, RecvFrameByte, rx' = Received,
         UNCHANGED <<faza, kol_pack, up, srv, toAck, acked, issued, sent, executed, wait_ack>>,
         off + 1 < FrameLen(Head(down)),
         lenr_wait' = IF off + 1 < 4 THEN 4 ELSE IF off + 1 < 8 THEN 8 ELSE 12 + PayLen
  PROVE  QuietInv'
<1>1. /\ Framed /\ Pending /\ ExecutedFirst /\ srv # "hello" /\ (AtTheServer \/ AckOnItsWay)
      /\ faza = 2 /\ off \in Nat
  BY HeadFrame
<1>2. /\ Len(Received) = off + 1
      /\ \A i \in 1..off + 1 : Received[i] = ByteAt(Head(down), i)
  <2>1. StreamType /\ BufferType /\ down # <<>>
    BY DEF TypeOK, RecvFrameByte
  <2> QED
    BY <1>1, <2>1, ReceivedBytes
<1>3. off' = off + 1 /\ down' = down
  <2>1. off + 1 # FrameLen(Head(down))
    <3>1. FrameLen(Head(down)) \in Nat
      BY HeadFrame, FrameLenType
    <3> QED
      BY <1>1, <3>1
  <2> QED
    BY <2>1 DEF RecvFrameByte, TakeByte
<1>4. Framed'
  BY <1>1, <1>2, <1>3 DEF Framed, RecvFrameByte
<1>5. AtTheServer' = AtTheServer /\ AckOnItsWay' = AckOnItsWay
  BY <1>3 DEF AtTheServer, AckOnItsWay, RecordUp, OnlyCommands
<1>6. CommandsDown' = CommandsDown
  BY <1>3, <1>5 DEF CommandsDown
<1>7. Pending' /\ ExecutedFirst'
  BY <1>1, <1>3, <1>6 DEF Pending, ExecutedFirst
<1> QED
  BY <1>1, <1>4, <1>5, <1>7 DEF QuietInv

LEMMA QuietMore ==
  ASSUME TypeOK, QuietInv, RecvMore
  PROVE  QuietInv'
<1>1. RecvFrameByte /\ Len(Received) # lenr_wait
  BY DEF RecvMore
<1>2. Framed /\ off \in Nat /\ down # <<>>
  BY <1>1, HeadFrame
<1>3. lenr_wait # off + 1 /\ lenr_wait = IF off < 4 THEN 4 ELSE IF off < 8 THEN 8 ELSE 12 + PayLen
  BY <1>1, <1>2, ReceivedBytes DEF TypeOK, Framed
<1>4. off < FrameLen(Head(down))
  <2>1. FrameLen(Head(down)) \in Nat \ {0}
    BY <1>1, HeadFrame, FrameLenType
  <2> QED
    BY <1>2, <2>1 DEF Framed
<1>5. FrameLen(Head(down)) = 4 \/ FrameLen(Head(down)) = 12 + PayLen
  BY <1>1, HeadFrame, AckBytes, CmdBytes
<1>6. off + 1 < FrameLen(Head(down))
  BY <1>2, <1>3, <1>4, <1>5, CommandAssumption
<1>7. lenr_wait = IF off + 1 < 4 THEN 4 ELSE IF off + 1 < 8 THEN 8 ELSE 12 + PayLen
  BY <1>2, <1>3
<1>8. /\ rx' = Received
      /\ UNCHANGED <<faza, kol_pack, up, srv, toAck, acked, issued, sent, executed, wait_ack, lenr_wait>>
  BY DEF RecvMore, srvVars
<1> QED
  BY <1>1, <1>6, <1>7, <1>8, QuietByte

\* The fourth byte is zero only in a command, and its length field is PayLen.
LEMMA QuietHeader ==
  ASSUME TypeOK, QuietInv, RecvHeader
  PROVE  QuietInv'
<1>1. /\ RecvFrameByte /\ Len(Received) = lenr_wait /\ ~IsAck(Received)
      /\ Len(Received) \in {4, 8}
  BY DEF RecvHeader
<1>2. Framed /\ off \in Nat /\ down # <<>>
  BY <1>1, HeadFrame
<1>3. /\ Len(Received) = off + 1
      /\ \A i \in 1..off + 1 : Received[i] = ByteAt(Head(down), i)
  BY <1>2, ReceivedBytes DEF TypeOK
<1>4. off + 1 \in {4, 8} /\ ByteAt(Head(down), 4) = 0
  BY <1>1, <1>2, <1>3 DEF IsAck
<1>5. PICK id \in CmdIds : Head(down) = Cmd(id)
  BY <1>1, <1>4, HeadFrame, AckBytes
<1>6. off + 1 < FrameLen(Head(down))
  BY <1>4, <1>5, CmdBytes, CommandAssumption
<1>7. lenr_wait' = IF off + 1 < 4 THEN 4 ELSE IF off + 1 < 8 THEN 8 ELSE 12 + PayLen
  <2>1. CASE off + 1 = 4
    BY <1>1, <1>3, <2>1 DEF RecvHeader
  <2>2. CASE off + 1 = 8
    <3>1. lenr_wait = 8 /\ lenr_wait' = 8 + BodyAndSum(Received)
      BY <1>1, <1>3, <2>2 DEF RecvHeader
    <3>2. BodyAndSum(Received) = PayLen + 4
      BY <1>3, <1>5, <2>2, HeaderLength
    <3> QED
      BY <2>2, <3>1, <3>2, CommandAssumption
  <2> QED
    BY <1>4, <2>1, <2>2
<1>8. /\ rx' = Received
      /\ UNCHANGED <<faza, kol_pack, up, srv, toAck, acked, issued, sent, executed, wait_ack>>
  BY DEF RecvHeader, srvVars
<1> QED
  BY <1>1, <1>6, <1>7, <1>8, QuietByte

\* The fourth byte is not zero only in an acknowledgement, whose last byte it is.
LEMMA AckArrives ==
  ASSUME TypeOK, QuietInv, RecvAck
  PROVE  /\ Connected /\ faza = 2 /\ AckOnItsWay /\ Len(down) = 1 /\ Pending /\ ExecutedFirst
         /\ srv # "hello" /\ down' = <<>> /\ off' = 0
<1>1. RecvFrameByte /\ Len(Received) = lenr_wait /\ IsAck(Received)
  BY DEF RecvAck
<1>2. Framed /\ off \in Nat /\ down # <<>> /\ down \in Seq(Frame)
  BY <1>1, HeadFrame
<1>3. /\ Len(Received) = off + 1
      /\ \A i \in 1..off + 1 : Received[i] = ByteAt(Head(down), i)
  BY <1>2, ReceivedBytes DEF TypeOK
<1>4. off + 1 >= 4
  <2>1. lenr_wait \in {4, 8, 12 + PayLen}
    BY <1>2 DEF Framed
  <2> QED
    BY <1>1, <1>2, <1>3, <2>1, CommandAssumption
<1>5. ByteAt(Head(down), 4) # 0
  BY <1>1, <1>2, <1>3, <1>4 DEF IsAck
<1>6. AckOnItsWay /\ Len(down) = 1 /\ Head(down) = Ack(kol_pack) /\ kol_pack \in 1..MaxPk
  BY <1>1, <1>5, HeadFrame, CmdBytes
<1>7. FrameLen(Head(down)) = 4
  BY <1>6, AckBytes
<1>8. off + 1 = 4
  BY <1>2, <1>4, <1>7 DEF Framed
<1>9. down' = Tail(down) /\ off' = 0
  BY <1>1, <1>7, <1>8 DEF RecvFrameByte, TakeByte
<1>10. Tail(down) = <<>>
  <2>1. Len(Tail(down)) = 0
    BY <1>2, <1>6, HeadTailProperties
  <2> QED
    BY <1>2, <2>1, HeadTailProperties, EmptySeq
<1> QED
  BY <1>1, <1>6, <1>9, <1>10, HeadFrame

LEMMA QuietAck ==
  ASSUME TypeOK, QuietInv, RecvAck
  PROVE  QuietInv'
<1>1. /\ Connected /\ faza = 2 /\ AckOnItsWay /\ Len(down) = 1 /\ Pending /\ ExecutedFirst
      /\ srv # "hello" /\ down' = <<>> /\ off' = 0
  BY AckArrives
<1>2. /\ wait_ack' = FALSE /\ rx' = <<>> /\ lenr_wait' = 4
      /\ UNCHANGED <<faza, kol_pack, up, srv, toAck, acked, issued, sent, executed>>
  BY DEF RecvAck, srvVars
<1>3. Framed'
  BY <1>1, <1>2 DEF Framed
<1>4. Confirmed'
  BY <1>1, <1>2 DEF AckOnItsWay, Confirmed, RecordUp
<1>5. Pending'
  BY <1>1, <1>2 DEF Pending, CommandsDown, AckOnItsWay
<1>6. ExecutedFirst'
  BY <1>1, <1>2 DEF ExecutedFirst
<1> QED
  BY <1>1, <1>2, <1>3, <1>4, <1>5, <1>6 DEF QuietInv

\* A whole command has come: it is the next one of those issued.
LEMMA CommandArrives ==
  ASSUME TypeOK, QuietInv, NEW ok \in BOOLEAN, RecvCommand(ok)
  PROVE  /\ CommandsDown >= 1 /\ down' = Tail(down) /\ off' = 0
         /\ CmdIn(Received) = issued[Len(executed) + 1]
<1>1. RecvFrameByte /\ Len(Received) = lenr_wait /\ ~IsAck(Received) /\ Len(Received) > 8
  BY DEF RecvCommand
<1>2. Framed /\ off \in Nat /\ down # <<>>
  BY <1>1, HeadFrame
<1>3. /\ Len(Received) = off + 1
      /\ \A i \in 1..off + 1 : Received[i] = ByteAt(Head(down), i)
  BY <1>2, ReceivedBytes DEF TypeOK
<1>4. off + 1 = 12 + PayLen
  BY <1>1, <1>2, <1>3 DEF Framed
<1>5. ByteAt(Head(down), 4) = 0
  BY <1>1, <1>3, <1>4, CommandAssumption DEF IsAck
<1>6. PICK id \in CmdIds : Head(down) = Cmd(id) /\ id = issued[Len(executed) + 1] /\ CommandsDown >= 1
  BY <1>1, <1>5, HeadFrame, AckBytes
<1>7. FrameLen(Head(down)) = 12 + PayLen /\ Received[9] = ByteAt(Cmd(id), 9)
  BY <1>3, <1>4, <1>6, CmdBytes, CommandAssumption
<1>8. CmdIn(Received) = id
  BY <1>7, CommandName
<1>9. down' = Tail(down) /\ off' = 0
  BY <1>1, <1>4, <1>7 DEF RecvFrameByte, TakeByte
<1> QED
  BY <1>6, <1>8, <1>9

LEMMA QuietCommand ==
  ASSUME TypeOK, QuietInv, NEW ok \in BOOLEAN, RecvCommand(ok)
  PROVE  QuietInv'
<1>1. /\ CommandsDown >= 1 /\ down' = Tail(down) /\ off' = 0
      /\ CmdIn(Received) = issued[Len(executed) + 1]
  BY CommandArrives
<1>2. /\ Connected /\ faza = 2 /\ Pending /\ ExecutedFirst /\ srv # "hello"
      /\ (AtTheServer \/ AckOnItsWay) /\ down # <<>> /\ down \in Seq(Frame)
      /\ Len(down) \in Nat \ {0}
  BY HeadFrame DEF RecvCommand
<1>3. /\ rx' = <<>> /\ lenr_wait' = 4 /\ executed' = Append(executed, CmdIn(Received))
      /\ up' = up \/ up' = Append(up, Reply(CmdIn(Received)))
      /\ UNCHANGED <<faza, wait_ack, kol_pack, srv, toAck, acked, issued, sent>>
  BY DEF RecvCommand, srvVars
<1>4. /\ executed \in Seq(CmdIds \cup {Unknown}) /\ issued \in Seq(CmdIds)
      /\ up \in Seq(Message) /\ CmdIn(Received) \in CmdIds \cup {Unknown}
  BY DEF TypeOK, StreamType, ServerType, CountersType, CmdIn
<1>5. /\ Len(down') = Len(down) - 1 /\ Len(down') \in Nat
      /\ \A i \in 1..Len(down') : down'[i] = down[i + 1]
  BY <1>1, <1>2, HeadTailProperties
<1>6. /\ Len(executed') = Len(executed) + 1 /\ Len(executed) \in Nat /\ Len(issued) \in Nat
      /\ \A i \in 1..Len(executed) : executed'[i] = executed[i]
      /\ executed'[Len(executed) + 1] = issued[Len(executed) + 1]
  BY <1>1, <1>3, <1>4, AppendProperties
<1>7. Framed'
  BY <1>1, <1>3 DEF Framed
<1>8. ~RecordUp => ~RecordUp'
  <2>1. ~IsRecord(Reply(CmdIn(Received)))
    BY DEF IsRecord, Reply
  <2>2. CASE up' = Append(up, Reply(CmdIn(Received)))
    <3>1. \A i \in 1..Len(up') : \/ i \in 1..Len(up) /\ up'[i] = up[i]
                                 \/ up'[i] = Reply(CmdIn(Received))
      BY <1>4, <2>2
    <3> QED
      BY <2>1, <3>1 DEF RecordUp, IsRecord
  <2> QED
    BY <1>3, <2>2 DEF RecordUp
<1>9. ASSUME AtTheServer
      PROVE  AtTheServer' /\ CommandsDown = Len(down) /\ CommandsDown' = Len(down')
  <2>1. AtTheServer'
    BY <1>3, <1>5, <1>8, <1>9 DEF AtTheServer, OnlyCommands
  <2>2. ~AckOnItsWay /\ ~AckOnItsWay'
    BY <1>9, <2>1 DEF AtTheServer, AckOnItsWay
  <2> QED
    BY <2>1, <2>2 DEF CommandsDown
<1>10. ASSUME AckOnItsWay
       PROVE  AckOnItsWay' /\ CommandsDown = Len(down) - 1 /\ CommandsDown' = Len(down') - 1
  <2>1. CommandsDown = Len(down) - 1
    BY <1>10 DEF CommandsDown
  <2>2. Len(down') >= 1 /\ Len(down') + 1 = Len(down)
    BY <1>1, <1>2, <1>5, <2>1
  <2>3. down' # <<>>
    BY <2>2
  <2>4. down'[Len(down')] = down[Len(down)]
    BY <1>5, <2>2
  <2>5. \A i \in 1..Len(down) - 1 : down[i].kind = "cmd"
    BY <1>10 DEF AckOnItsWay, OnlyCommands
  <2>6. \A i \in 1..Len(down') - 1 : down'[i].kind = "cmd"
    BY <1>2, <1>5, <2>2, <2>5
  <2>7. AckOnItsWay'
    BY <1>3, <1>8, <1>10, <2>3, <2>4, <2>6 DEF AckOnItsWay, OnlyCommands
  <2> QED
    BY <2>1, <2>7 DEF CommandsDown
<1>11. /\ AtTheServer' \/ AckOnItsWay'
       /\ CommandsDown' = CommandsDown - 1 /\ CommandsDown \in Nat /\ CommandsDown <= Len(down)
  BY <1>2, <1>5, <1>9, <1>10
<1>12. Pending'
  <2>1. Len(issued) = Len(executed) + CommandsDown
    BY <1>2 DEF Pending
  <2>2. Len(issued') = Len(executed') + CommandsDown'
    BY <1>3, <1>6, <1>11, <2>1
  <2>3. ASSUME NEW i \in 1..CommandsDown'
        PROVE  down'[i] = Cmd(issued'[Len(executed') + i])
    <3>1. i + 1 \in 1..CommandsDown /\ i \in 1..Len(down')
      BY <1>2, <1>5, <1>11, <2>3
    <3>2. down[i + 1] = Cmd(issued[Len(executed) + (i + 1)])
      BY <1>2, <3>1 DEF Pending
    <3>3. Len(executed') + i = Len(executed) + (i + 1)
      BY <1>6
    <3> QED
      BY <1>3, <1>5, <3>1, <3>2, <3>3
  <2> QED
    BY <2>2, <2>3 DEF Pending
<1>13. ExecutedFirst'
  <2>1. Len(executed) + 1 <= Len(issued)
    BY <1>1, <1>2, <1>6, <1>11 DEF Pending
  <2> QED
    BY <1>2, <1>3, <1>6, <2>1 DEF ExecutedFirst
<1> QED
  BY <1>2, <1>3, <1>7, <1>11, <1>12, <1>13 DEF QuietInv

-----------------------------------------------------------------------------
\* The server's steps.

\* Outside a session only the history of the commands matters.
LEMMA QuietOutside ==
  ASSUME ExecutedFirst', ~Connected'
  PROVE  QuietInv'
  BY DEF QuietInv

LEMMA QuietSrvLogin ==
  ASSUME TypeOK, QuietInv, NEW ok \in BOOLEAN, SrvLogin(ok)
  PROVE  QuietInv'
<1>1. /\ srv = "hello" /\ up # <<>> /\ up' = Tail(up)
      /\ \E x \in {0, 1} : down' = Append(down, Login(x))
      /\ srv' # "hello" /\ (Connected' <=> Connected)
      /\ UNCHANGED <<faza, sent, toAck, acked, issued, executed, off, rx>>
  BY DEF SrvLogin, devVars, Connected
<1>2. ExecutedFirst'
  BY <1>1 DEF QuietInv, ExecutedFirst
<1>3. CASE Connected
  <2>1. faza = 0 /\ BeforeRecords /\ up \in Seq(Message)
    BY <1>1, <1>3 DEF QuietInv, TypeOK, StreamType
  <2>2. down = <<>>
    BY <1>1, <2>1 DEF BeforeRecords
  <2>3. \E x \in {0, 1} : down' = <<Login(x)>>
    BY <1>1, <2>2
  <2>4. ~RecordUp'
    BY <1>1, <2>1 DEF BeforeRecords, RecordUp, IsRecord
  <2>5. BeforeRecords'
    BY <1>1, <2>1, <2>3, <2>4 DEF BeforeRecords
  <2> QED
    BY <1>1, <1>2, <2>1, <2>5 DEF QuietInv
<1> QED
  BY <1>1, <1>2, <1>3, QuietOutside

\* The server gets the record: there was one on its way, and only one.
LEMMA QuietSrvRecord ==
  ASSUME TypeOK, QuietInv, SrvRecord
  PROVE  QuietInv' /\ (Connected => faza = 2 /\ OnItsWay)
<1>1. /\ srv = "open" /\ up # <<>> /\ IsRecord(Head(up)) /\ up' = Tail(up)
      /\ toAck' = Append(toAck, Head(up).val) /\ (Connected' <=> Connected)
      /\ UNCHANGED <<faza, wait_ack, kol_pack, rx, lenr_wait, down, off, srv, acked, issued,
                     sent, executed>>
  BY DEF SrvRecord, IsRecord, devVars, Connected
<1>2. ExecutedFirst'
  BY <1>1 DEF QuietInv, ExecutedFirst
<1>3. /\ up \in Seq(Message) /\ Head(up) = up[1] /\ 1 \in 1..Len(up) /\ Len(up) \in Nat \ {0}
      /\ Len(up') = Len(up) - 1 /\ \A i \in 1..Len(up') : up'[i] = up[i + 1]
  BY <1>1, HeadTailProperties DEF TypeOK, StreamType
<1>4. RecordUp
  BY <1>1, <1>3 DEF RecordUp
<1>5. CASE Connected
  <2>1. faza = 2 /\ OnItsWay /\ Framed /\ Pending
    BY <1>4, <1>5 DEF QuietInv, BeforeRecords, Confirmed, AtTheServer, AckOnItsWay, TypeOK, ControlType
  <2>2. PICK i \in 1..Len(up) :
          up[i] = Rec(kol_pack) /\ \A j \in 1..Len(up) : IsRecord(up[j]) => j = i
    BY <2>1 DEF OnItsWay, OneRecordUp
  <2>3. i = 1 /\ Head(up).val = kol_pack
    BY <1>1, <1>3, <2>2 DEF Rec
  <2>4. ~RecordUp'
    <3>1. \A j \in 1..Len(up') : j + 1 \in 1..Len(up) /\ j + 1 # 1
      BY <1>3
    <3> QED
      BY <1>3, <2>2, <2>3, <3>1 DEF RecordUp, IsRecord
  <2>5. toAck' = <<kol_pack>> /\ down = <<>>
    BY <1>1, <2>1, <2>3 DEF OnItsWay
  <2>6. AtTheServer'
    BY <1>1, <2>1, <2>4, <2>5 DEF AtTheServer, OnItsWay, OnlyCommands
  <2>7. Framed' /\ Pending'
    <3>1. CommandsDown = 0 /\ CommandsDown' = 0
      BY <1>1, <2>5 DEF CommandsDown, AckOnItsWay
    <3> QED
      BY <1>1, <2>1, <3>1 DEF Framed, Pending
  <2> QED
    BY <1>1, <1>2, <2>1, <2>6, <2>7 DEF QuietInv
<1> QED
  BY <1>1, <1>2, <1>5, QuietOutside

LEMMA QuietSrvReply ==
  ASSUME TypeOK, QuietInv, SrvReply
  PROVE  QuietInv'
<1>1. /\ up # <<>> /\ ~IsRecord(Head(up)) /\ up' = Tail(up) /\ (Connected' <=> Connected)
      /\ UNCHANGED <<faza, wait_ack, kol_pack, rx, lenr_wait, down, off, srv, toAck, acked,
                     issued, sent, executed>>
  BY DEF SrvReply, IsRecord, devVars, srvVars, Connected
<1>2. ExecutedFirst'
  BY <1>1 DEF QuietInv, ExecutedFirst
<1>3. /\ up \in Seq(Message) /\ Head(up) = up[1] /\ 1 \in 1..Len(up) /\ Len(up) \in Nat \ {0}
      /\ Len(up') = Len(up) - 1 /\ \A i \in 1..Len(up') : up'[i] = up[i + 1]
  BY <1>1, HeadTailProperties DEF TypeOK, StreamType
<1>4. ~RecordUp => ~RecordUp'
  <2>1. \A j \in 1..Len(up') : j + 1 \in 1..Len(up)
    BY <1>3
  <2> QED
    BY <1>3, <2>1 DEF RecordUp, IsRecord
<1>5. OneRecordUp => OneRecordUp'
  <2> SUFFICES ASSUME OneRecordUp PROVE OneRecordUp'
    OBVIOUS
  <2>1. PICK i \in 1..Len(up) :
          up[i] = Rec(kol_pack) /\ \A j \in 1..Len(up) : IsRecord(up[j]) => j = i
    BY DEF OneRecordUp
  <2>2. i # 1
    BY <1>1, <1>3, <2>1 DEF IsRecord, Rec
  <2>3. i - 1 \in 1..Len(up') /\ up'[i - 1] = Rec(kol_pack)
    BY <1>3, <2>1, <2>2
  <2>4. ASSUME NEW j \in 1..Len(up'), IsRecord(up'[j])
        PROVE  j = i - 1
    <3>1. j + 1 \in 1..Len(up) /\ up'[j] = up[j + 1]
      BY <1>3, <2>4
    <3>2. j + 1 = i
      BY <2>1, <2>4, <3>1
    <3> QED
      BY <3>2
  <2> QED
    BY <1>1, <2>3, <2>4 DEF OneRecordUp, IsRecord
<1>6. /\ Confirmed => Confirmed'
      /\ OnItsWay => OnItsWay'
      /\ AtTheServer => AtTheServer'
      /\ AckOnItsWay => AckOnItsWay'
  BY <1>1, <1>4, <1>5 DEF Confirmed, OnItsWay, AtTheServer, AckOnItsWay, OnlyCommands
<1>7. CASE Connected
  <2>1. BeforeRecords => BeforeRecords'
    BY <1>1, <1>4 DEF BeforeRecords
  <2>2. faza = 2 => Framed' /\ Pending'
    <3> SUFFICES ASSUME faza = 2 PROVE Framed' /\ Pending'
      OBVIOUS
    <3>1. Framed /\ Pending /\ (Confirmed \/ OnItsWay \/ AtTheServer \/ AckOnItsWay)
      BY <1>7 DEF QuietInv
    <3>2. AckOnItsWay' <=> AckOnItsWay
      <4>1. CASE Confirmed \/ OnItsWay \/ AtTheServer
        <5>1. ~AckOnItsWay
          BY <4>1 DEF Confirmed, OnItsWay, AtTheServer, AckOnItsWay
        <5>2. ~AckOnItsWay'
          BY <1>6, <4>1 DEF Confirmed, OnItsWay, AtTheServer, AckOnItsWay
        <5> QED
          BY <5>1, <5>2
      <4> QED
        BY <1>6, <3>1, <4>1
    <3>3. CommandsDown' = CommandsDown
      BY <1>1, <3>2 DEF CommandsDown
    <3> QED
      BY <1>1, <3>1, <3>3 DEF Framed, Pending
  <2> QED
    BY <1>1, <1>2, <1>6, <1>7, <2>1, <2>2 DEF QuietInv
<1> QED
  BY <1>1, <1>2, <1>7, QuietOutside

\* With something to acknowledge, the server has the record.
LEMMA ToAckMeans ==
  ASSUME TypeOK, QuietInv, Connected, toAck # <<>>
  PROVE  /\ faza = 2 /\ AtTheServer /\ Framed /\ Pending /\ srv # "hello"
         /\ CommandsDown = Len(down) /\ down \in Seq(Frame) /\ Len(down) \in Nat
<1>1. faza = 2 /\ AtTheServer
  BY DEF QuietInv, BeforeRecords, Confirmed, OnItsWay, AckOnItsWay
<1>2. ~AckOnItsWay
  BY <1>1 DEF AckOnItsWay
<1> QED
  BY <1>1, <1>2 DEF QuietInv, CommandsDown, TypeOK, StreamType

LEMMA QuietSrvAck ==
  ASSUME TypeOK, QuietInv, SrvAck
  PROVE  QuietInv'
<1>1. /\ toAck # <<>> /\ down' = Append(down, Ack(Head(toAck))) /\ toAck' = Tail(toAck)
      /\ acked' = acked + 1 /\ (Connected' <=> Connected)
      /\ UNCHANGED <<faza, wait_ack, kol_pack, rx, lenr_wait, up, off, srv, issued, sent, executed>>
  BY DEF SrvAck, devVars, Connected
<1>2. ExecutedFirst'
  BY <1>1 DEF QuietInv, ExecutedFirst
<1>3. CASE Connected
  <2>1. /\ faza = 2 /\ AtTheServer /\ Framed /\ Pending /\ srv # "hello"
        /\ CommandsDown = Len(down) /\ down \in Seq(Frame) /\ Len(down) \in Nat
    BY <1>1, <1>3, ToAckMeans
  <2>2. toAck = <<kol_pack>> /\ kol_pack \in 1..MaxPk
    BY <2>1 DEF AtTheServer, TypeOK, PackType
  <2>3. toAck' = <<>> /\ down' = Append(down, Ack(kol_pack)) /\ Ack(kol_pack) \in Frame
    BY <1>1, <2>2, MessagesType
  <2>4. /\ Len(down') = Len(down) + 1 /\ down'[Len(down) + 1] = Ack(kol_pack) /\ down' # <<>>
        /\ \A i \in 1..Len(down) : down'[i] = down[i]
        /\ down # <<>> => Head(down') = Head(down)
    BY <2>1, <2>3
  <2>5. OnlyCommands(Len(down))
    BY <2>1 DEF AtTheServer
  <2>6. AckOnItsWay'
    BY <1>1, <2>1, <2>3, <2>4, <2>5 DEF AckOnItsWay, AtTheServer, OnlyCommands, RecordUp
  <2>7. CommandsDown' = CommandsDown
    BY <2>1, <2>4, <2>6 DEF CommandsDown
  <2>8. Pending'
    BY <1>1, <2>1, <2>4, <2>7 DEF Pending
  <2>9. Framed'
    BY <1>1, <2>1, <2>4 DEF Framed
  <2> QED
    BY <1>1, <1>2, <2>1, <2>6, <2>8, <2>9 DEF QuietInv
<1> QED
  BY <1>1, <1>2, <1>3, QuietOutside

\* A command follows the others, before the acknowledgement.
LEMMA QuietSrvCommand ==
  ASSUME ~CmdAnyTime, TypeOK, QuietInv, NEW id \in CmdIds, SrvCommand(id)
  PROVE  QuietInv'
<1>1. /\ toAck # <<>> /\ down' = Append(down, Cmd(id)) /\ issued' = Append(issued, id)
      /\ (Connected' <=> Connected)
      /\ UNCHANGED <<faza, wait_ack, kol_pack, rx, lenr_wait, up, off, srv, toAck, acked, sent,
                     executed>>
  BY DEF SrvCommand, devVars, Connected
<1>2. /\ issued \in Seq(CmdIds) /\ executed \in Seq(CmdIds \cup {Unknown})
      /\ Len(issued) \in Nat /\ Len(executed) \in Nat
      /\ Len(issued') = Len(issued) + 1 /\ issued'[Len(issued) + 1] = id
      /\ \A i \in 1..Len(issued) : issued'[i] = issued[i]
  BY <1>1 DEF TypeOK, ServerType, CountersType
<1>3. ExecutedFirst'
  BY <1>1, <1>2 DEF QuietInv, ExecutedFirst
<1>4. CASE Connected
  <2>1. /\ faza = 2 /\ AtTheServer /\ Framed /\ Pending /\ srv # "hello"
        /\ CommandsDown = Len(down) /\ down \in Seq(Frame) /\ Len(down) \in Nat
    BY <1>1, <1>4, ToAckMeans
  <2>2. /\ Len(down') = Len(down) + 1 /\ down'[Len(down) + 1] = Cmd(id) /\ down' # <<>>
        /\ \A i \in 1..Len(down) : down'[i] = down[i]
        /\ down # <<>> => Head(down') = Head(down)
    BY <1>1, <2>1, MessagesType
  <2>3. AtTheServer'
    <3>1. Cmd(id).kind = "cmd"
      BY DEF Cmd
    <3> QED
      BY <1>1, <2>1, <2>2, <3>1 DEF AtTheServer, OnlyCommands, RecordUp
  <2>4. CommandsDown' = Len(down) + 1
    <3>1. ~AckOnItsWay'
      BY <2>3 DEF AtTheServer, AckOnItsWay
    <3> QED
      BY <2>2, <3>1 DEF CommandsDown
  <2>5. Pending'
    <3>1. Len(issued) = Len(executed) + Len(down)
      BY <2>1 DEF Pending
    <3>2. ASSUME NEW i \in 1..Len(down) + 1
          PROVE  down'[i] = Cmd(issued'[Len(executed) + i])
      <4>1. CASE i = Len(down) + 1
        BY <1>2, <2>1, <2>2, <3>1, <4>1
      <4>2. CASE i \in 1..Len(down)
        <5>1. Len(executed) + i \in 1..Len(issued)
          BY <1>2, <2>1, <3>1, <4>2
        <5>2. down[i] = Cmd(issued[Len(executed) + i])
          BY <2>1, <4>2 DEF Pending
        <5> QED
          BY <1>2, <2>2, <4>2, <5>1, <5>2
      <4> QED
        BY <2>1, <3>2, <4>1, <4>2
    <3> QED
      BY <1>1, <1>2, <2>1, <2>4, <3>1, <3>2 DEF Pending
  <2>6. Framed'
    BY <1>1, <2>1, <2>2 DEF Framed
  <2> QED
    BY <1>1, <1>3, <2>1, <2>3, <2>5, <2>6 DEF QuietInv
<1> QED
  BY <1>1, <1>3, <1>4, QuietOutside

LEMMA QuietSrvClose ==
  ASSUME QuietInv, SrvClose
  PROVE  QuietInv'
<1>1. /\ srv' # "hello" /\ (Connected' <=> Connected)
      /\ UNCHANGED <<faza, wait_ack, kol_pack, rx, lenr_wait, up, down, off, toAck, acked,
                     issued, sent, executed>>
  BY DEF SrvClose, devVars, Connected
<1>2. ExecutedFirst' /\ (BeforeRecords => BeforeRecords') /\ (Framed => Framed')
  BY <1>1 DEF QuietInv, ExecutedFirst, BeforeRecords, RecordUp, Framed
<1>3. /\ Confirmed' = Confirmed /\ OnItsWay' = OnItsWay
      /\ AtTheServer' = AtTheServer /\ AckOnItsWay' = AckOnItsWay
  BY <1>1 DEF Confirmed, OnItsWay, AtTheServer, AckOnItsWay, RecordUp, OneRecordUp, OnlyCommands
<1>4. Pending => Pending'
  BY <1>1, <1>3 DEF Pending, CommandsDown
<1> QED
  BY <1>1, <1>2, <1>3, <1>4 DEF QuietInv

-----------------------------------------------------------------------------
LEMMA QuietStep ==
  ASSUME ~CmdAnyTime, TypeOK, QuietInv, [Next]_vars
  PROVE  QuietInv'
<1>1. CASE \/ OuterExit \/ ConnectFails \/ LoopExit \/ ToRecv \/ SendNothing
           \/ RecvNothing \/ RecvClosed \/ CheckAckTimer
  <2>1. /\ Connected' => Connected
        /\ UNCHANGED <<faza, wait_ack, kol_pack, rx, lenr_wait, up, down, off, srv, toAck,
                       acked, issued, sent, executed>>
    BY <1>1 DEF OuterExit, ConnectFails, LoopExit, ToRecv, SendNothing, RecvNothing, RecvClosed,
       CheckAckTimer, InLoop, Connected, devVars, srvVars
  <2> QED
    BY <2>1, QuietFrame
<1>2. CASE AckTimeout \/ SendTimeout \/ AskRestart \/ TakeBack \/ UNCHANGED vars
  <2>1. /\ Connected' => Connected
        /\ UNCHANGED <<faza, wait_ack, kol_pack, rx, lenr_wait, up, down, off, srv, toAck,
                       acked, issued, sent, executed>>
    BY <1>2 DEF AckTimeout, SendTimeout, AskRestart, TakeBack, Connected, devVars, srvVars, vars
  <2> QED
    BY <2>1, QuietFrame
<1>3. CASE ConnectOk \/ CloseSession \/ Grant \/ RecvLogin
  BY <1>3, QuietConnect, QuietClose, QuietGrant, QuietLogin
<1>4. CASE RecvMore \/ RecvAck \/ RecvHeader
  BY <1>4, QuietMore, QuietAck, QuietHeader
<1>5. CASE \E ok \in BOOLEAN : SendImei(ok) \/ RecvCommand(ok) \/ SrvLogin(ok)
  BY <1>5, QuietImei, QuietCommand, QuietSrvLogin
<1>6. CASE \E outcome \in {"ok", "short", "nomem"} : SendRecord(outcome)
  BY <1>6, QuietSend
<1>7. CASE SrvRecord \/ SrvReply \/ SrvAck \/ SrvClose \/ \E id \in CmdIds : SrvCommand(id)
  BY <1>7, QuietSrvRecord, QuietSrvReply, QuietSrvAck, QuietSrvClose, QuietSrvCommand
<1> QED
  BY <1>1, <1>2, <1>3, <1>4, <1>5, <1>6, <1>7 DEF Next, Device, Server, Done

\* The inductive invariant: where the last record and its acknowledgement are,
\* which frame the buffer holds a beginning of, and which commands are on their
\* way, in every state of a session with such a server (fmb630.c:1348-1436).
THEOREM SpecQuietInv ==
  ASSUME ~CmdAnyTime
  PROVE  Spec => []QuietInv
<1>1. Init => QuietInv
  BY QuietInit
<1>2. TypeOK /\ QuietInv /\ [Next]_vars => QuietInv'
  BY QuietStep
<1> QED
  BY <1>1, <1>2, SpecTypeOK, PTL DEF Spec

\* The device never loses its place in the server's stream (fmb630.c:1365).
THEOREM SpecInFrame ==
  ASSUME ~CmdAnyTime
  PROVE  Spec => []InFrame
<1>1. QuietInv => InFrame
  BY DEF QuietInv, Framed, InFrame
<1> QED
  BY <1>1, SpecQuietInv, PTL

\* The wait for an acknowledgement ends only with the acknowledgement
\* (fmb630.c:1432).
THEOREM SpecNoFalseAck ==
  ASSUME ~CmdAnyTime
  PROVE  Spec => []NoFalseAck
<1>1. QuietInv => NoFalseAck
  BY DEF QuietInv, Confirmed, OnItsWay, AtTheServer, AckOnItsWay, NoFalseAck
<1> QED
  BY <1>1, SpecQuietInv, PTL

\* An acknowledgement is for the packet that is waited for (fmb630.c:1432).
THEOREM SpecAckMatchesPacket ==
  ASSUME ~CmdAnyTime
  PROVE  Spec => []AckMatchesPacket
<1>1. TypeOK /\ QuietInv => AckMatchesPacket
  <2> SUFFICES ASSUME TypeOK, QuietInv, Connected,
                      NEW i \in 1..Len(down), down[i].kind = "ack"
               PROVE  wait_ack /\ down[i].val = kol_pack
    BY DEF AckMatchesPacket
  <2>0. down \in Seq(Frame) /\ Len(down) \in Nat /\ faza \in 0..2
    BY DEF TypeOK, StreamType, ControlType
  <2>1. faza = 2
    <3>1. CASE faza # 2
      <4>1. BeforeRecords /\ down # <<>>
        BY <3>1, <2>0 DEF QuietInv
      <4>2. PICK ok \in {0, 1} : down = <<Login(ok)>>
        BY <4>1 DEF BeforeRecords
      <4>3. i = 1 /\ down[1] = Login(ok)
        BY <4>2
      <4> QED
        BY <4>3 DEF Login
    <3> QED
      BY <3>1
  <2>2. AckOnItsWay
    BY <2>0, <2>1 DEF QuietInv, Confirmed, OnItsWay, AtTheServer, OnlyCommands
  <2>3. i = Len(down)
    BY <2>0, <2>2 DEF AckOnItsWay, OnlyCommands
  <2> QED
    BY <2>2, <2>3 DEF AckOnItsWay, Ack
<1> QED
  BY <1>1, SpecTypeOK, SpecQuietInv, PTL

\* Commands are executed in the order they were issued, each once
\* (fmb630.c:1389-1430).
THEOREM SpecCommandsInOrder ==
  ASSUME ~CmdAnyTime
  PROVE  Spec => []CommandsInOrder
<1>1. TypeOK /\ QuietInv => CommandsInOrder
  <2> SUFFICES ASSUME TypeOK, QuietInv
               PROVE  executed = SubSeq(issued, 1, Len(executed))
    BY DEF CommandsInOrder
  <2>1. /\ executed \in Seq(CmdIds \cup {Unknown}) /\ issued \in Seq(CmdIds)
        /\ Len(executed) \in Nat /\ Len(issued) \in Nat
    BY DEF TypeOK, ServerType, CountersType
  <2>2. Len(executed) <= Len(issued) /\ \A i \in 1..Len(executed) : executed[i] = issued[i]
    BY DEF QuietInv, ExecutedFirst
  <2>3. \A i \in 1..Len(executed) : issued[i] \in CmdIds \cup {Unknown}
    BY <2>1, <2>2
  <2>4. /\ SubSeq(issued, 1, Len(executed)) \in Seq(CmdIds \cup {Unknown})
        /\ Len(SubSeq(issued, 1, Len(executed))) = Len(executed)
        /\ \A i \in 1..Len(executed) : SubSeq(issued, 1, Len(executed))[i] = issued[i]
    BY <2>1, <2>3, SubSeqProperties
  <2> QED
    BY <2>1, <2>2, <2>4, SeqEqual
<1> QED
  BY <1>1, SpecTypeOK, SpecQuietInv, PTL

-----------------------------------------------------------------------------
\* The session implements StopAndWait: every step of it is a step of the
\* abstract specification or leaves its variables alone.

LEMMA PromiseInit == Init => Promise!Init
  BY DEF Init, Promise!Init, Flowing, Connected

\* A step that changes none of what the abstract variables are made of.
LEMMA PromiseStutter ==
  ASSUME Flowing' <=> Flowing, Flowing => UNCHANGED <<sent, wait_ack>>,
         Flowing => acked' + Len(toAck') = acked + Len(toAck)
  PROVE  UNCHANGED Promise!vars
  BY DEF Promise!vars

\* A session that leaves phase 2 closes the link.
LEMMA PromiseClose ==
  ASSUME Flowing, ~Flowing'
  PROVE  Promise!Close
  BY DEF Promise!Close

\* Phase 2 opens the link with all counts at zero.
LEMMA PromiseOpen ==
  ASSUME TypeOK, QuietInv, Grant
  PROVE  [Promise!Next]_Promise!vars
<1>1. /\ ~Flowing /\ sent = 0 /\ acked = 0 /\ toAck = <<>>
      /\ UNCHANGED <<sent, acked, toAck>>
  BY DEF Grant, InLoop, Connected, QuietInv, BeforeRecords, Flowing, srvVars
<1>2. CASE grant
  <2>1. Flowing' /\ ~wait_ack'
    BY <1>2 DEF Grant, Flowing, Connected
  <2>2. Promise!Open
    BY <1>1, <2>1 DEF Promise!Open
  <2> QED
    BY <2>2 DEF Promise!Next
<1>3. CASE ~grant
  <2>1. ~Flowing'
    BY <1>3 DEF Grant, InLoop, Flowing
  <2> QED
    BY <1>1, <2>1, PromiseStutter
<1> QED
  BY <1>2, <1>3

LEMMA PromiseOffer ==
  ASSUME TypeOK, QuietInv, NEW outcome \in {"ok", "short", "nomem"}, SendRecord(outcome)
  PROVE  [Promise!Next]_Promise!vars
<1>1. /\ Flowing /\ Flowing' /\ ~wait_ack /\ UNCHANGED <<acked, toAck>> /\ sent \in Nat
  BY DEF SendRecord, InLoop, MaySend, Connected, Flowing, srvVars, TypeOK, CountersType
<1>2. CASE outcome = "ok"
  <2>1. sent' = sent + 1 /\ wait_ack'
    BY <1>2 DEF SendRecord
  <2>2. Promise!Offer
    BY <1>1, <2>1 DEF Promise!Offer
  <2> QED
    BY <2>2 DEF Promise!Next
<1>3. CASE outcome # "ok"
  <2>1. UNCHANGED <<sent, wait_ack>>
    BY <1>3 DEF SendRecord
  <2> QED
    BY <1>1, <2>1, PromiseStutter
<1> QED
  BY <1>2, <1>3

LEMMA PromiseReceive ==
  ASSUME TypeOK, QuietInv, SrvRecord
  PROVE  [Promise!Next]_Promise!vars
<1>1. /\ (Flowing' <=> Flowing) /\ UNCHANGED <<acked, sent, wait_ack>>
      /\ toAck' = Append(toAck, Head(up).val)
  BY DEF SrvRecord, Flowing, Connected, devVars
<1>2. CASE Flowing
  <2>1. OnItsWay /\ sent \in Nat /\ acked \in Nat
    BY <1>2, QuietSrvRecord DEF Flowing, TypeOK, CountersType, ServerType
  <2>2. Len(toAck) = 0 /\ Len(toAck') = 1
    BY <1>1, <2>1 DEF OnItsWay
  <2>3. Promise!Receive
    BY <1>1, <1>2, <2>1, <2>2 DEF Promise!Receive, OnItsWay
  <2> QED
    BY <2>3 DEF Promise!Next
<1>3. CASE ~Flowing
  BY <1>1, <1>3, PromiseStutter
<1> QED
  BY <1>2, <1>3

LEMMA PromiseConfirm ==
  ASSUME TypeOK, QuietInv, RecvAck
  PROVE  [Promise!Next]_Promise!vars
<1>1. /\ Flowing /\ Flowing' /\ ~wait_ack' /\ UNCHANGED <<acked, toAck, sent>>
      /\ sent \in Nat /\ acked \in Nat
  BY DEF RecvAck, RecvFrameByte, Flowing, Connected, srvVars, TypeOK, CountersType, ServerType
<1>2. wait_ack /\ acked = sent /\ Len(toAck) = 0
  BY AckArrives DEF AckOnItsWay
<1>3. Promise!Confirm
  BY <1>1, <1>2 DEF Promise!Confirm
<1> QED
  BY <1>3 DEF Promise!Next

LEMMA PromiseStep ==
  ASSUME TypeOK, QuietInv, [Next]_vars
  PROVE  [Promise!Next]_Promise!vars
<1>0. toAck \in Seq(1..MaxPk) /\ acked \in Nat
  BY DEF TypeOK, ServerType
<1>1. CASE OuterExit \/ ConnectFails \/ ConnectOk \/ CloseSession
  <2>1. ~Flowing /\ ~Flowing'
    BY <1>1 DEF OuterExit, ConnectFails, ConnectOk, CloseSession, Flowing, Connected
  <2> QED
    BY <2>1, PromiseStutter
<1>2. CASE LoopExit
  <2>1. ~Flowing'
    BY <1>2 DEF LoopExit, Flowing, Connected
  <2>2. CASE Flowing
    BY <2>1, <2>2, PromiseClose DEF Promise!Next
  <2>3. CASE ~Flowing
    BY <2>1, <2>3, PromiseStutter
  <2> QED
    BY <2>2, <2>3
<1>3. CASE RecvLogin \/ \E ok \in BOOLEAN : SendImei(ok)
  <2>1. ~Flowing /\ ~Flowing'
    BY <1>3 DEF RecvLogin, SendImei, InLoop, Flowing
  <2> QED
    BY <2>1, PromiseStutter
<1>4. CASE \/ ToRecv \/ SendNothing \/ RecvNothing \/ RecvClosed \/ RecvMore \/ RecvHeader
           \/ CheckAckTimer \/ AckTimeout \/ SendTimeout \/ AskRestart \/ TakeBack \/ UNCHANGED vars
           \/ SrvReply \/ SrvClose
           \/ \E ok \in BOOLEAN : RecvCommand(ok) \/ SrvLogin(ok)
           \/ \E id \in CmdIds : SrvCommand(id)
  <2>1. /\ UNCHANGED <<faza, wait_ack, sent, acked, toAck>> /\ (Connected' <=> Connected)
    <3>1. CASE \/ ToRecv \/ SendNothing \/ RecvNothing \/ RecvClosed \/ RecvMore \/ RecvHeader
               \/ CheckAckTimer \/ \E ok \in BOOLEAN : RecvCommand(ok)
      BY <3>1 DEF ToRecv, SendNothing, RecvNothing, RecvClosed, RecvMore, RecvHeader, InLoop,
         RecvFrameByte, CheckAckTimer, RecvCommand, Connected, devVars, srvVars
    <3>2. CASE \/ AckTimeout \/ SendTimeout \/ AskRestart \/ TakeBack \/ UNCHANGED vars
               \/ SrvReply \/ SrvClose
               \/ \E ok \in BOOLEAN : SrvLogin(ok)
               \/ \E id \in CmdIds : SrvCommand(id)
      BY <3>2 DEF AckTimeout, SendTimeout, AskRestart, TakeBack, vars, SrvReply, SrvClose, SrvLogin,
         SrvCommand, Connected, devVars, srvVars
    <3> QED
      BY <1>4, <3>1, <3>2
  <2> QED
    BY <2>1, PromiseStutter DEF Flowing
<1>5. CASE SrvAck
  <2>1. /\ UNCHANGED <<pc, faza, wait_ack, sent>> /\ acked' = acked + 1
        /\ toAck # <<>> /\ toAck' = Tail(toAck)
    BY <1>5 DEF SrvAck, devVars
  <2>2. acked' + Len(toAck') = acked + Len(toAck)
    <3>1. Len(toAck) \in Nat /\ Len(toAck') = Len(toAck) - 1
      BY <1>0, <2>1, HeadTailProperties
    <3> QED
      BY <1>0, <2>1, <3>1
  <2> QED
    BY <2>1, <2>2, PromiseStutter DEF Flowing, Connected
<1>6. CASE Grant \/ RecvAck \/ SrvRecord \/ \E o \in {"ok", "short", "nomem"} : SendRecord(o)
  BY <1>6, PromiseOpen, PromiseConfirm, PromiseReceive, PromiseOffer
<1> QED
  BY <1>1, <1>2, <1>3, <1>4, <1>5, <1>6 DEF Next, Device, Server, Done

\* The session keeps its promise to the server: one record at a time, and none
\* confirmed before the server has it (fmb630.c:1348-1436).
THEOREM SpecStopAndWait ==
  ASSUME ~CmdAnyTime
  PROVE  Spec => StopAndWaitRecords
<1>1. Init => Promise!Init
  BY PromiseInit
<1>2. TypeOK /\ QuietInv /\ [Next]_vars => [Promise!Next]_Promise!vars
  BY PromiseStep
<1> QED
  BY <1>1, <1>2, SpecTypeOK, SpecQuietInv, PTL DEF Spec, StopAndWaitRecords, Promise!Spec
=============================================================================

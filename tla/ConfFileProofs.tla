--------------------------- MODULE ConfFileProofs ---------------------------
(***************************************************************************)
(* Proofs about ConfFile and the FTP client in it, for any files, any      *)
(* number of lines in them and any number of parameters a file must have.  *)
(***************************************************************************)
EXTENDS ConfFile, FiniteSetTheorems, SequenceTheorems, TLAPS

-----------------------------------------------------------------------------
\* The talk of client and server.  Nothing is asked and nothing is on its way, or
\* the client awaits the answer to one command: the server has the command, the
\* answer is on its way, or both are lost with the connection.
Silent == asked = "none" /\ replies = <<>>

Exchange(cmd) ==
  /\ asked \in {"none", cmd} /\ Len(replies) <= 1
  /\ asked # "none" => link /\ replies = <<>>
  /\ link /\ asked = "none" => replies # <<>>

\* RETR has been granted, and the transfer may have ended meanwhile.
Begun ==
  /\ asked \in {"none", "transfer"}
  /\ replies # <<>> /\ Head(replies) = 1 /\ Len(replies) \in {1, 2}
  /\ asked # "none" => link /\ Len(replies) = 1
  /\ link /\ asked = "none" => Len(replies) = 2

TalkInv ==
  /\ fpc \in {"none", "wait", "open", "end", "refused"} => Silent
  /\ fpc = "refused" => ~link
  /\ fpc \in {"greet", "user", "pass", "type", "pasv", "final", "quit"} => Exchange(Owed)
  /\ fpc = "retr" =>
       \/ Exchange("RETR") /\ \A i \in 1..Len(replies) : replies[i] = 5
       \/ Begun
  /\ fpc = "read" => Exchange("transfer") /\ response = 1

\* What the client holds.
HeldInv ==
  /\ fpc \in {"none", "wait", "end"} => ~nControl /\ ~link
  /\ nData => fpc \in {"retr", "read"}
  /\ local <=> fpc \in {"type", "pasv", "retr", "refused", "read"}

\* What is on the media.  While the local file is open it is a beginning of the
\* served one, unless its medium has been unmounted, and nobody counts on what was
\* there before.
FileInv ==
  /\ local =>
       /\ fallback = Absent /\ target \notin sure
       /\ target \in mounted =>
            \E n \in 0..Len(Lines[Served]) : file[target] = Text(Served, n, "none")
  /\ ret # 0 => fpc \in {"final", "quit", "end"}
  /\ fpc # "none" /\ ret = 0 /\ ~local /\ target \in mounted => file[target] = fallback
  /\ SureKept

\* What the main task may count on.
MainInv ==
  /\ mpc \notin {"loop", "launch", "stopping", "unmounted"} => fpc = "none"
  /\ fpc # "none" /\ mpc # "unmounted" => target \in mounted
  /\ mpc = "copy" => "disk" \notin sure
  /\ mpc \in {"off", "card", "disk", "copy", "read"} => gps_ini = Zero /\ ones = <<>>
  /\ Configured

ConfInv == TypeOK /\ TalkInv /\ HeldInv /\ FileInv /\ MainInv

-----------------------------------------------------------------------------
\* The talk with the server.
Digits == {1, 2, 3, 5}

LEMMA OneDigit ==
  /\ \A d \in Digits : /\ <<d>> \in Seq(Digits) /\ Len(<<d>>) = 1 /\ <<d>> # <<>>
                       /\ <<d>>[1] = d /\ Head(<<d>>) = d /\ Append(<<>>, d) = <<d>>
  /\ <<>> \in Seq(Digits) /\ Len(<<>>) = 0
  OBVIOUS

\* While the client awaits one answer, reading takes it, or learns that it is lost;
\* either way nothing is on its way any more.
LEMMA AnswerTaken ==
  ASSUME replies \in Seq(Digits), NEW cmd, Exchange(cmd),
         NEW c, NEW ok, ReadResponse(c, ok)
  PROVE  /\ asked = "none" /\ replies' = <<>>
         /\ \/ /\ replies # <<>> /\ response' = Head(replies)
               /\ response' \in Digits /\ ok = (response' = c)
            \/ ~link /\ ~ok /\ response' = response
<1>1. CASE replies # <<>>
  <2>1. Head(replies) \in Digits /\ Tail(replies) = <<>>
    <3>1. Len(replies) = 1
      BY <1>1, EmptySeq DEF Exchange
    <3>2. Tail(replies) \in Seq(Digits) /\ Len(Tail(replies)) = 0
      BY <1>1, <3>1, HeadTailProperties
    <3> QED
      BY <1>1, <3>2, HeadTailProperties, EmptySeq
  <2> QED
    BY <1>1, <2>1 DEF Exchange, ReadResponse
<1>2. CASE replies = <<>>
  BY <1>2 DEF Exchange, ReadResponse
<1> QED
  BY <1>1, <1>2

LEMMA CommandSent ==
  ASSUME NEW cmd, cmd # "none", Send(cmd), replies' = <<>>, UNCHANGED link
  PROVE  Exchange(cmd)'
<1>1. asked' = IF link THEN cmd ELSE "none"
  BY DEF Send
<1>2. Len(replies') = 0
  BY OneDigit
<1> QED
  BY <1>1, <1>2 DEF Exchange

\* What the talk has to be like depends on where the client is.
TalkFits ==
  /\ fpc \in {"none", "wait", "open", "end"} /\ Silent => TalkInv
  /\ fpc = "refused" /\ Silent /\ ~link => TalkInv
  /\ fpc = "greet" /\ Exchange("greet") => TalkInv
  /\ fpc = "user" /\ Exchange("USER") => TalkInv
  /\ fpc = "pass" /\ Exchange("PASS") => TalkInv
  /\ fpc = "type" /\ Exchange("TYPE") => TalkInv
  /\ fpc = "pasv" /\ Exchange("PASV") => TalkInv
  /\ fpc = "final" /\ Exchange("transfer") => TalkInv
  /\ fpc = "quit" /\ Exchange("QUIT") => TalkInv
  /\ fpc = "read" /\ Exchange("transfer") /\ response = 1 => TalkInv

LEMMA TalkThen == TalkFits'
  BY DEF TalkFits, TalkInv, Owed

LEMMA TalkClient ==
  ASSUME FtpTypeOK, TalkInv, FtpTask \/ FtpReset \/ \E m \in Media : FtpStart(m)
  PROVE  TalkInv'
<1>a. replies \in Seq(Digits) /\ link \in BOOLEAN
  BY DEF FtpTypeOK, Digits
<1>b. TalkFits'
  BY TalkThen
<1>c. ASSUME asked = "none", replies' = <<>>, UNCHANGED link, fpc' = "quit", Send("QUIT")
      PROVE  TalkInv'
  <2>1. Exchange("QUIT")'
    BY <1>c, CommandSent
  <2> QED
    BY <1>b, <1>c, <2>1 DEF TalkFits
<1>1. CASE FtpReset
  <2>1. fpc' = "none" /\ Silent'
    BY <1>1 DEF FtpReset, Silent
  <2> QED
    BY <1>b, <2>1 DEF TalkFits
<1>2. CASE \E m \in Media : FtpStart(m)
  <2>1. fpc' = "wait" /\ Silent'
    BY <1>2 DEF FtpStart, At, serverVars, TalkInv, Silent
  <2> QED
    BY <1>b, <2>1 DEF TalkFits
<1>3. CASE Connect
  <2>1. Silent
    BY <1>3 DEF Connect, At, TalkInv
  <2>2. CASE fpc' = "end" /\ UNCHANGED serverVars
    <3>1. Silent'
      BY <2>1, <2>2 DEF serverVars, Silent
    <3> QED
      BY <1>b, <2>2, <3>1 DEF TalkFits
  <2>3. CASE fpc' = "greet" /\ link' = TRUE /\ asked' = "greet" /\ UNCHANGED replies
    <3>1. Exchange("greet")'
      BY <2>1, <2>3, OneDigit DEF Silent, Exchange
    <3> QED
      BY <1>b, <2>3, <3>1 DEF TalkFits
  <2> QED
    BY <1>3, <2>2, <2>3 DEF Connect, At
<1>4. CASE Greeted
  <2>1. Exchange("greet")
    BY <1>4 DEF Greeted, Leaves, TalkInv, Owed
  <2>2. CASE ReadResponse(2, TRUE) /\ fpc' = "user" /\ Send("USER") /\ UNCHANGED link
    <3>1. Exchange("USER")'
      BY <1>a, <2>1, <2>2, AnswerTaken, CommandSent
    <3> QED
      BY <1>b, <2>2, <3>1 DEF TalkFits
  <2>3. CASE ReadResponse(2, FALSE) /\ fpc' = "end" /\ asked' = "none"
    <3>1. Silent'
      BY <1>a, <2>1, <2>3, AnswerTaken DEF Silent
    <3> QED
      BY <1>b, <2>3, <3>1 DEF TalkFits
  <2> QED
    BY <1>4, <2>2, <2>3 DEF Greeted
<1>5. CASE User
  <2>1. Exchange("USER") /\ UNCHANGED link
    BY <1>5 DEF User, Leaves, TalkInv, Owed
  <2>2. CASE ReadResponse(3, TRUE) /\ fpc' = "pass" /\ Send("PASS")
    <3>1. Exchange("PASS")'
      BY <1>a, <2>1, <2>2, AnswerTaken, CommandSent
    <3> QED
      BY <1>b, <2>2, <3>1 DEF TalkFits
  <2>3. CASE ReadResponse(3, FALSE) /\ fpc' = "open" /\ UNCHANGED asked
    <3>1. Silent'
      BY <1>a, <2>1, <2>3, AnswerTaken DEF Silent
    <3> QED
      BY <1>b, <2>3, <3>1 DEF TalkFits
  <2>4. CASE ReadResponse(3, FALSE) /\ Quit
    BY <1>a, <1>c, <2>1, <2>4, AnswerTaken DEF Quit
  <2> QED
    BY <1>5, <2>2, <2>3, <2>4 DEF User
<1>6. CASE Pass
  <2>1. Exchange("PASS") /\ UNCHANGED link
    BY <1>6 DEF Pass, Leaves, TalkInv, Owed
  <2>2. CASE ReadResponse(2, TRUE) /\ fpc' = "open" /\ UNCHANGED asked
    <3>1. Silent'
      BY <1>a, <2>1, <2>2, AnswerTaken DEF Silent
    <3> QED
      BY <1>b, <2>2, <3>1 DEF TalkFits
  <2>3. CASE ReadResponse(2, FALSE) /\ Quit
    BY <1>a, <1>c, <2>1, <2>3, AnswerTaken DEF Quit
  <2> QED
    BY <1>6, <2>2, <2>3 DEF Pass
<1>7. CASE Open
  <2>1. Silent /\ UNCHANGED <<link, replies>>
    BY <1>7 DEF Open, Leaves, TalkInv
  <2>2. CASE fpc' = "type" /\ Send("TYPE")
    <3>1. Exchange("TYPE")'
      BY <2>1, <2>2, CommandSent DEF Silent
    <3> QED
      BY <1>b, <2>2, <3>1 DEF TalkFits
  <2>3. CASE Quit
    BY <1>c, <2>1, <2>3 DEF Quit, Silent
  <2> QED
    BY <1>7, <2>2, <2>3 DEF Open
<1>8. CASE Type
  <2>1. Exchange("TYPE") /\ UNCHANGED link
    BY <1>8 DEF Type, Leaves, TalkInv, Owed
  <2>2. CASE ReadResponse(2, TRUE) /\ fpc' = "pasv" /\ Send("PASV")
    <3>1. Exchange("PASV")'
      BY <1>a, <2>1, <2>2, AnswerTaken, CommandSent
    <3> QED
      BY <1>b, <2>2, <3>1 DEF TalkFits
  <2>3. CASE ReadResponse(2, FALSE) /\ AccessFails
    BY <1>a, <1>c, <2>1, <2>3, AnswerTaken DEF AccessFails, Quit
  <2> QED
    BY <1>8, <2>2, <2>3 DEF Type
<1>9. CASE Pasv
  <2>1. Exchange("PASV") /\ UNCHANGED link
    BY <1>9 DEF Pasv, Leaves, TalkInv, Owed
  <2>2. CASE ReadResponse(2, TRUE) /\ fpc' = "retr" /\ Send("RETR")
    <3>1. Exchange("RETR")' /\ replies' = <<>>
      BY <1>a, <2>1, <2>2, AnswerTaken, CommandSent
    <3>2. \A i \in 1..Len(replies') : replies'[i] = 5
      BY <3>1, OneDigit
    <3> QED
      BY <2>2, <3>1, <3>2 DEF TalkInv
  <2>3. ASSUME NEW ok \in BOOLEAN, ReadResponse(2, ok), AccessFails PROVE TalkInv'
    BY <1>a, <1>c, <2>1, <2>3, AnswerTaken DEF AccessFails, Quit
  <2> QED
    BY <1>9, <2>2, <2>3 DEF Pasv
<1>10. CASE Retr
  <2>1. /\ \/ Exchange("RETR") /\ \A i \in 1..Len(replies) : replies[i] = 5
           \/ Begun
        /\ UNCHANGED link
    BY <1>10 DEF Retr, Leaves, TalkInv
  <2>2. replies # <<>> => /\ Head(replies) = replies[1] /\ 1 \in 1..Len(replies)
                          /\ Len(Tail(replies)) = Len(replies) - 1
                          /\ Tail(replies) \in Seq(Digits)
    BY <1>a, HeadTailProperties
  <2>3. CASE ReadResponse(1, TRUE) /\ fpc' = "read" /\ UNCHANGED asked
    <3>1. CASE Exchange("RETR") /\ \A i \in 1..Len(replies) : replies[i] = 5
      <4>1. replies # <<>> /\ response' = Head(replies) /\ response' = 1
        BY <1>a, <2>3, <3>1, AnswerTaken
      <4> QED
        BY <2>2, <3>1, <4>1
    <3>2. CASE Begun
      <4>1. replies' = Tail(replies) /\ response' = 1
        BY <2>3, <3>2 DEF ReadResponse, Begun
      <4>2. Len(replies) \in {1, 2}
        BY <3>2 DEF Begun
      <4>3. Len(replies') = 0 <=> replies' = <<>>
        BY <2>2, <3>2, <4>1, EmptySeq DEF Begun
      <4>4. Exchange("transfer")'
        BY <2>1, <2>2, <2>3, <3>2, <4>1, <4>2, <4>3 DEF Begun, Exchange
      <4> QED
        BY <1>b, <2>3, <4>1, <4>4 DEF TalkFits
    <3> QED
      BY <2>1, <3>1, <3>2
  <2>4. CASE /\ ReadResponse(1, FALSE)
             /\ IF Awaits(response') THEN fpc' = "refused" /\ UNCHANGED asked ELSE AccessFails
    <3>1. CASE Begun
      BY <2>4, <3>1 DEF Begun, ReadResponse
    <3>2. CASE Exchange("RETR") /\ \A i \in 1..Len(replies) : replies[i] = 5
      <4>1. /\ asked = "none" /\ replies' = <<>>
            /\ response' = 5 \/ ~link
        BY <1>a, <2>2, <2>4, <3>2, AnswerTaken
      <4>2. CASE fpc' = "refused" /\ UNCHANGED asked /\ ~link
        <5>1. Silent' /\ ~link'
          BY <2>1, <4>1, <4>2 DEF Silent
        <5> QED
          BY <1>b, <4>2, <5>1 DEF TalkFits
      <4>3. CASE AccessFails
        BY <1>c, <2>1, <4>1, <4>3 DEF AccessFails, Quit
      <4> QED
        BY <2>4, <4>1, <4>2, <4>3 DEF Awaits
    <3> QED
      BY <2>1, <3>1, <3>2
  <2> QED
    BY <1>10, <2>3, <2>4 DEF Retr
<1>11. CASE Refused
  <2>1. Silent /\ ~link /\ UNCHANGED link /\ AccessFails
    BY <1>11 DEF Refused, Leaves, TalkInv
  <2>2. Exchange("RETR")
    BY <2>1, OneDigit DEF Silent, Exchange
  <2>3. \E ok \in BOOLEAN : ReadResponse(2, ok)
    BY <1>11 DEF Refused
  <2>4. asked = "none" /\ replies' = <<>>
    BY <1>a, <2>2, <2>3, AnswerTaken
  <2> QED
    BY <1>c, <2>1, <2>4 DEF AccessFails, Quit
<1>12. CASE ReadLine
  <2>1. /\ fpc' = "read" /\ Exchange("transfer") /\ response = 1
        /\ UNCHANGED <<response, asked, replies, link>>
    BY <1>12 DEF ReadLine, Leaves, TalkInv, clientVars, serverVars
  <2>2. Exchange("transfer")'
    BY <2>1 DEF Exchange
  <2> QED
    BY <1>b, <2>1, <2>2 DEF TalkFits
<1>13. CASE WriteFails \/ ReadEnds \/ ReadPart
  <2>1. /\ Exchange("transfer") /\ response = 1
        /\ \E rv \in {0, 1}, texts \in {{Absent}, Cut(file[target])} \cup
                                       {{Text(Served, sent, part)} : part \in Parts} :
             Finish(rv, texts)
    BY <1>13 DEF WriteFails, ReadEnds, ReadPart, Leaves, TalkInv
  <2>2. fpc' = "final" /\ UNCHANGED <<asked, replies, link>>
    BY <2>1 DEF Finish, Awaits
  <2>3. Exchange("transfer")'
    BY <2>1, <2>2 DEF Exchange
  <2> QED
    BY <1>b, <2>2, <2>3 DEF TalkFits
<1>14. CASE Final
  <2>1. Exchange("transfer") /\ UNCHANGED link /\ Quit
    BY <1>14 DEF Final, Leaves, TalkInv, Owed
  <2>2. \E ok \in BOOLEAN : ReadResponse(2, ok)
    BY <1>14 DEF Final
  <2>3. asked = "none" /\ replies' = <<>>
    BY <1>a, <2>1, <2>2, AnswerTaken
  <2> QED
    BY <1>c, <2>1, <2>3 DEF Quit
<1>15. CASE HasQuit
  <2>1. Exchange("QUIT") /\ fpc' = "end" /\ asked' = "none"
    BY <1>15 DEF HasQuit, At, TalkInv, Owed
  <2>2. \E ok \in BOOLEAN : ReadResponse(2, ok)
    BY <1>15 DEF HasQuit
  <2>3. Silent'
    BY <1>a, <2>1, <2>2, AnswerTaken DEF Silent
  <2> QED
    BY <1>b, <2>1, <2>3 DEF TalkFits
<1>16. CASE FtpEnd
  <2>1. fpc' = "none" /\ Silent'
    BY <1>16 DEF FtpEnd, At, TalkInv, Silent
  <2> QED
    BY <1>b, <2>1 DEF TalkFits
<1> QED
  BY <1>1, <1>2, <1>3, <1>4, <1>5, <1>6, <1>7, <1>8, <1>9, <1>10, <1>11, <1>12, <1>13, <1>14,
     <1>15, <1>16 DEF FtpTask

\* The server answers what it is asked, ends a transfer or is lost.
LEMMA TalkServer ==
  ASSUME FtpTypeOK, TalkInv, Server \/ SrvClose
  PROVE  TalkInv'
<1>a. replies \in Seq(Digits) /\ link \in BOOLEAN
  BY DEF FtpTypeOK, Digits
<1>b. TalkFits'
  BY TalkThen
<1>c. UNCHANGED <<fpc, response>>
  BY DEF Server, SrvAnswer, SrvSend, SrvFinish, SrvClose, clientVars
\* An exchange stays one.
<1>d. ASSUME \A cmd \in {"greet", "USER", "PASS", "TYPE", "PASV", "transfer", "QUIT"} :
               Exchange(cmd) => Exchange(cmd)',
             Silent => Silent', fpc = "refused" => fpc' = "refused" /\ ~link',
             fpc = "retr" => TalkInv'
      PROVE  TalkInv'
  <2>1. CASE fpc \in {"greet", "user", "pass", "type", "pasv", "final", "quit"}
    <3>1. Exchange(Owed) /\ Owed \in {"greet", "USER", "PASS", "TYPE", "PASV", "transfer", "QUIT"}
      BY <2>1 DEF TalkInv, Owed
    <3>2. Exchange(Owed)'
      BY <1>c, <1>d, <3>1 DEF Owed
    <3> QED
      BY <1>c, <2>1, <3>2 DEF TalkInv
  <2>2. CASE fpc = "read"
    BY <1>b, <1>c, <1>d, <2>2 DEF TalkInv, TalkFits
  <2>3. CASE fpc \in {"none", "wait", "open", "end", "refused"}
    BY <1>b, <1>c, <1>d, <2>3 DEF TalkInv, TalkFits
  <2> QED
    BY <1>d, <2>1, <2>2, <2>3 DEF FtpTypeOK
<1>1. CASE SrvSend
  <2>1. UNCHANGED <<asked, replies, link>>
    BY <1>1 DEF SrvSend
  <2> QED
    BY <1>c, <2>1 DEF TalkInv, Silent, Exchange, Begun, Owed
<1>2. CASE SrvClose
  <2>1. link' = FALSE /\ asked' = "none" /\ (replies' = replies \/ replies' = <<>>)
    BY <1>2 DEF SrvClose
  <2>2. \A cmd : Exchange(cmd) => Exchange(cmd)'
    BY <2>1, OneDigit DEF Exchange
  <2>3. Silent => Silent'
    BY <2>1 DEF Silent
  <2>4. ASSUME fpc = "retr" PROVE TalkInv'
    <3>1. \/ Exchange("RETR") /\ \A i \in 1..Len(replies) : replies[i] = 5
          \/ Begun
      BY <2>4 DEF TalkInv
    <3>2. CASE replies' = <<>>
      <4>1. Exchange("RETR")' /\ \A i \in 1..Len(replies') : replies'[i] = 5
        BY <2>1, <3>2, OneDigit DEF Exchange
      <4> QED
        BY <1>c, <2>4, <4>1 DEF TalkInv
    <3>3. CASE replies' = replies
      <4>1. Begun => Begun'
        BY <2>1, <3>3 DEF Begun
      <4> QED
        BY <1>c, <2>2, <2>4, <3>1, <3>3, <4>1 DEF TalkInv
    <3> QED
      BY <2>1, <3>2, <3>3
  <2> QED
    BY <1>d, <1>c, <2>1, <2>2, <2>3, <2>4
<1>3. CASE SrvAnswer
  <2>1. PICK d \in Allowed(asked) :
          /\ link /\ asked \notin {"none", "transfer"} /\ UNCHANGED link
          /\ replies' = Append(replies, d)
          /\ d = 1 => asked' = "transfer"
          /\ d # 1 => asked' = "none"
    BY <1>3 DEF SrvAnswer, Says
  <2>2. d \in Digits /\ (d = 1 => asked = "RETR") /\ (asked = "RETR" => d \in {1, 5})
    BY <2>1 DEF Allowed, Digits
  <2>3. ASSUME NEW cmd, Exchange(cmd) PROVE asked = cmd /\ replies' = <<d>>
    <3>1. asked = cmd /\ replies = <<>>
      BY <2>1, <2>3 DEF Exchange
    <3> QED
      BY <2>1, <2>2, <3>1, OneDigit
  <2>4. ASSUME NEW cmd \in {"greet", "USER", "PASS", "TYPE", "PASV", "transfer", "QUIT"}, Exchange(cmd)
        PROVE  Exchange(cmd)'
    <3>1. asked' = "none" /\ replies' = <<d>>
      BY <2>1, <2>2, <2>3, <2>4
    <3> QED
      BY <2>2, <3>1, OneDigit DEF Exchange
  <2>5. ASSUME fpc = "retr" PROVE TalkInv'
    <3>1. Exchange("RETR")
      BY <2>1, <2>5 DEF TalkInv, Begun
    <3>2. asked = "RETR" /\ replies' = <<d>>
      BY <2>3, <3>1
    <3>3. CASE d = 1
      <4>1. Begun'
        BY <2>1, <2>2, <3>2, <3>3, OneDigit DEF Begun
      <4> QED
        BY <1>c, <2>5, <4>1 DEF TalkInv
    <3>4. CASE d = 5
      <4>1. Exchange("RETR")' /\ \A i \in 1..Len(replies') : replies'[i] = 5
        BY <2>1, <2>2, <3>2, <3>4, OneDigit DEF Exchange
      <4> QED
        BY <1>c, <2>5, <4>1 DEF TalkInv
    <3> QED
      BY <2>2, <3>2, <3>3, <3>4
  <2> QED
    BY <1>d, <1>c, <2>1, <2>4, <2>5 DEF Silent, TalkInv
<1>4. CASE SrvFinish
  <2>1. /\ link /\ asked = "transfer" /\ asked' = "none" /\ UNCHANGED link
        /\ \E d \in {2, 5} : replies' = Append(replies, d)
    BY <1>4 DEF SrvFinish, Says
  <2>2. PICK d \in {2, 5} : replies' = Append(replies, d)
    BY <2>1
  <2>3. Len(replies') = Len(replies) + 1 /\ replies' # <<>>
    BY <1>a, <2>2, EmptySeq DEF Digits
  <2>4. ASSUME NEW cmd, Exchange(cmd) PROVE Exchange(cmd)'
    BY <2>1, <2>3, <2>4, OneDigit DEF Exchange
  <2>5. ASSUME fpc = "retr" PROVE TalkInv'
    <3>1. Begun
      BY <2>1, <2>5 DEF TalkInv, Exchange
    <3>2. Len(replies) = 1 /\ Head(replies) = 1
      BY <2>1, <3>1 DEF Begun
    <3>3. Len(replies') = 2 /\ Head(replies') = 1 /\ replies' # <<>>
      BY <1>a, <2>2, <2>3, <3>2 DEF Digits
    <3>4. Begun'
      BY <2>1, <3>3 DEF Begun
    <3> QED
      BY <1>c, <2>5, <3>4 DEF TalkInv
  <2> QED
    BY <1>d, <1>c, <2>1, <2>4, <2>5 DEF Silent, TalkInv
<1> QED
  BY <1>1, <1>2, <1>3, <1>4 DEF Server

-----------------------------------------------------------------------------
\* The FTP client's variables: their types, and what it holds where it is.
ClientType ==
  /\ fpc \in {"none", "wait", "greet", "user", "pass", "open", "type", "pasv", "retr",
              "refused", "read", "final", "quit", "end"}
  /\ target \in Media /\ ret \in {0, 1} /\ response \in {0, 1, 2, 3, 5}
  /\ nControl \in BOOLEAN /\ nData \in BOOLEAN /\ local \in BOOLEAN

ServerType ==
  /\ link \in BOOLEAN
  /\ asked \in {"none", "greet", "USER", "PASS", "TYPE", "PASV", "RETR", "transfer", "QUIT"}
  /\ replies \in Seq(Digits)
  /\ data \in {"none", "open", "sending", "closed", "gone"}
  /\ sent \in 0..Len(Lines[Served])

FileType == file \in [Media -> Texts] /\ fallback \in Texts /\ sure \subseteq Media

LEMMA FtpTypeParts ==
  /\ FtpTypeOK <=> ClientType /\ ServerType /\ FileType /\ Len(replies) <= 2
  /\ ClientType /\ TalkInv => Len(replies) <= 2
<1>1. FtpTypeOK <=> ClientType /\ ServerType /\ FileType /\ Len(replies) <= 2
  BY DEF FtpTypeOK, ClientType, ServerType, FileType, Digits
<1>2. ClientType /\ TalkInv => Len(replies) <= 2
  <2> SUFFICES ASSUME ClientType, TalkInv PROVE Len(replies) <= 2
    OBVIOUS
  <2>1. Silent => Len(replies) <= 2
    BY OneDigit DEF Silent
  <2>2. \A cmd : Exchange(cmd) => Len(replies) <= 2
    <3> SUFFICES ASSUME Len(replies) <= 1 PROVE Len(replies) <= 2
      BY DEF Exchange
    <3> QED
      OBVIOUS
  <2>3. Begun => Len(replies) <= 2
    <3>1. \A n \in {1, 2} : n <= 2
      OBVIOUS
    <3> QED
      BY <3>1 DEF Begun
  <2> QED
    BY <2>1, <2>2, <2>3 DEF ClientType, TalkInv
<1> QED
  BY <1>1, <1>2

LEMMA ServedLength == Len(Lines[Served]) \in Nat
  BY ConfAssumption, ServedAssumption

LEMMA ReadType ==
  ASSUME replies \in Seq(Digits), NEW c, NEW ok, ReadResponse(c, ok)
  PROVE  replies' \in Seq(Digits) /\ response' \in {response} \cup Digits
  BY HeadTailProperties DEF ReadResponse

LEMMA ClientStep ==
  ASSUME ClientType, ServerType, HeldInv, TalkInv, FtpTask
  PROVE  ClientType' /\ ServerType' /\ HeldInv'
<1>a. /\ replies \in Seq(Digits) /\ response \in {0, 1, 2, 3, 5} /\ Digits \subseteq {0, 1, 2, 3, 5}
  BY DEF ClientType, ServerType, Digits
<1>b. ASSUME NEW cmd \in {"USER", "PASS", "TYPE", "PASV", "RETR", "QUIT"}, Send(cmd)
      PROVE  asked' \in {"none", cmd}
  BY <1>b DEF Send
<1>1. CASE Connect
  <2>1. CASE /\ fpc = "wait" /\ fpc' = "end"
             /\ UNCHANGED <<target, ret, response, nControl, nData, local, serverVars>>
    BY <2>1 DEF ClientType, ServerType, HeldInv, serverVars
  <2>2. CASE /\ fpc = "wait" /\ fpc' = "greet"
             /\ nControl' = TRUE /\ link' = TRUE /\ asked' = "greet"
             /\ UNCHANGED <<target, ret, response, nData, local, replies, data, sent>>
    BY <2>2 DEF ClientType, ServerType, HeldInv
  <2> QED
    BY <1>1, <2>1, <2>2 DEF Connect, At
<1>2. CASE Greeted
  <2>1. replies' \in Seq(Digits) /\ response' \in {0, 1, 2, 3, 5}
    BY <1>2, <1>a, ReadType DEF Greeted
  <2>2. asked' \in {"none", "USER"}
    BY <1>2, <1>b DEF Greeted
  <2>3. /\ fpc = "greet"
        /\ \/ fpc' = "user" /\ UNCHANGED <<nControl, link>>
           \/ fpc' = "end" /\ nControl' = FALSE /\ link' = FALSE
        /\ UNCHANGED <<target, ret, nData, local, data, sent>>
    BY <1>2 DEF Greeted, Leaves, HangUp
  <2> QED
    BY <2>1, <2>2, <2>3 DEF ClientType, ServerType, HeldInv
<1>3. CASE User \/ Pass
  <2>1. replies' \in Seq(Digits) /\ response' \in {0, 1, 2, 3, 5}
    BY <1>3, <1>a, ReadType DEF User, Pass
  <2>2. asked' \in {asked, "none", "PASS", "QUIT"}
    BY <1>3, <1>b DEF User, Pass, Quit
  <2>3. /\ fpc \in {"user", "pass"} /\ fpc' \in {"pass", "open", "quit"}
        /\ UNCHANGED <<target, ret, nControl, nData, local, link, data, sent>>
    BY <1>3 DEF User, Pass, Leaves, Quit
  <2> QED
    BY <2>1, <2>2, <2>3 DEF ClientType, ServerType, HeldInv
<1>4. CASE Open
  <2>1. asked' \in {"none", "TYPE", "QUIT"}
    BY <1>4, <1>b DEF Open, Quit
  <2>2. /\ fpc = "open"
        /\ \/ fpc' = "type" /\ local' = TRUE /\ UNCHANGED response
           \/ fpc' = "quit" /\ UNCHANGED local /\ response' = 0
        /\ UNCHANGED <<target, ret, nControl, nData, link, replies, data, sent>>
    BY <1>4 DEF Open, Leaves, Quit
  <2>3. CASE fpc' = "type" /\ local' = TRUE /\ UNCHANGED response
    BY <2>1, <2>2, <2>3 DEF ClientType, ServerType, HeldInv
  <2>4. CASE fpc' = "quit" /\ UNCHANGED local /\ response' = 0
    BY <2>1, <2>2, <2>4 DEF ClientType, ServerType, HeldInv
  <2> QED
    BY <2>2, <2>3, <2>4
<1>5. CASE Type
  <2>1. replies' \in Seq(Digits) /\ response' \in {0, 1, 2, 3, 5}
    BY <1>5, <1>a, ReadType DEF Type
  <2>2. asked' \in {"none", "PASV", "QUIT"}
    BY <1>5, <1>b DEF Type, AccessFails, Quit
  <2>3. /\ fpc = "type"
        /\ \/ fpc' = "pasv" /\ UNCHANGED local
           \/ fpc' = "quit" /\ local' = FALSE
        /\ UNCHANGED <<target, ret, nControl, nData, link, data, sent>>
    BY <1>5 DEF Type, Leaves, AccessFails, Quit
  <2> QED
    BY <2>1, <2>2, <2>3 DEF ClientType, ServerType, HeldInv
<1>6. CASE Pasv
  <2>1. replies' \in Seq(Digits) /\ response' \in {0, 1, 2, 3, 5}
    BY <1>6, <1>a, ReadType DEF Pasv
  <2>2. asked' \in {"none", "RETR", "QUIT"}
    BY <1>6, <1>b DEF Pasv, AccessFails, Quit
  <2>3. /\ fpc = "pasv"
        /\ \/ fpc' = "retr" /\ nData' = TRUE /\ data' = "open" /\ UNCHANGED local
           \/ fpc' = "quit" /\ local' = FALSE /\ UNCHANGED <<nData, data>>
        /\ UNCHANGED <<target, ret, nControl, link, sent>>
    BY <1>6 DEF Pasv, Leaves, OpenData, AccessFails, Quit
  <2>4. CASE fpc' = "retr" /\ nData' = TRUE /\ data' = "open" /\ UNCHANGED local
    BY <2>1, <2>2, <2>3, <2>4 DEF ClientType, ServerType, HeldInv
  <2>5. CASE fpc' = "quit" /\ local' = FALSE /\ UNCHANGED <<nData, data>>
    BY <2>1, <2>2, <2>3, <2>5 DEF ClientType, ServerType, HeldInv
  <2> QED
    BY <2>3, <2>4, <2>5
<1>7. CASE Retr
  <2>1. replies' \in Seq(Digits) /\ response' \in {0, 1, 2, 3, 5}
    BY <1>7, <1>a, ReadType DEF Retr
  <2>2. asked' \in {asked, "none", "QUIT"}
    BY <1>7, <1>b DEF Retr, AccessFails, Quit
  <2>3. /\ fpc = "retr"
        /\ \/ fpc' = "read" /\ UNCHANGED <<nData, data, local>>
           \/ /\ fpc' = "refused" /\ UNCHANGED local
              /\ nData' = FALSE /\ data' = "gone"
           \/ fpc' = "quit" /\ local' = FALSE /\ nData' = FALSE /\ data' = "gone"
        /\ UNCHANGED <<target, ret, nControl, link, sent>>
    BY <1>7 DEF Retr, Leaves, CloseData, AccessFails, Quit
  <2> QED
    BY <2>1, <2>2, <2>3 DEF ClientType, ServerType, HeldInv
<1>8. CASE Refused
  <2>1. replies' \in Seq(Digits) /\ response' \in {0, 1, 2, 3, 5}
    BY <1>8, <1>a, ReadType DEF Refused
  <2>2. asked' \in {"none", "QUIT"}
    BY <1>8, <1>b DEF Refused, AccessFails, Quit
  <2>3. /\ fpc = "refused" /\ fpc' = "quit" /\ local' = FALSE
        /\ UNCHANGED <<target, ret, nControl, nData, link, data, sent>>
    BY <1>8 DEF Refused, Leaves, AccessFails, Quit
  <2> QED
    BY <2>1, <2>2, <2>3 DEF ClientType, ServerType, HeldInv
<1>9. CASE ReadLine
  BY <1>9 DEF ReadLine, clientVars, serverVars, ClientType, ServerType, HeldInv
<1>10. CASE WriteFails \/ ReadEnds \/ ReadPart
  <2>1. /\ fpc = "read"
        /\ \E rv \in {0, 1}, texts \in {{Absent}, Cut(file[target])} \cup
                                       {{Text(Served, sent, part)} : part \in Parts} :
             Finish(rv, texts)
    BY <1>10 DEF WriteFails, ReadEnds, ReadPart, Leaves
  <2>2. /\ ret' \in {0, 1} /\ local' = FALSE /\ nData' = FALSE /\ data' = "gone"
        /\ fpc' \in {"final", "quit"}
        /\ UNCHANGED <<target, response, nControl, link, asked, replies, sent>>
    BY <2>1 DEF Finish, CloseData
  <2> QED
    BY <2>1, <2>2 DEF ClientType, ServerType, HeldInv
<1>11. CASE Final
  <2>1. replies' \in Seq(Digits) /\ response' \in {0, 1, 2, 3, 5}
    BY <1>11, <1>a, ReadType DEF Final
  <2>2. asked' \in {"none", "QUIT"}
    BY <1>11, <1>b DEF Final, Quit
  <2>3. /\ fpc = "final" /\ fpc' = "quit"
        /\ UNCHANGED <<target, ret, nControl, nData, local, link, data, sent>>
    BY <1>11 DEF Final, Leaves, Quit
  <2> QED
    BY <2>1, <2>2, <2>3 DEF ClientType, ServerType, HeldInv
<1>12. CASE HasQuit
  <2>1. replies' \in Seq(Digits) /\ response' \in {0, 1, 2, 3, 5}
    BY <1>12, <1>a, ReadType DEF HasQuit
  <2>2. /\ fpc = "quit" /\ fpc' = "end" /\ nControl' = FALSE /\ link' = FALSE /\ asked' = "none"
        /\ UNCHANGED <<target, ret, nData, local, data, sent>>
    BY <1>12 DEF HasQuit, At, HangUp
  <2> QED
    BY <2>1, <2>2 DEF ClientType, ServerType, HeldInv
<1>13. CASE FtpEnd
  <2>1. /\ fpc = "end" /\ fpc' = "none" /\ ret' = 0 /\ response' = 0 /\ replies' = <<>>
        /\ data' = "none" /\ sent' = 0
        /\ UNCHANGED <<target, nControl, nData, local, link, asked>>
    BY <1>13 DEF FtpEnd, At
  <2> QED
    BY <2>1, OneDigit, ServedLength DEF ClientType, ServerType, HeldInv
<1> QED
  BY <1>1, <1>2, <1>3, <1>4, <1>5, <1>6, <1>7, <1>8, <1>9, <1>10, <1>11, <1>12, <1>13 DEF FtpTask

LEMMA ServerKeeps ==
  ASSUME ClientType, ServerType, HeldInv, Server \/ SrvClose
  PROVE  ClientType' /\ ServerType' /\ HeldInv'
<1>1. ClientType' /\ UNCHANGED <<fpc, nControl, nData, local>>
  BY DEF Server, SrvAnswer, SrvSend, SrvFinish, SrvClose, clientVars, ClientType
<1>2. HeldInv' /\ link' \in BOOLEAN
  <2>1. link' = FALSE \/ link' = link
    BY DEF Server, SrvAnswer, SrvSend, SrvFinish, SrvClose
  <2>2. CASE link' = FALSE
    BY <1>1, <2>2 DEF HeldInv
  <2>3. CASE link' = link
    BY <1>1, <2>3 DEF HeldInv, ServerType
  <2> QED
    BY <2>1, <2>2, <2>3
<1>3. replies' \in Seq(Digits)
  <2>1. CASE SrvSend \/ SrvClose
    BY <2>1, OneDigit DEF SrvSend, SrvClose, ServerType
  <2>2. CASE SrvAnswer \/ SrvFinish
    <3>1. Allowed(asked) \subseteq Digits /\ 2 \in Digits /\ 5 \in Digits
      BY DEF Allowed, Digits
    <3>2. \E d \in Digits : replies' = Append(replies, d)
      BY <2>2, <3>1 DEF SrvAnswer, SrvFinish, Says
    <3> QED
      BY <3>2 DEF ServerType
  <2> QED
    BY <2>1, <2>2 DEF Server
<1>4. /\ asked' \in {asked, "none", "transfer"}
      /\ data' \in {data, "sending", "closed"}
  BY DEF Server, SrvAnswer, SrvSend, SrvFinish, SrvClose
<1>5. sent' \in 0..Len(Lines[Served])
  BY ServedLength DEF Server, SrvAnswer, SrvSend, SrvFinish, SrvClose, ServerType
<1> QED
  BY <1>1, <1>2, <1>3, <1>4, <1>5 DEF ServerType

LEMMA StartKeeps ==
  ASSUME ClientType, ServerType, HeldInv, FtpReset \/ \E m \in Media : FtpStart(m)
  PROVE  ClientType' /\ ServerType' /\ HeldInv'
<1>1. CASE FtpReset
  <2>1. ClientType' /\ HeldInv'
    BY <1>1 DEF FtpReset, ClientType, HeldInv
  <2>2. ServerType'
    <3>1. /\ link' = FALSE /\ asked' = "none" /\ replies' = <<>> /\ data' = "none" /\ sent' = 0
      BY <1>1 DEF FtpReset
    <3>2. 0 \in 0..Len(Lines[Served])
      BY ServedLength
    <3> QED
      BY <3>1, <3>2, OneDigit DEF ServerType
  <2> QED
    BY <2>1, <2>2
<1>2. CASE \E m \in Media : FtpStart(m)
  <2>1. /\ fpc = "none" /\ fpc' = "wait" /\ target' \in Media
        /\ UNCHANGED <<ret, response, nControl, nData, local>>
        /\ UNCHANGED <<link, asked, replies, data, sent>>
    BY <1>2 DEF FtpStart, At, serverVars
  <2> QED
    BY <2>1 DEF ClientType, ServerType, HeldInv
<1> QED
  BY <1>1, <1>2

-----------------------------------------------------------------------------
\* Texts.  What is left of a text is a text.
LEMMA Beginnings ==
  /\ Absent \in Texts
  /\ \A f \in Files : /\ Len(Lines[f]) \in Nat /\ TextsOf(f) \subseteq Texts
                      /\ \A n \in 0..Len(Lines[f]) : Text(f, n, "none") \in TextsOf(f)
<1>1. Absent \in Texts /\ \A f \in Files : TextsOf(f) \subseteq Texts
  BY DEF Texts
<1>2. \A f \in Files : Len(Lines[f]) \in Nat
  BY ConfAssumption
<1>3. ASSUME NEW f \in Files, NEW n \in 0..Len(Lines[f]) PROVE Text(f, n, "none") \in TextsOf(f)
  <2>1. CASE n = Len(Lines[f])
    BY <2>1 DEF TextsOf, Whole
  <2>2. CASE n # Len(Lines[f])
    BY <1>2, <2>2 DEF TextsOf, Parts
  <2> QED
    BY <2>1, <2>2
<1> QED
  BY <1>1, <1>2, <1>3

LEMMA CutType ==
  ASSUME NEW c \in Texts
  PROVE  Cut(c) \subseteq Texts
<1>1. CASE c = Absent
  BY <1>1 DEF Cut
<1>2. CASE c # Absent
  <2>1. PICK f \in Files : c \in TextsOf(f)
    BY <1>2 DEF Texts
  <2>2. Len(Lines[f]) \in Nat
    BY Beginnings
  <2>3. c.of = f /\ c.n \in 0..Len(Lines[f])
    BY <2>1, <2>2 DEF TextsOf, Whole, Text
  <2>4. Text(c.of, c.n, "none") \in Texts /\ TextsOf(c.of) \subseteq Texts
    BY <2>3, Beginnings
  <2> QED
    BY <1>2, <2>4 DEF Cut
<1> QED
  BY <1>1, <1>2

LEMMA WholeIsThere == Whole(Served) \in Texts /\ Whole(Served) # Absent
<1>1. Whole(Served) \in Texts
  BY Beginnings, ServedAssumption DEF TextsOf
<1>2. Whole(Served).of = Served /\ Absent.of = NoName /\ Served # NoName
  BY ConfAssumption, ServedAssumption DEF Whole, Absent, Text
<1> QED
  BY <1>1, <1>2

\* Writing to a file nobody counts on.
LEMMA Written ==
  ASSUME FileType, SureKept, target \in Media, target \notin sure,
         NEW c \in Texts, Put(c), UNCHANGED <<target, fallback, sure>>
  PROVE  FileType' /\ SureKept' /\ (target \in mounted => file'[target] = c)
  BY DEF Put, FileType, SureKept

LEMMA FileClient ==
  ASSUME ClientType, ServerType, HeldInv, FileType, FileInv, FtpTask, UNCHANGED mounted
  PROVE  FileType' /\ FileInv'
<1>a. target \in Media /\ local \in BOOLEAN /\ ret \in {0, 1}
  BY DEF ClientType
<1>b. SureKept /\ file[target] \in Texts
  BY <1>a DEF FileInv, FileType
\* Steps that leave the files alone.
<1>c. ASSUME UNCHANGED <<fileVars, target, local, ret>>, fpc # "none",
             fpc' \in {"final", "quit", "end"} \/ ret = 0
      PROVE  FileType' /\ FileInv'
  BY <1>c DEF fileVars, FileType, FileInv, SureKept
\* The file is removed.
<1>d. ASSUME AccessFails, local, UNCHANGED <<target, ret, fallback, sure>> PROVE FileType' /\ FileInv'
  <2>1. /\ fallback = Absent /\ target \notin sure /\ local' = FALSE /\ fpc' = "quit" /\ Put(Absent)
    BY <1>d DEF AccessFails, Quit, FileInv
  <2>2. FileType' /\ SureKept' /\ (target \in mounted => file'[target] = Absent)
    BY <1>a, <1>b, <1>d, <2>1, Beginnings, Written DEF FileType
  <2>3. FileInv'
    BY <1>d, <2>1, <2>2 DEF FileInv
  <2> QED
    BY <2>2, <2>3
\* The end of the transfer.
<1>e. ASSUME NEW rv \in {0, 1}, NEW texts \in SUBSET Texts, Finish(rv, texts), local,
             rv = 0 => texts = {Absent}
      PROVE  FileType' /\ FileInv'
  <2>1. PICK c \in texts : Put(c)
    BY <1>e DEF Finish
  <2>2. /\ fallback = Absent /\ target \notin sure /\ local' = FALSE /\ ret' = rv
        /\ fpc' \in {"final", "quit"} /\ UNCHANGED <<target, fallback, sure>>
    BY <1>e DEF Finish, FileInv
  <2>3. FileType' /\ SureKept' /\ (target \in mounted => file'[target] = c)
    BY <1>a, <1>b, <2>1, <2>2, Written
  <2>4. FileInv'
    BY <1>e, <2>2, <2>3 DEF FileInv
  <2> QED
    BY <2>3, <2>4
<1>1. CASE Connect \/ Greeted \/ User \/ Pass
  <2>1. /\ UNCHANGED <<fileVars, target, local, ret>> /\ fpc \in {"wait", "greet", "user", "pass"}
    BY <1>1 DEF Connect, Greeted, User, Pass, At, Leaves
  <2>2. ret = 0
    BY <2>1 DEF FileInv
  <2> QED
    BY <1>c, <2>1, <2>2
<1>2. CASE Open
  <2>1. fpc = "open" /\ ret = 0 /\ UNCHANGED <<target, ret>>
    BY <1>2 DEF Open, Leaves, FileInv
  <2>2. CASE UNCHANGED <<local, fileVars>>
    BY <1>c, <2>1, <2>2
  <2>3. CASE /\ target \in mounted /\ local' = TRUE /\ Put(Empty(Served))
             /\ fallback' = Absent /\ sure' = sure \ {target}
    <3>1. Empty(Served) \in Texts /\ Empty(Served) = Text(Served, 0, "none") /\ 0 \in 0..Len(Lines[Served])
      BY Beginnings, ServedAssumption DEF Empty
    <3>2. FileType' /\ file'[target] = Empty(Served) /\ \A m \in Media \ {target} : file'[m] = file[m]
      BY <1>a, <2>3, <3>1, Beginnings DEF Put, FileType
    <3>3. SureKept'
      BY <1>b, <2>3, <3>2 DEF SureKept, FileType
    <3>4. \E n \in 0..Len(Lines[Served]) : file'[target] = Text(Served, n, "none")
      BY <3>1, <3>2
    <3>5. FileInv'
      BY <2>1, <2>3, <3>3, <3>4 DEF FileInv
    <3> QED
      BY <3>2, <3>5
  <2> QED
    BY <1>2, <2>2, <2>3 DEF Open
<1>3. CASE Type \/ Pasv \/ Retr \/ Refused
  <2>1. /\ fpc \in {"type", "pasv", "retr", "refused"}
        /\ UNCHANGED <<target, ret, fallback, sure>>
        /\ UNCHANGED <<local, file>> \/ AccessFails
    BY <1>3 DEF Type, Pasv, Retr, Refused, Leaves
  <2>2. local /\ ret = 0
    BY <2>1 DEF HeldInv, FileInv
  <2>3. CASE UNCHANGED <<local, file>>
    BY <1>c, <2>1, <2>2, <2>3 DEF fileVars
  <2>4. CASE AccessFails
    BY <1>d, <2>1, <2>2, <2>4
  <2> QED
    BY <2>1, <2>3, <2>4
<1>4. CASE ReadLine
  <2>1. /\ fpc = "read" /\ file[target].n < sent /\ Put(Text(Served, file[target].n + 1, "none"))
        /\ UNCHANGED <<fpc, target, ret, local, sent, fallback, sure>>
    BY <1>4 DEF ReadLine, Leaves, clientVars, serverVars
  <2>2. local /\ ret = 0
    BY <2>1 DEF HeldInv, FileInv
  <2>3. CASE target \notin mounted
    <3>1. UNCHANGED file
      BY <2>1, <2>3 DEF Put
    <3> QED
      BY <1>c, <2>1, <2>2, <3>1 DEF fileVars
  <2>4. CASE target \in mounted
    <3>1. PICK n \in 0..Len(Lines[Served]) : file[target] = Text(Served, n, "none")
      BY <2>2, <2>4 DEF FileInv
    <3>2. file[target].n = n
      BY <3>1 DEF Text
    <3>3. n + 1 \in 0..Len(Lines[Served])
      BY <2>1, <3>2, ServedLength DEF ServerType
    <3>4. Text(Served, n + 1, "none") \in Texts
      BY <3>3, Beginnings, ServedAssumption
    <3>5. FileType' /\ SureKept' /\ file'[target] = Text(Served, n + 1, "none")
      BY <1>a, <1>b, <2>1, <2>2, <2>4, <3>2, <3>4, Written DEF FileInv
    <3>6. FileInv'
      BY <2>1, <2>2, <3>3, <3>5 DEF FileInv
    <3> QED
      BY <3>5, <3>6
  <2> QED
    BY <2>3, <2>4
<1>5. CASE WriteFails \/ ReadEnds \/ ReadPart
  <2>1. fpc = "read"
    BY <1>5 DEF WriteFails, ReadEnds, ReadPart, Leaves
  <2>2. local
    BY <2>1 DEF HeldInv
  <2>3. CASE WriteFails
    <3>1. Finish(0, {Absent}) /\ {Absent} \in SUBSET Texts
      BY <2>3, Beginnings DEF WriteFails
    <3> QED
      BY <1>e, <2>2, <3>1
  <2>4. CASE ReadEnds
    <3>1. Finish(1, Cut(file[target])) /\ Cut(file[target]) \in SUBSET Texts
      BY <1>b, <2>4, CutType DEF ReadEnds
    <3> QED
      BY <1>e, <2>2, <3>1
  <2>5. CASE ReadPart
    <3>1. PICK part \in Parts : sent < Len(Lines[Served]) /\ Finish(1, {Text(Served, sent, part)})
      BY <2>5 DEF ReadPart
    <3>2. Text(Served, sent, part) \in Texts
      <4>1. sent \in 0..Len(Lines[Served]) - 1
        BY <3>1, ServedLength DEF ServerType
      <4>2. Text(Served, sent, part) \in TextsOf(Served)
        BY <4>1 DEF TextsOf
      <4> QED
        BY <4>2, Beginnings, ServedAssumption
    <3> QED
      BY <1>e, <2>2, <3>1, <3>2
  <2> QED
    BY <1>5, <2>3, <2>4, <2>5
<1>6. CASE Final
  <2>1. /\ fpc = "final" /\ fpc' = "quit" /\ UNCHANGED <<target, local, ret, file, fallback>>
        /\ \/ sure' = sure
           \/ sure' = sure \cup {target} /\ file[target] = Whole(Served)
    BY <1>6 DEF Final, Leaves, Quit
  <2>2. ~local
    BY <2>1 DEF HeldInv
  <2>3. FileType' /\ SureKept'
    BY <1>a, <1>b, <2>1 DEF FileType, SureKept
  <2>4. FileInv'
    BY <2>1, <2>2, <2>3 DEF FileInv
  <2> QED
    BY <2>3, <2>4
<1>7. CASE HasQuit
  BY <1>7, <1>c DEF HasQuit, At
<1>8. CASE FtpEnd
  <2>1. /\ fpc = "end" /\ fpc' = "none" /\ ret' = 0 /\ fallback' = Absent
        /\ UNCHANGED <<target, local, file, sure>>
    BY <1>8 DEF FtpEnd, At
  <2>2. ~local
    BY <2>1 DEF HeldInv
  <2>3. FileType' /\ SureKept'
    BY <1>b, <2>1, Beginnings DEF FileType, SureKept
  <2>4. FileInv'
    BY <2>1, <2>2, <2>3 DEF FileInv
  <2> QED
    BY <2>3, <2>4
<1> QED
  BY <1>1, <1>2, <1>3, <1>4, <1>5, <1>6, <1>7, <1>8 DEF FtpTask

\* No step mounts a medium again under a client.
LEMMA FileKept ==
  ASSUME HeldInv, FileType, FileInv, UNCHANGED <<fpc, target, ret, local, fileVars>>,
         fpc # "none" /\ target \in mounted' => target \in mounted
  PROVE  FileType' /\ FileInv'
  BY DEF HeldInv, FileType, FileInv, SureKept, fileVars

LEMMA FileStart ==
  ASSUME ClientType, HeldInv, FileType, FileInv, NEW m \in Media, FtpStart(m)
  PROVE  FileType' /\ FileInv'
<1>1. /\ fpc = "none" /\ fpc' = "wait" /\ target' = m /\ fallback' = file[m]
      /\ UNCHANGED <<ret, local, file, sure>>
  BY DEF FtpStart, At
<1>2. ~local /\ ret = 0
  BY <1>1 DEF HeldInv, FileInv
<1>3. FileType' /\ SureKept'
  BY <1>1 DEF FileType, FileInv, SureKept
<1>4. FileInv'
  BY <1>1, <1>2, <1>3 DEF FileInv
<1> QED
  BY <1>3, <1>4

-----------------------------------------------------------------------------
\* The configuration that is read.
LEMMA Rejected == Absent \in Reject /\ Entries(Absent) = <<>>
<1>1. Read(Absent) = {}
  BY DEF Read, Absent, Text
<1>2. Cardinality({}) = 0
  BY FS_EmptySet
<1>3. Count(Absent) = 0
  BY <1>1, <1>2 DEF Count
<1>4. Absent \in Reject
  BY <1>3, ConfAssumption, Beginnings DEF Reject, Accept, Accepted
<1>5. Entries(Absent) = <<>>
  <2>1. EntryLines(Absent) = {}
    BY <1>1 DEF EntryLines
  <2>2. 1..Cardinality({}) = {}
    BY <1>2
  <2> QED
    BY <2>1, <2>2 DEF Entries
<1> QED
  BY <1>4, <1>5

LEMMA EntriesType ==
  ASSUME NEW c \in Texts
  PROVE  \E S : Entries(c) \in Seq(S)
<1>1. c.n \in Nat
  <2>1. CASE c = Absent
    BY <2>1 DEF Absent, Text
  <2>2. CASE c # Absent
    <3>1. PICK f \in Files : c \in TextsOf(f)
      BY <2>2 DEF Texts
    <3> QED
      BY <3>1, Beginnings DEF TextsOf, Whole, Text
  <2> QED
    BY <2>1, <2>2
<1>2. IsFiniteSet(Read(c))
  BY <1>1, FS_Interval DEF Read
<1>3. Cardinality(EntryLines(c)) \in Nat
  BY <1>2, FS_Subset, FS_CardinalityType DEF EntryLines
<1>4. Entries(c) \in Seq({Entries(c)[k] : k \in 1..Cardinality(EntryLines(c))})
  BY <1>3 DEF Entries
<1> QED
  BY <1>4

LEMMA ParsedType ==
  ASSUME NEW c \in Texts
  PROVE  Parsed(c) \in [Params -> Values]
<1>1. ASSUME NEW p \in Params PROVE Value(c, p) \in Values
  <2>1. CASE c = Absent
    <3>1. Read(c) = {}
      BY <2>1 DEF Read, Absent, Text
    <3>2. Value(c, p) = "zero"
      BY <3>1 DEF Value
    <3> QED
      BY <3>2 DEF Values
  <2>2. CASE c # Absent
    <3>1. c.of \in Files
      BY <2>2 DEF Texts, TextsOf, Whole, Text
    <3>2. Value(c, p) \in {"zero", "cut", c.of}
      BY DEF Value
    <3> QED
      BY <3>1, <3>2 DEF Values
  <2> QED
    BY <2>1, <2>2
<1> QED
  BY <1>1 DEF Parsed

\* Whatever is on the two media, what comes out is one of the ways.
LEMMA ChosenWell ==
  ASSUME gps_ini = Zero, ones = <<>>, NEW card \in Texts, NEW disk \in Texts
  PROVE  /\ <<Chosen(card, disk).cf, Chosen(card, disk).list>> \in Ways
         /\ Chosen(card, disk).cf \in [Params -> Values]
<1> DEFINE first  == ReadCfg(gps_ini, ones, card)
           second == ReadCfg(first.cf, first.list, disk)
<1>1. \A c \in Texts : <<>> \o Entries(c) = Entries(c)
  BY EntriesType, ConcatEmptySeq
<1>2. /\ first.list = Entries(card) /\ second.list = Entries(card) \o Entries(disk)
      /\ first.err <=> card \in Reject
      /\ second.err <=> disk \in Reject
  BY <1>1 DEF ReadCfg, Reject, Accept
<1>3. CASE card \notin Reject
  <2>1. Chosen(card, disk) = first
    BY <1>2, <1>3 DEF Chosen
  <2>2. card \in Accept /\ first.cf = Parsed(card)
    BY <1>3 DEF Reject, Accept, ReadCfg
  <2>3. first.list = Entries(Absent) \o Entries(card)
    BY <1>1, <1>2, Rejected
  <2>4. <<Parsed(card), Entries(Absent) \o Entries(card)>> \in Ways
    <3>1. Absent \in Reject
      BY Rejected
    <3> QED
      BY <2>2, <3>1 DEF Ways
  <2> QED
    BY <2>1, <2>2, <2>3, <2>4, ParsedType
<1>4. CASE card \in Reject /\ disk \notin Reject
  <2>1. Chosen(card, disk) = second
    BY <1>2, <1>4 DEF Chosen
  <2>2. disk \in Accept /\ second.cf = Parsed(disk)
    BY <1>4 DEF Reject, Accept, ReadCfg
  <2> QED
    BY <1>2, <1>4, <2>1, <2>2, ParsedType DEF Ways
<1>5. CASE card \in Reject /\ disk \in Reject
  <2>1. Chosen(card, disk) = [second EXCEPT !.cf = Default]
    BY <1>2, <1>5 DEF Chosen
  <2>2. Chosen(card, disk).cf = Default /\ Chosen(card, disk).list = second.list
    BY <2>1 DEF ReadCfg
  <2>3. Default \in [Params -> Values]
    BY DEF Default, Values
  <2> QED
    BY <1>2, <1>5, <2>2, <2>3 DEF Ways
<1> QED
  BY <1>3, <1>4, <1>5

-----------------------------------------------------------------------------
\* The main task.
MainType ==
  /\ mpc \in {"off", "card", "disk", "copy", "read", "start", "loop", "launch",
              "stopping", "unmounted"}
  /\ mounted \subseteq Media /\ txtConf \in Texts
  /\ gps_ini \in [Params -> Values] /\ ftp_go \in Media \cup {"no"}

LEMMA ConfParts ==
  ConfInv <=> /\ ClientType /\ ServerType /\ FileType /\ MainType
              /\ TalkInv /\ HeldInv /\ FileInv /\ MainInv
<1>1. TypeOK <=> FtpTypeOK /\ MainType
  BY DEF TypeOK, MainType
<1> QED
  BY <1>1, FtpTypeParts DEF ConfInv

LEMMA ConfPartsThen ==
  (/\ ClientType /\ ServerType /\ FileType /\ MainType
   /\ TalkInv /\ HeldInv /\ FileInv /\ MainInv)' => ConfInv'
  BY ConfParts, PTL

LEMMA TwoMedia == "card" \in Media /\ "disk" \in Media
  BY MediaAssumption

LEMMA ZeroType == Zero \in [Params -> Values]
  BY DEF Zero, Values

\* What is left of the copy, which nobody counts on.
LEMMA CopyLeft ==
  ASSUME FileType, SureKept, txtConf \in Texts, "disk" \notin sure, file' \in CopyOf, UNCHANGED sure
  PROVE  file' \in [Media -> Texts] /\ SureKept'
<1>1. PICK x \in Cut(txtConf) : file' = [file EXCEPT !["disk"] = x]
  BY DEF CopyOf
<1>2. x \in Texts
  BY CutType
<1> QED
  BY <1>1, <1>2, TwoMedia DEF FileType, SureKept

\* What is left of a file that was open, which nobody counts on either.
LEMMA LostLeft ==
  ASSUME ClientType, FileType, FileInv, file' \in Lost, UNCHANGED sure
  PROVE  file' \in [Media -> Texts] /\ SureKept'
<1>1. CASE local /\ target \in mounted
  <2>1. PICK x \in Cut(file[target]) : file' = [file EXCEPT ![target] = x]
    BY <1>1 DEF Lost
  <2>2. target \in Media /\ file[target] \in Texts
    BY DEF ClientType, FileType
  <2>3. x \in Texts /\ target \notin sure
    BY <1>1, <2>2, CutType DEF FileInv
  <2> QED
    BY <2>1, <2>2, <2>3 DEF FileType, FileInv, SureKept
<1>2. CASE ~(local /\ target \in mounted)
  <2>1. file' = file
    BY <1>2 DEF Lost
  <2> QED
    BY <2>1 DEF FileType, FileInv, SureKept
<1> QED
  BY <1>1, <1>2

\* A reset.
LEMMA ConfReset ==
  ASSUME ConfInv, Reset
  PROVE  ConfInv'
<1>a. /\ ClientType /\ ServerType /\ FileType /\ MainType
      /\ TalkInv /\ HeldInv /\ FileInv /\ MainInv
  BY ConfParts
<1>1. /\ FtpReset /\ mpc' = "off" /\ mounted' = {} /\ txtConf' = Absent
      /\ gps_ini' = Zero /\ ones' = <<>> /\ ftp_go' = "no"
      /\ file' \in IF mpc = "copy" THEN CopyOf ELSE Lost
  BY DEF Reset
<1>2. ClientType' /\ ServerType' /\ HeldInv'
  BY <1>a, <1>1, StartKeeps
<1>3. TalkInv'
  BY <1>a, <1>1, FtpTypeParts, TalkClient
<1>4. MainType' /\ MainInv'
  <2>1. MainType'
    BY <1>1, Beginnings, ZeroType DEF MainType
  <2>2. fpc' = "none"
    BY <1>1 DEF FtpReset
  <2>3. MainInv'
    BY <1>1, <2>2 DEF MainInv, Zero, Configured
  <2> QED
    BY <2>1, <2>3
<1>5. /\ fpc' = "none" /\ ret' = 0 /\ local' = FALSE /\ fallback' = Absent
      /\ UNCHANGED <<target, sure>>
  BY <1>1 DEF FtpReset
<1>6. file' \in [Media -> Texts] /\ SureKept'
  <2>1. CASE mpc = "copy"
    <3>1. file' \in CopyOf /\ "disk" \notin sure
      BY <1>a, <1>1, <2>1 DEF MainInv
    <3> QED
      BY <1>a, <1>5, <3>1, CopyLeft DEF FileInv, MainType
  <2>2. CASE mpc # "copy"
    BY <1>a, <1>1, <1>5, <2>2, LostLeft
  <2> QED
    BY <2>1, <2>2
<1>7. FileType' /\ FileInv'
  <2>1. FileType'
    BY <1>a, <1>5, <1>6, Beginnings DEF FileType
  <2> QED
    BY <1>5, <1>6, <2>1 DEF FileInv
<1> QED
  BY <1>2, <1>3, <1>4, <1>7, ConfPartsThen

\* Steps of the FTP client and of the server.
LEMMA ConfFtp ==
  ASSUME ConfInv, FtpTask \/ Server \/ SrvClose, UNCHANGED mainVars
  PROVE  ConfInv'
<1>a. /\ ClientType /\ ServerType /\ FileType /\ MainType
      /\ TalkInv /\ HeldInv /\ FileInv /\ MainInv /\ FtpTypeOK
  BY ConfParts, FtpTypeParts
<1>1. MainType'
  BY <1>a DEF MainType, mainVars
<1>2. CASE FtpTask
  <2>1. fpc # "none" /\ UNCHANGED target
    BY <1>2 DEF FtpTask, Connect, Greeted, User, Pass, Open, Type, Pasv, Retr, Refused, ReadLine,
                WriteFails, ReadEnds, ReadPart, Final, HasQuit, FtpEnd, At, Leaves, clientVars,
                Finish
  <2>2. MainInv'
    BY <1>a, <2>1 DEF MainInv, mainVars, Configured
  <2> QED
    BY <1>a, <1>1, <1>2, <2>2, ClientStep, TalkClient, FileClient, ConfPartsThen DEF mainVars
<1>3. CASE Server \/ SrvClose
  <2>1. UNCHANGED <<clientVars, fileVars>>
    BY <1>3 DEF Server, SrvAnswer, SrvSend, SrvFinish, SrvClose
  <2>2. MainInv'
    BY <1>a, <2>1 DEF MainInv, mainVars, Configured, clientVars, fileVars
  <2>3. FileType' /\ FileInv'
    BY <1>a, <2>1, FileKept DEF clientVars, mainVars
  <2> QED
    BY <1>a, <1>1, <1>3, <2>2, <2>3, ServerKeeps, TalkServer, ConfPartsThen
<1> QED
  BY <1>2, <1>3

\* What the main task's steps do not touch.
LEMMA FtpKept ==
  ASSUME ConfInv, UNCHANGED <<clientVars, serverVars>>
  PROVE  ClientType' /\ ServerType' /\ TalkInv' /\ HeldInv'
<1>1. ClientType /\ ServerType /\ TalkInv /\ HeldInv
  BY ConfParts
<1>2. ClientType'
  BY <1>1 DEF ClientType, clientVars
<1>3. ServerType'
  BY <1>1 DEF ServerType, serverVars
<1>4. TalkInv'
  BY <1>1 DEF TalkInv, Silent, Exchange, Begun, Owed, clientVars, serverVars
<1>5. HeldInv'
  BY <1>1 DEF HeldInv, clientVars, serverVars
<1> QED
  BY <1>2, <1>3, <1>4, <1>5

\* Steps of the main task that change no file and start no client.
LEMMA ConfMain ==
  ASSUME ConfInv, BootCard \/ Configure \/ Start \/ LoopUnmount \/ LoopNothing
                  \/ LeaveLoop \/ (\E m \in Media : AskFtp(m)) \/ UNCHANGED vars
  PROVE  ConfInv'
<1>a. FileType /\ MainType /\ FileInv /\ MainInv /\ HeldInv
  BY ConfParts
<1>b. UNCHANGED <<clientVars, serverVars, fileVars>>
  BY DEF BootCard, Configure, Start, LoopUnmount, LoopNothing, LeaveLoop, AskFtp, vars, ftpVars
<1>m. fpc # "none" /\ target \in mounted' => target \in mounted
  <2>1. mpc # "unmounted" \/ UNCHANGED mounted
    BY DEF BootCard, Configure, Start, LoopUnmount, LoopNothing, LeaveLoop, AskFtp, vars,
           mainVars, Main
  <2> QED
    BY <1>a, <2>1 DEF MainInv
<1>c. ClientType' /\ ServerType' /\ TalkInv' /\ HeldInv' /\ FileType' /\ FileInv'
  BY <1>a, <1>b, <1>m, FtpKept, FileKept DEF clientVars
<1>d. UNCHANGED <<fpc, target, file, sure>>
  BY <1>b DEF clientVars, fileVars
<1>1. CASE BootCard
  <2>1. /\ mpc = "card" /\ mpc' = "disk" /\ UNCHANGED <<gps_ini, ones, ftp_go>>
        /\ mounted' \in {mounted, mounted \cup {"card"}}
        /\ txtConf' \in {txtConf, Absent} \cup Cut(file["card"])
    BY <1>1 DEF BootCard, Main
  <2>2. Cut(file["card"]) \subseteq Texts
    BY <1>a, TwoMedia, CutType DEF FileType
  <2>3. MainType'
    BY <1>a, <2>1, <2>2, TwoMedia, Beginnings DEF MainType
  <2>4. MainInv'
    BY <1>a, <1>d, <2>1 DEF MainInv, Configured
  <2> QED
    BY <1>c, <2>3, <2>4, ConfPartsThen
<1>2. CASE Configure
  <2>1. PICK card \in Seen("card"), disk \in Seen("disk") :
          gps_ini' = Chosen(card, disk).cf /\ ones' = Chosen(card, disk).list
    BY <1>2 DEF Configure
  <2>2. card \in Texts /\ disk \in Texts
    BY <1>a, TwoMedia, Beginnings DEF Seen, FileType
  <2>3. /\ mpc = "read" /\ mpc' = "start" /\ mounted' = mounted \ {"card"} /\ txtConf' = Absent
        /\ UNCHANGED ftp_go
    BY <1>2 DEF Configure, Main
  <2>4. /\ <<gps_ini', ones'>> \in Ways /\ gps_ini' \in [Params -> Values]
    BY <1>a, <2>1, <2>2, <2>3, ChosenWell DEF MainInv
  <2>5. MainType'
    BY <1>a, <2>3, <2>4, Beginnings DEF MainType
  <2>6. fpc' = "none"
    BY <1>a, <1>d, <2>3 DEF MainInv
  <2>7. Configured'
    BY <2>4 DEF Configured, Ways, Accept, Reject
  <2>8. MainInv'
    BY <2>3, <2>6, <2>7 DEF MainInv
  <2> QED
    BY <1>c, <2>5, <2>8, ConfPartsThen
<1>3. CASE Start
  <2>1. /\ mpc' = "loop" /\ mpc = "start" /\ gps_ini' = Zero /\ UNCHANGED <<mounted, txtConf, ftp_go>>
    BY <1>3 DEF Start, Main
  <2>2. MainType'
    BY <1>a, <2>1, ZeroType DEF MainType
  <2>3. MainInv'
    BY <1>a, <1>d, <2>1 DEF MainInv, Configured
  <2> QED
    BY <1>c, <2>2, <2>3, ConfPartsThen
<1>4. CASE LoopUnmount \/ LoopNothing \/ LeaveLoop \/ \E m \in Media : AskFtp(m)
  <2>1. /\ mpc \in {"loop", "launch"} /\ mpc' \in {"loop", "launch", "stopping"}
        /\ UNCHANGED <<txtConf, gps_ini, ones>> /\ ftp_go' \in Media \cup {ftp_go}
        /\ mounted' = mounted \/ (mounted' = {} /\ fpc = "none")
    BY <1>4 DEF LoopUnmount, LoopNothing, LeaveLoop, AskFtp, Main
  <2>2. MainType'
    BY <1>a, <2>1 DEF MainType
  <2>3. MainInv'
    BY <1>a, <1>d, <2>1 DEF MainInv, Configured
  <2> QED
    BY <1>c, <2>2, <2>3, ConfPartsThen
<1>5. CASE UNCHANGED vars
  <2>1. MainType' /\ MainInv'
    BY <1>a, <1>d, <1>5 DEF vars, mainVars, MainType, MainInv, Configured
  <2> QED
    BY <1>c, <2>1, ConfPartsThen
<1> QED
  BY <1>1, <1>2, <1>3, <1>4, <1>5

LEMMA ConfLaunch ==
  ASSUME ConfInv, LoopLaunch
  PROVE  ConfInv'
<1>a. /\ ClientType /\ ServerType /\ FileType /\ MainType /\ FtpTypeOK
      /\ TalkInv /\ HeldInv /\ FileInv /\ MainInv
  BY ConfParts, FtpTypeParts
<1>1. /\ mpc = "launch" /\ mpc' = "loop" /\ fpc = "none" /\ ftp_go' = "no" /\ ftp_go # "no"
      /\ mounted' \in {mounted, mounted \cup {ftp_go}} /\ UNCHANGED <<txtConf, gps_ini, ones>>
      /\ UNCHANGED ftpVars \/ (FtpStart(ftp_go) /\ mounted' = mounted \cup {ftp_go})
  BY DEF LoopLaunch, Main
<1>2. ftp_go \in Media
  BY <1>a, <1>1 DEF MainType
<1>3. MainType'
  BY <1>a, <1>1, <1>2 DEF MainType
<1>4. CASE UNCHANGED ftpVars
  <2>1. ClientType' /\ ServerType' /\ TalkInv' /\ HeldInv' /\ FileType' /\ FileInv'
    BY <1>a, <1>1, <1>4, FtpKept, FileKept DEF ftpVars, clientVars
  <2>2. MainInv'
    BY <1>a, <1>1, <1>4 DEF ftpVars, clientVars, fileVars, MainInv, Configured
  <2> QED
    BY <1>3, <2>1, <2>2, ConfPartsThen
<1>5. CASE FtpStart(ftp_go) /\ mounted' = mounted \cup {ftp_go}
  <2>1. ClientType' /\ ServerType' /\ HeldInv' /\ TalkInv'
    BY <1>a, <1>2, <1>5, StartKeeps, TalkClient
  <2>2. FileType' /\ FileInv'
    BY <1>a, <1>2, <1>5, FileStart
  <2>3. target' = ftp_go /\ UNCHANGED sure
    BY <1>5 DEF FtpStart
  <2>4. MainInv'
    BY <1>a, <1>1, <1>5, <2>3 DEF MainInv, Configured
  <2> QED
    BY <1>3, <2>1, <2>2, <2>4, ConfPartsThen
<1> QED
  BY <1>1, <1>4, <1>5

\* The main task unmounts what is mounted on its way to the restart.
LEMMA ConfUnmount ==
  ASSUME ConfInv, UnmountAll
  PROVE  ConfInv'
<1>a. FileType /\ MainType /\ FileInv /\ MainInv /\ ClientType
  BY ConfParts
<1>1. /\ mpc' = "unmounted" /\ mounted' = {} /\ file' \in Lost
      /\ UNCHANGED <<txtConf, gps_ini, ones, ftp_go, clientVars, serverVars, fallback, sure>>
  BY DEF UnmountAll, Main
<1>2. ClientType' /\ ServerType' /\ TalkInv' /\ HeldInv'
  BY <1>1, FtpKept
<1>3. file' \in [Media -> Texts] /\ SureKept'
  BY <1>a, <1>1, LostLeft
<1>4. FileType' /\ FileInv'
  BY <1>a, <1>1, <1>3 DEF FileType, FileInv, clientVars
<1>5. MainType' /\ MainInv'
  BY <1>a, <1>1 DEF MainType, MainInv, Configured
<1> QED
  BY <1>2, <1>4, <1>5, ConfPartsThen

\* The steps of boot that may change a file.  There is no FTP client yet.
LEMMA ConfBoot ==
  ASSUME ConfInv, PowerOn \/ BootDisk \/ Copy
  PROVE  ConfInv'
<1>a. FileType /\ MainType /\ FileInv /\ MainInv /\ ClientType /\ HeldInv
  BY ConfParts
<1>b. ClientType' /\ ServerType' /\ TalkInv' /\ HeldInv'
  BY FtpKept DEF PowerOn, BootDisk, Copy
<1>c. /\ fpc = "none" /\ UNCHANGED <<fpc, target, ret, local, fallback, gps_ini, ones, ftp_go>>
      /\ mpc \in {"off", "disk", "copy"} /\ mpc' \in {"card", "copy", "read"}
  BY <1>a DEF PowerOn, BootDisk, Copy, Main, clientVars, MainInv
<1>d. ret = 0 /\ ~local
  BY <1>a, <1>c DEF FileInv, HeldInv
<1>1. MainType'
  <2>1. mounted' \subseteq Media /\ txtConf' = txtConf
    BY <1>a, TwoMedia DEF PowerOn, BootDisk, Copy, MainType
  <2> QED
    BY <1>a, <1>c, <2>1 DEF MainType
<1>2. /\ file' \in [Media -> Texts] /\ sure' \subseteq sure
      /\ SureKept' /\ (mpc' = "copy" => "disk" \notin sure')
  <2>1. CASE PowerOn
    <3>1. CASE UNCHANGED <<file, sure>>
      BY <1>a, <2>1, <3>1 DEF PowerOn, Main, FileType, FileInv, SureKept
    <3>2. CASE ~UNCHANGED <<file, sure>>
      <4>1. PICK c \in {Absent} \cup {Whole(f) : f \in CardFiles} : file' = [file EXCEPT !["card"] = c]
        BY <2>1, <3>2 DEF PowerOn
      <4>2. c \in Texts
        <5>1. \A f \in CardFiles : Whole(f) \in Texts
          BY MediaAssumption, Beginnings DEF TextsOf
        <5> QED
          BY <5>1, Beginnings
      <4>3. sure' = sure \ {"card"} /\ mpc' = "card"
        BY <2>1, <3>2 DEF PowerOn, Main
      <4> QED
        BY <1>a, <4>1, <4>2, <4>3, TwoMedia DEF FileType, FileInv, SureKept
    <3> QED
      BY <3>1, <3>2
  <2>2. CASE BootDisk
    <3>1. CASE mpc' = "read" /\ UNCHANGED <<file, sure>>
      BY <1>a, <3>1 DEF FileType, FileInv, SureKept
    <3>2. CASE /\ mpc' = "read"
               /\ file' = [file EXCEPT !["disk"] = Absent] /\ sure' = sure \ {"disk"}
      BY <1>a, <3>2, TwoMedia, Beginnings DEF FileType, FileInv, SureKept
    <3>3. CASE /\ Copies(txtConf) /\ mpc' = "copy"
               /\ file' = [file EXCEPT !["disk"] = Empty(txtConf.of)] /\ UNCHANGED sure
      <4>1. txtConf # Absent /\ file["disk"] = Absent
        BY <3>3 DEF Copies, Present
      <4>2. "disk" \notin sure
        BY <1>a, <4>1, WholeIsThere DEF FileInv, SureKept
      <4>3. Empty(txtConf.of) \in Texts
        <5>1. PICK f \in Files : txtConf \in TextsOf(f)
          BY <1>a, <4>1 DEF MainType, Texts
        <5>2. txtConf.of = f
          BY <5>1 DEF TextsOf, Whole, Text
        <5>3. Text(f, 0, "none") \in Texts
          BY Beginnings
        <5> QED
          BY <5>2, <5>3 DEF Empty
      <4> QED
        BY <1>a, <3>3, <4>2, <4>3, TwoMedia DEF FileType, FileInv, SureKept
    <3> QED
      BY <2>2, <3>1, <3>2, <3>3 DEF BootDisk
  <2>3. CASE Copy
    <3>1. file' \in CopyOf /\ "disk" \notin sure /\ mpc' = "read" /\ UNCHANGED sure
      BY <1>a, <2>3 DEF Copy, Main, MainInv
    <3> QED
      BY <1>a, <3>1, CopyLeft DEF FileInv, MainType
  <2> QED
    BY <2>1, <2>2, <2>3
<1>3. FileType' /\ FileInv'
  <2>1. FileType'
    BY <1>a, <1>c, <1>2 DEF FileType
  <2> QED
    BY <1>c, <1>d, <1>2, <2>1 DEF FileInv
<1>4. MainInv'
  BY <1>a, <1>c, <1>2 DEF MainInv, Configured
<1> QED
  BY <1>b, <1>1, <1>3, <1>4, ConfPartsThen

-----------------------------------------------------------------------------
LEMMA ConfInit ==
  ASSUME Init
  PROVE  ConfInv
<1>1. /\ NoTask /\ target = "disk" /\ Fresh /\ fallback = Absent /\ sure = {}
      /\ file \in [Media -> {Absent} \cup {Whole(f) : f \in CardFiles \cup DiskFiles}]
  BY DEF Init
<1>2. ClientType /\ ServerType
  <2>1. ClientType
    BY <1>1, TwoMedia DEF NoTask, ClientType
  <2>2. 0 \in 0..Len(Lines[Served])
    BY ServedLength
  <2>3. ServerType
    BY <1>1, <2>2, OneDigit DEF NoTask, ServerType
  <2> QED
    BY <2>1, <2>3
<1>3. FileType
  <2>1. \A f \in CardFiles \cup DiskFiles : Whole(f) \in Texts
    BY MediaAssumption, Beginnings DEF TextsOf
  <2>2. {Absent} \cup {Whole(f) : f \in CardFiles \cup DiskFiles} \subseteq Texts
    BY <2>1, Beginnings
  <2> QED
    BY <1>1, <2>2, Beginnings DEF FileType
<1>4. MainType
  BY <1>1, ZeroType, Beginnings DEF Fresh, MainType
<1>5. TalkInv
  BY <1>1 DEF NoTask, TalkInv, Silent
<1>6. HeldInv
  BY <1>1 DEF NoTask, HeldInv
<1>7. FileInv
  BY <1>1 DEF NoTask, FileInv, SureKept
<1>8. MainInv
  BY <1>1 DEF NoTask, Fresh, MainInv, Configured
<1> QED
  BY <1>2, <1>3, <1>4, <1>5, <1>6, <1>7, <1>8, ConfParts

LEMMA ConfStep ==
  ASSUME ConfInv, [Next]_vars
  PROVE  ConfInv'
<1>1. CASE MainTask
  BY <1>1, ConfBoot, ConfMain, ConfLaunch, ConfUnmount DEF MainTask
<1>2. CASE Reset
  BY <1>2, ConfReset
<1>3. CASE (\E m \in Media : AskFtp(m)) \/ UNCHANGED vars
  BY <1>3, ConfMain
<1>4. CASE (FtpTask \/ Server \/ SrvClose) /\ UNCHANGED mainVars
  BY <1>4, ConfFtp
<1> QED
  BY <1>1, <1>2, <1>3, <1>4 DEF Next, FtpStep, ServerStep

LEMMA SpecConf == Spec => []ConfInv
  BY ConfInit, ConfStep, PTL DEF Spec

\* Every variable stays in its type; not more than two replies are on their way.
THEOREM SpecTypeOK == Spec => []TypeOK
<1>1. ConfInv => TypeOK
  BY DEF ConfInv
<1> QED
  BY <1>1, SpecConf, PTL

\* Wherever a fetch fails in xfer(), it leaves what was there or nothing, never a
\* piece of a file (ftp_cli.c:264-282, 307-312), as long as the main task has not
\* unmounted the medium.
THEOREM SpecFailureIsClean == Spec => []FailureIsClean
<1>1. ConfInv => FailureIsClean
  BY DEF ConfInv, HeldInv, FileInv, FailureIsClean
<1> QED
  BY <1>1, SpecConf, PTL

\* On every path out of ftp_cli_task the sockets, the buffers and the local file
\* have been given back (ftp_cli.c:276-281, 309-313, 722-726, 765-768, 1029-1031, 1106-1111).
THEOREM SpecReleased == Spec => []Released
<1>1. ConfInv => Released
  BY DEF ConfInv, HeldInv, Released
<1> QED
  BY <1>1, SpecConf, PTL

\* No reply is ever taken for the answer to another command, and client and server
\* never wait for each other (ftp_cli.c:235-253, 1029-1033, 1101-1113).
THEOREM SpecInStep == Spec => []InStep
<1>1. ASSUME ConfInv, link, Owed # "none", replies = <<>>
      PROVE  asked = Owed
  <2>1. TalkInv
    BY <1>1 DEF ConfInv
  <2>2. CASE fpc = "retr"
    <3>1. Exchange("RETR")
      BY <1>1, <2>1, <2>2 DEF TalkInv, Begun
    <3> QED
      BY <1>1, <2>2, <3>1 DEF Exchange, Owed
  <2>3. CASE fpc # "retr"
    <3>1. Exchange(Owed)
      BY <1>1, <2>1, <2>3 DEF TalkInv, Owed
    <3> QED
      BY <1>1, <3>1 DEF Exchange
  <2> QED
    BY <2>2, <2>3
<1>2. ASSUME ConfInv, Owed = "none", fpc # "read", fpc # "refused"
      PROVE  asked = "none" /\ replies = <<>>
  <2>1. TalkInv /\ ClientType
    BY <1>2, ConfParts
  <2>2. fpc \in {"none", "wait", "open", "end"}
    BY <1>2, <2>1 DEF ClientType, Owed
  <2> QED
    BY <2>1, <2>2 DEF TalkInv, Silent
<1>3. ConfInv => InStep
  BY <1>1, <1>2 DEF InStep
<1> QED
  BY <1>3, SpecConf, PTL

\* A file whose transfer the server confirmed stays whole on the medium through any
\* number of boots, resets and failed fetches on the other medium
\* (ftp_cli.c:264-282, main.c:837-852).
THEOREM SpecSureKept == Spec => []SureKept
<1>1. ConfInv => SureKept
  BY DEF ConfInv, FileInv
<1> QED
  BY <1>1, SpecConf, PTL

\* The main loop never unmounts the file system under the file that xfer() writes
\* (main.c:1000-1017); only the main task's way to the restart does (main.c:1064-1084).
THEOREM SpecMountedWhileOpen == Spec => []MountedWhileOpen
<1>1. ConfInv => MountedWhileOpen
  BY DEF ConfInv, HeldInv, MainInv, MountedWhileOpen
<1> QED
  BY <1>1, SpecConf, PTL

\* The parameters fmb630_task is started with are all of one file that has enough
\* of them, or all defaults (main.c:868-899, fmb630.c:513, 527-530).
THEOREM SpecConfigured == Spec => []Configured
<1>1. ConfInv => Configured
  BY DEF ConfInv, MainInv
<1> QED
  BY <1>1, SpecConf, PTL
=============================================================================

------------------------------- MODULE FtpGet -------------------------------
(***************************************************************************)
(* The FTP client (src/main/ftp_cli.c).  ftp_cli_task connects to a        *)
(* server, logs in, fetches conf.txt over a passive data connection into a *)
(* file of the same name on the medium it was started for, and quits.      *)
(*                                                                         *)
(* The control connection carries one command at a time one way and        *)
(* replies, known by their first digit, the other way; 5 stands for 4 and  *)
(* 5, which the code never tells apart.  `response' keeps the last reply   *)
(* that was read, also when no new one comes.  The file is sent line by    *)
(* line.  The client sets no timeout on recv(): it waits until the server  *)
(* answers or the connection is seen to be lost.                           *)
(*                                                                         *)
(* Failures: any call of the client may fail; the server may refuse any    *)
(* command, stop the transfer, or be lost with or without what it sent     *)
(* last.  A reply of several lines that is cut short is not kept apart     *)
(* from a reply that does not come; a connection lost unnoticed is left    *)
(* out, as is the failure of the malloc() of xfer(), which is not tested.  *)
(* The main task may unmount the medium before the device restarts: from   *)
(* then on nothing the client does reaches the file, and fopen() fails.    *)
(***************************************************************************)
EXTENDS ConfText

CONSTANTS
  Media,    \* where the file may be put: the card and the disk
  Served    \* the file the server has

ASSUME ServedAssumption == Served \in Files

VARIABLES
  mounted,    \* media with mntOK or diskOK equal to ESP_OK: the main task's
  fpc,        \* where ftp_cli_task is; "none": there is no such task
  target,     \* devPath
  ret,        \* of ftpClientGet: 1 is success
  response,   \* first digit of nControl->response
  nControl,   \* the control connection's socket and buffers are held
  nData,      \* the data connection's socket and buffers are held
  local,      \* the local file is open
  link,       \* the control connection stands
  asked,      \* the command the server has not answered yet
  replies,    \* replies on their way
  data,       \* the data connection
  sent,       \* lines the server has sent
  file,       \* file[m] is the text of conf.txt on medium m
  fallback,   \* history: what is on the target if the transfer fails
  sure        \* history: media whose file the server confirmed, and is whole

clientVars == <<fpc, target, ret, response, nControl, nData, local>>
serverVars == <<link, asked, replies, data, sent>>
fileVars   == <<file, fallback, sure>>
ftpVars    == <<clientVars, serverVars, fileVars>>

NoTask ==
  /\ fpc = "none" /\ target \in Media /\ ret = 0 /\ response = 0
  /\ nControl = FALSE /\ nData = FALSE /\ local = FALSE
  /\ link = FALSE /\ asked = "none" /\ replies = <<>>
  /\ data = "none" /\ sent = 0

(***************************************************************************)
(* What the functions of the client have in common.                        *)
(***************************************************************************)
At(from, to) == fpc = from /\ fpc' = to

Leaves(from) == fpc = from

\* sendCommand: on a connection that is lost send() fails, or nobody reads it.
Send(cmd) == asked' = IF link THEN cmd ELSE "none"

\* Mutant: the reply stays in the buffer.
ReadResponseAgain(c, ok) ==
  \/ /\ replies # <<>>
     /\ response' = Head(replies) /\ UNCHANGED replies
     /\ ok = (response' = c)
  \/ /\ replies = <<>> /\ ~link /\ ~ok
     /\ UNCHANGED <<response, replies>>

\* readResponse: waits for a reply.  If none comes, response stays what it was.
ReadResponse(c, ok) ==
  \/ /\ replies # <<>>
     /\ response' = Head(replies) /\ replies' = Tail(replies)
     /\ ok = (response' = c)
  \/ /\ replies = <<>> /\ ~link /\ ~ok
     /\ UNCHANGED <<response, replies>>

\* The local file becomes c, if its medium is still mounted.
Put(c) == file' = IF target \in mounted THEN [file EXCEPT ![target] = c] ELSE file

\* quitFtpClient, first half.
Quit == fpc' = "quit" /\ Send("QUIT")

(***************************************************************************)
(* connectFtpClient and loginFtpClient.                                    *)
(***************************************************************************)
\* The task is created; it does nothing before the WiFi is connected.
FtpStart(m) ==
  /\ At("none", "wait")
  /\ target' = m /\ fallback' = file[m]
  /\ UNCHANGED <<ret, response, nControl, nData, local, serverVars, file, sure>>

\* socket(), connect() or calloc() may fail; then what was made is given back.
Connect ==
  \/ /\ At("wait", "end")
     /\ UNCHANGED <<target, ret, response, nControl, nData, local, serverVars, fileVars>>
  \/ /\ At("wait", "greet")
     /\ nControl' = TRUE /\ link' = TRUE /\ asked' = "greet"
     /\ UNCHANGED <<target, ret, response, nData, local, replies, data, sent, fileVars>>

HangUp == nControl' = FALSE /\ link' = FALSE

Greeted ==
  /\ Leaves("greet")
  /\ \/ ReadResponse(2, TRUE) /\ fpc' = "user" /\ Send("USER") /\ UNCHANGED <<nControl, link>>
     \/ ReadResponse(2, FALSE) /\ fpc' = "end" /\ HangUp /\ asked' = "none"
  /\ UNCHANGED <<target, ret, nData, local, data, sent, fileVars>>

\* A 2 instead of the 3 asked for means that no password is needed.  The test
\* is made of response, which after a failed read is still the greeting.
User ==
  /\ Leaves("user")
  /\ \/ ReadResponse(3, TRUE) /\ fpc' = "pass" /\ Send("PASS")
     \/ /\ ReadResponse(3, FALSE)
        /\ IF response' = 2 THEN fpc' = "open" /\ UNCHANGED asked ELSE Quit
  /\ UNCHANGED <<target, ret, nControl, nData, local, link, data, sent, fileVars>>

Pass ==
  /\ Leaves("pass")
  /\ \/ ReadResponse(2, TRUE) /\ fpc' = "open" /\ UNCHANGED asked
     \/ ReadResponse(2, FALSE) /\ Quit
  /\ UNCHANGED <<target, ret, nControl, nData, local, link, data, sent, fileVars>>

(***************************************************************************)
(* xfer, accessFtpClient and openPort.                                     *)
(***************************************************************************)
\* fopen(localfile, "w") comes first, and leaves an empty file.
Open ==
  /\ Leaves("open")
  /\ \/ /\ target \in mounted /\ fpc' = "type" /\ Send("TYPE")
        /\ local' = TRUE /\ Put(Empty(Served))
        /\ fallback' = Absent /\ sure' = sure \ {target}
        /\ UNCHANGED response
     \/ Quit /\ response' = 0 /\ UNCHANGED <<local, fileVars>>
  /\ UNCHANGED <<target, ret, nControl, nData, link, replies, data, sent>>

\* Mutant: the file is closed but not removed.
AccessFailsOnly == Quit /\ local' = FALSE /\ UNCHANGED file

\* accessFtpClient returned 0: fclose(), unlink(), return 0.
AccessFails == Quit /\ local' = FALSE /\ Put(Absent)

Type ==
  /\ Leaves("type")
  /\ \/ ReadResponse(2, TRUE) /\ fpc' = "pasv" /\ Send("PASV") /\ UNCHANGED <<local, file>>
     \/ ReadResponse(2, FALSE) /\ AccessFails
  /\ UNCHANGED <<target, ret, nControl, nData, link, data, sent, fallback, sure>>

OpenData == nData' = TRUE /\ data' = "open"

\* After a positive reply openPort connects; the reply may lack the address, and
\* socket(), connect(), calloc() or malloc() may fail.
Pasv ==
  /\ Leaves("pasv")
  /\ \/ /\ ReadResponse(2, TRUE) /\ fpc' = "retr" /\ Send("RETR")
        /\ OpenData
        /\ UNCHANGED <<local, file>>
     \/ \E ok \in BOOLEAN :
          ReadResponse(2, ok) /\ AccessFails /\ UNCHANGED <<nData, data>>
  /\ UNCHANGED <<target, ret, nControl, link, sent, fallback, sure>>

\* closeFtpClient: the data connection is given back, and unless the last reply
\* was an error another one is waited for.
CloseData == nData' = FALSE /\ data' = "gone"

\* Mutant: a reply is waited for in any case.
AwaitsAlways(resp) == TRUE

\* Mutant: the last reply of a transfer is not waited for.
AwaitsNever(resp) == FALSE

Awaits(resp) == resp # 5

\* Mutant: a data connection the server has refused is not given back.
RetrLeaking ==
  /\ Leaves("retr")
  /\ \/ /\ ReadResponse(1, TRUE) /\ fpc' = "read"
        /\ UNCHANGED <<data, local, file, asked>>
     \/ ReadResponse(1, FALSE) /\ AccessFails /\ data' = "gone"
  /\ UNCHANGED <<target, ret, nControl, nData, link, sent, fallback, sure>>

Retr ==
  /\ Leaves("retr")
  /\ \/ /\ ReadResponse(1, TRUE) /\ fpc' = "read"
        /\ UNCHANGED <<nData, data, local, file, asked>>
     \/ /\ ReadResponse(1, FALSE) /\ CloseData
        /\ IF Awaits(response') THEN fpc' = "refused" /\ UNCHANGED <<local, file, asked>>
                                ELSE AccessFails
  /\ UNCHANGED <<target, ret, nControl, link, sent, fallback, sure>>

Refused ==
  /\ Leaves("refused")
  /\ \E ok \in BOOLEAN : ReadResponse(2, ok)
  /\ AccessFails
  /\ UNCHANGED <<target, ret, nControl, nData, link, data, sent, fallback, sure>>

\* readFtpClient returns a line, fwrite() takes it.  What it takes of a file that
\* cannot be reached any more is lost.
ReadLine ==
  /\ Leaves("read") /\ file[target].n < sent
  /\ Put(Text(Served, file[target].n + 1, "none"))
  /\ UNCHANGED <<clientVars, serverVars, fallback, sure>>

\* The end of xfer.  What fflush() and fclose() return is not looked at.
Finish(rv, texts) ==
  /\ ret' = rv /\ local' = FALSE
  /\ \E c \in texts : Put(c)
  /\ CloseData /\ fpc' = IF Awaits(response) THEN "final" ELSE "quit"
  /\ UNCHANGED <<target, response, nControl, link, asked, replies, sent, fallback, sure>>

\* fwrite() takes nothing.
WriteFails ==
  /\ Leaves("read") /\ file[target].n < sent
  /\ Finish(0, {Absent})

\* No more lines: the end of the data, or an error of recv(), which is the same here.
ReadEnds ==
  /\ Leaves("read")
  /\ Finish(1, Cut(file[target]))

\* The data end in the middle of a line.
ReadPart ==
  /\ Leaves("read") /\ data = "closed" /\ file[target].n = sent /\ sent < Len(Lines[Served])
  /\ \E part \in Parts : Finish(1, {Text(Served, sent, part)})

\* The last reply is read, but not looked at.
Final ==
  /\ Leaves("final")
  /\ \E ok \in BOOLEAN :
       /\ ReadResponse(2, ok)
       /\ sure' = IF ok /\ file[target] = Whole(Served) THEN sure \cup {target} ELSE sure
  /\ Quit
  /\ UNCHANGED <<target, ret, nControl, nData, local, link, data, sent, file, fallback>>

\* quitFtpClient, second half.
HasQuit ==
  /\ At("quit", "end")
  /\ \E ok \in BOOLEAN : ReadResponse(2, ok)
  /\ HangUp /\ asked' = "none"
  /\ UNCHANGED <<target, ret, nData, local, data, sent, fileVars>>

\* getFileOK = ret, ftp_start = 0; the task is deleted.
FtpEnd ==
  /\ At("end", "none")
  /\ ret' = 0 /\ response' = 0 /\ replies' = <<>> /\ data' = "none" /\ sent' = 0
  /\ fallback' = Absent
  /\ UNCHANGED <<target, nControl, nData, local, link, asked, file, sure>>

FtpTask ==
  \/ Connect \/ Greeted \/ User \/ Pass \/ Open \/ Type \/ Pasv \/ Retr \/ Refused
  \/ ReadLine \/ WriteFails \/ ReadEnds \/ ReadPart \/ Final \/ HasQuit \/ FtpEnd

(***************************************************************************)
(* The server (external).                                                  *)
(***************************************************************************)
Allowed(cmd) ==
  CASE cmd = "greet" -> {2, 5}
    [] cmd = "USER"  -> {2, 3, 5}
    [] cmd = "RETR"  -> {1, 5}
    [] cmd = "QUIT"  -> {2}
    [] OTHER         -> {2, 5}

Says(d) == replies' = Append(replies, d)

SrvAnswer ==
  /\ link /\ asked \notin {"none", "transfer"}
  /\ \E d \in Allowed(asked) :
       /\ Says(d)
       /\ IF d = 1 THEN asked' = "transfer" /\ data' = "sending"
                   ELSE asked' = "none" /\ UNCHANGED data
  /\ UNCHANGED <<clientVars, link, sent, fileVars>>

SrvSend ==
  /\ data = "sending" /\ sent < Len(Lines[Served])
  /\ sent' = sent + 1
  /\ UNCHANGED <<clientVars, link, asked, replies, data, fileVars>>

\* The transfer ends, early or not, or the client has ended it.
SrvFinish ==
  /\ link /\ asked = "transfer" /\ asked' = "none"
  /\ \/ /\ data = "sending" /\ data' = "closed"
        /\ Says(IF sent = Len(Lines[Served]) THEN 2 ELSE 5)
     \/ /\ data = "gone" /\ \E d \in {2, 5} : Says(d)
        /\ UNCHANGED data
  /\ UNCHANGED <<clientVars, link, sent, fileVars>>

\* The server closes or is lost; what it sent last may be lost with it.
SrvClose ==
  /\ link /\ link' = FALSE /\ asked' = "none"
  /\ replies' \in {replies, <<>>}
  /\ data' = IF data \in {"open", "sending"} THEN "closed" ELSE data
  /\ UNCHANGED <<clientVars, sent, fileVars>>

Server == SrvAnswer \/ SrvSend \/ SrvFinish

(***************************************************************************)
(* Power is lost, or the chip restarts, or the medium is unmounted: what   *)
(* was written to a file that is open may be on the medium or not.         *)
(***************************************************************************)
Lost ==
  IF local /\ target \in mounted
  THEN {[file EXCEPT ![target] = x] : x \in Cut(file[target])} ELSE {file}

FtpReset ==
  /\ fpc' = "none" /\ ret' = 0 /\ response' = 0
  /\ nControl' = FALSE /\ nData' = FALSE /\ local' = FALSE
  /\ link' = FALSE /\ asked' = "none" /\ replies' = <<>> /\ data' = "none" /\ sent' = 0
  /\ fallback' = Absent /\ UNCHANGED <<target, sure>>

(***************************************************************************)
(* Properties.                                                             *)
(***************************************************************************)
\* The type invariant.
FtpTypeOK ==
  /\ fpc \in {"none", "wait", "greet", "user", "pass", "open", "type", "pasv", "retr",
              "refused", "read", "final", "quit", "end"}
  /\ target \in Media /\ ret \in {0, 1} /\ response \in {0, 1, 2, 3, 5}
  /\ nControl \in BOOLEAN /\ nData \in BOOLEAN /\ local \in BOOLEAN /\ link \in BOOLEAN
  /\ asked \in {"none", "greet", "USER", "PASS", "TYPE", "PASV", "RETR", "transfer", "QUIT"}
  /\ replies \in Seq({1, 2, 3, 5}) /\ Len(replies) <= 2
  /\ data \in {"none", "open", "sending", "closed", "gone"}
  /\ sent \in 0..Len(Lines[Served])
  /\ file \in [Media -> Texts] /\ fallback \in Texts /\ sure \subseteq Media

\* A fetch that fails leaves no piece of a file: what was on the medium is still
\* there if the file was never opened, and there is no file if it was
\* (ftp_cli.c:264-282, 307-312); unless the main task has unmounted the medium,
\* after which a piece cannot be removed (main.c:1064-1084).
FailureIsClean == fpc = "end" /\ ret = 0 /\ target \in mounted => file[target] = fallback

\* A fetch that succeeds has fetched the file ("return 1 if successful, 0
\* otherwise", ftp_cli.c:257).  The code takes an error of the data connection
\* for its end and does not look at the server's last reply.
SuccessIsWhole == fpc = "end" /\ ret = 1 => file[target] = Whole(Served)

\* Whatever happens to a fetch, the task that ends has given back its sockets,
\* buffers and file (ftp_cli.c:276-281, 309-313, 722-726, 765-768, 1029-1031, 1106-1111).
Released == fpc \in {"none", "end"} => ~nControl /\ ~nData /\ ~local

\* Client and server stay in step: while the client waits for a reply, either one
\* is on its way or the server has the command it is an answer to, so that no
\* reply is ever taken for the answer to another command and the two never
\* wait for each other (ftp_cli.c:235-253, 1029-1033, 1101-1113).
Owed ==
  CASE fpc = "greet" -> "greet" [] fpc = "user" -> "USER" [] fpc = "pass" -> "PASS"
    [] fpc = "type"  -> "TYPE"  [] fpc = "pasv" -> "PASV" [] fpc = "retr" -> "RETR"
    [] fpc = "final" -> "transfer" [] fpc = "quit" -> "QUIT" [] OTHER -> "none"

InStep ==
  /\ link /\ Owed # "none" /\ replies = <<>> => asked = Owed
  /\ Owed = "none" /\ fpc # "read" /\ fpc # "refused" => asked = "none" /\ replies = <<>>

\* A file whose transfer the server confirmed and the client read whole stays on
\* the medium until the next fetch, whatever the boots in between do: until
\* the user removes it (ftp_cli.c:264-282, main.c:837-852).
SureKept == \A m \in sure : file[m] = Whole(Served)
=============================================================================

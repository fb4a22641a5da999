------------------------------ MODULE ConfFile ------------------------------
(***************************************************************************)
(* Where the configuration comes from.  At boot (src/main/main.c:778-904)  *)
(* app_main mounts the card and the disk, a partition of the flash, copies *)
(* the card's conf.txt to a disk that has none, and reads the card's file, *)
(* or else the disk's, or else uses defaults.  The main loop (main.c:954-  *)
(* 1054) starts the FTP client of FtpGet on a medium when the TLS client   *)
(* asks for it, and unmounts what is mounted while no FTP client runs.     *)
(*                                                                         *)
(* A restart ends the main loop (main.c:1062-1095): the main task waits    *)
(* for the other tasks, but not longer than 3 s, unmounts everything, and  *)
(* restarts the chip 2 s later.  Nobody stops the FTP client, which does   *)
(* not look at restart_flag and may run until then.  Who asks for a        *)
(* restart, and what the wait means, is the subject of Restart.  Power may *)
(* be lost at any moment.  While the device is off the card may be changed.*)
(*                                                                         *)
(* Left out: that opendir() or calloc() fails in print_dir, which then     *)
(* overlooks a file; errors of the medium while read_cfg reads.            *)
(***************************************************************************)
EXTENDS FtpGet

CONSTANTS
  CardFiles,   \* the files the user puts on the card
  DiskFiles    \* the files the disk may have at first

ASSUME MediaAssumption == Media = {"card", "disk"} /\ CardFiles \cup DiskFiles \subseteq Files

VARIABLES
  mpc,        \* where the main task is
  txtConf,    \* the text of the card's file, read at boot
  gps_ini,    \* the configuration, until fmb630_task has it
  ones,       \* the list of scenarios, until fmb630_task has it
  ftp_go      \* the medium a fetch is asked for: ftp_go_flag and to_sd, or "no"

mainVars == <<mpc, mounted, txtConf, gps_ini, ones, ftp_go>>
vars     == <<ftpVars, mainVars>>

Zero == [p \in Params |-> "zero"]

\* What there is in memory after a reset.
Fresh ==
  /\ mpc = "off" /\ mounted = {} /\ txtConf = Absent
  /\ gps_ini = Zero /\ ones = <<>> /\ ftp_go = "no"

Init ==
  /\ NoTask /\ target = "disk" /\ Fresh
  /\ file \in [Media -> {Absent} \cup {Whole(f) : f \in CardFiles \cup DiskFiles}]
  /\ file["card"].of \notin DiskFiles /\ file["disk"].of \notin CardFiles
  /\ fallback = Absent /\ sure = {}

Main(from, to) == mpc = from /\ mpc' = to

(***************************************************************************)
(* Boot.                                                                   *)
(***************************************************************************)
\* The user may have written to the card or put another one in.
PowerOn ==
  /\ Main("off", "card")
  /\ \/ UNCHANGED <<file, sure>>
     \/ /\ \E c \in {Absent} \cup {Whole(f) : f \in CardFiles} : file' = [file EXCEPT !["card"] = c]
        /\ sure' = sure \ {"card"}
  /\ UNCHANGED <<mounted, txtConf, gps_ini, ones, ftp_go, clientVars, serverVars, fallback>>

\* The card is mounted if there is one and it can be; rdFile() returns at most 2047 bytes of its
\* file, fewer if reading fails, or nothing.
BootCard ==
  /\ Main("card", "disk")
  /\ \/ UNCHANGED <<mounted, txtConf>>
     \/ /\ mounted' = mounted \cup {"card"}
        /\ txtConf' \in Cut(file["card"]) \cup {Absent}
  /\ UNCHANGED <<gps_ini, ones, ftp_go, ftpVars>>

\* print_dir finds a conf.txt.
Present(m) == file[m] # Absent

\* Mutant: the copy is made although the disk has a file.
CopiesAnyway(txt) == txt # Absent

\* txtConf && !yes
Copies(txt) == txt # Absent /\ ~Present("disk")

\* With the pin low the disk's file is deleted, else the card's may be copied.
BootDisk ==
  /\ mpc = "disk"
  /\ \/ mpc' = "read" /\ UNCHANGED <<mounted, file, sure>>
     \/ /\ mounted' = mounted \cup {"disk"}
        /\ \/ /\ mpc' = "read"
              /\ file' = [file EXCEPT !["disk"] = Absent] /\ sure' = sure \ {"disk"}
           \/ /\ Copies(txtConf) /\ mpc' = "copy"
              /\ file' = [file EXCEPT !["disk"] = Empty(txtConf.of)] /\ UNCHANGED sure
           \/ mpc' = "read" /\ UNCHANGED <<file, sure>>
  /\ UNCHANGED <<txtConf, gps_ini, ones, ftp_go, clientVars, serverVars, fallback>>

\* What may have been written of the copy; nobody looks whether it is all of it.
CopyOf == {[file EXCEPT !["disk"] = x] : x \in Cut(txtConf)}

Copy ==
  /\ Main("copy", "read") /\ file' \in CopyOf
  /\ UNCHANGED <<mounted, txtConf, gps_ini, ones, ftp_go,
                 clientVars, serverVars, fallback, sure>>

\* What read_cfg sees on a medium: fopen() or calloc() may fail.
Seen(m) == IF m \in mounted THEN {file[m], Absent} ELSE {Absent}

\* The card, else the disk, else defaults.
Chosen(card, disk) ==
  LET first  == ReadCfg(gps_ini, ones, card)
      second == ReadCfg(first.cf, first.list, disk)
  IN  IF ~first.err THEN first
      ELSE IF second.err THEN [second EXCEPT !.cf = Default] ELSE second

Configure ==
  /\ Main("read", "start")
  /\ \E card \in Seen("card"), disk \in Seen("disk") :
       /\ gps_ini' = Chosen(card, disk).cf
       /\ ones' = Chosen(card, disk).list
  /\ mounted' = mounted \ {"card"} /\ txtConf' = Absent
  /\ UNCHANGED <<ftp_go, ftpVars>>

\* fmb630_task is created with what was read, which nobody changes from here on;
\* it is not kept.
Start ==
  /\ Main("start", "loop")
  /\ gps_ini' = Zero /\ ones' = <<>>
  /\ UNCHANGED <<mounted, txtConf, ftp_go, ftpVars>>

(***************************************************************************)
(* The main loop.                                                          *)
(***************************************************************************)
\* Mutant: what is mounted is unmounted every turn.
LoopUnmountAlways ==
  /\ Main("loop", "launch")
  /\ mounted' = {}
  /\ UNCHANGED <<txtConf, gps_ini, ones, ftp_go, ftpVars>>

\* if (!mdone) if (!ftp_start); mdone is always 0.
LoopUnmount ==
  /\ Main("loop", "launch")
  /\ mounted' = IF fpc = "none" THEN {} ELSE mounted
  /\ UNCHANGED <<txtConf, gps_ini, ones, ftp_go, ftpVars>>

\* The task is created if the medium can be mounted; it sets ftp_start within
\* the 500 ms the main task waits then.
LoopLaunch ==
  /\ Main("launch", "loop")
  /\ ftp_go # "no" /\ fpc = "none" /\ ftp_go' = "no"
  /\ \/ /\ mounted' = mounted \cup {ftp_go}
        /\ FtpStart(ftp_go) \/ UNCHANGED ftpVars
     \/ ftp_go \notin mounted /\ UNCHANGED <<mounted, ftpVars>>
  /\ UNCHANGED <<txtConf, gps_ini, ones>>

LoopNothing ==
  /\ Main("launch", "loop")
  /\ ftp_go = "no" \/ fpc # "none"
  /\ UNCHANGED <<mounted, txtConf, gps_ini, ones, ftp_go, ftpVars>>

\* {"ftp_go":"card"} or {"ftp_go":"flash"} of a TLS client.  After the loop nobody
\* looks at it.
AskFtp(m) ==
  /\ mpc \in {"loop", "launch"}
  /\ ftp_go' = m
  /\ UNCHANGED <<mpc, mounted, txtConf, gps_ini, ones, ftpVars>>

(***************************************************************************)
(* The end of the main loop, the restart, and loss of power.  What was     *)
(* being written may be cut short.                                         *)
(***************************************************************************)
\* restart_flag is looked at between two turns, the pin at the end of one.
LeaveLoop ==
  /\ Main("loop", "stopping")
  /\ UNCHANGED <<mounted, txtConf, gps_ini, ones, ftp_go, ftpVars>>

\* All tasks have ended, or the 3 s are over; then the 2 s begin.
UnmountAll ==
  /\ Main("stopping", "unmounted")
  /\ mounted' = {} /\ file' \in Lost
  /\ UNCHANGED <<txtConf, gps_ini, ones, ftp_go, clientVars, serverVars, fallback, sure>>

\* esp_restart() at the end, or power is lost or the chip resets anywhere.
Reset ==
  /\ mpc # "off" /\ mpc' = "off" /\ mounted' = {} /\ txtConf' = Absent
  /\ gps_ini' = Zero /\ ones' = <<>> /\ ftp_go' = "no"
  /\ file' \in IF mpc = "copy" THEN CopyOf ELSE Lost
  /\ FtpReset

MainTask ==
  \/ PowerOn \/ BootCard \/ BootDisk \/ Copy \/ Configure \/ Start
  \/ LoopUnmount \/ LoopLaunch \/ LoopNothing \/ LeaveLoop \/ UnmountAll

FtpStep    == FtpTask /\ UNCHANGED mainVars
ServerStep == Server /\ UNCHANGED mainVars

Next ==
  \/ MainTask \/ Reset
  \/ \E m \in Media : AskFtp(m)
  \/ FtpStep \/ ServerStep \/ (SrvClose /\ UNCHANGED mainVars)

Spec == Init /\ [][Next]_vars

\* Fairness: the FTP task runs when it can, and the server answers what it is
\* asked and ends what it sends, unless it is lost.
FairSpec == Spec /\ WF_vars(FtpStep) /\ WF_vars(ServerStep)

(***************************************************************************)
(* Properties.                                                             *)
(***************************************************************************)
\* The type invariant.
TypeOK ==
  /\ FtpTypeOK
  /\ mpc \in {"off", "card", "disk", "copy", "read", "start", "loop", "launch",
              "stopping", "unmounted"}
  /\ mounted \subseteq Media /\ txtConf \in Texts
  /\ gps_ini \in [Params -> Values] /\ ftp_go \in Media \cup {"no"}

\* The main loop unmounts every turn (main.c:1000-1017), but never the file system
\* under the file that the FTP client writes.  Only the main task on its way to
\* the restart does that, when its 3 s are over (main.c:1064-1084).
MountedWhileOpen == local /\ mpc # "unmounted" => target \in mounted

\* However files were cut short by the FTP client, by the copy at boot or by a
\* loss of power, the parameters in use are all from one file that has enough of
\* them, or all defaults; and the list of scenarios is that file's, preceded at
\* most by the entries of the file on the card that was rejected
\* (main.c:868-899, fmb630.c:513, 527-530).
Accept == {c \in Texts : Accepted(c)}
Reject == Texts \ Accept
Ways ==
  {<<Parsed(c), Entries(r) \o Entries(c)>> : c \in Accept, r \in Reject} \cup
  {<<Default, Entries(r) \o Entries(s)>> : r, s \in Reject}
Configured == mpc = "start" => <<gps_ini, ones>> \in Ways

\* Every fetch ends, unless the connection is lost without either side noticing
\* (ftp_cli.c:1163-1200).
FtpEnds == fpc # "none" ~> fpc = "none"
=============================================================================

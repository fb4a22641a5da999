------------------------------ MODULE FmbRelay ------------------------------
(***************************************************************************)
(* The relay box (box, tmr_box), the output pins (pin, tmr_pin) and what   *)
(* the tracker reports of them (mirror.io1.val_dout*, val_din1 and         *)
(* val_ignition).  Commands of the server set them (parse_cmd,             *)
(* src/main/fmb630.c:841-1155); the end of each turn of the session's loop *)
(* switches off what its timer has run out for (fmb630.c:1463-1497).       *)
(*                                                                         *)
(* A timer is modelled by the time it has left: NotArmed stands for the    *)
(* value 0 that the code keeps in tmr_box and tmr_pin, and Tick is the     *)
(* 100 ms tick that check_tmr() compares with.  Sweeps happen only inside  *)
(* a session, so `connected' says whether there is one.                    *)
(*                                                                         *)
(* The module is about work mode 0.  In mode 1 the scenario (FmbScenario)  *)
(* writes the reported ignition as well, with every record it makes.       *)
(*                                                                         *)
(* The commands work on the copies bx and pn, which are put back when all  *)
(* parameters are parsed; only SET_ALL can fail in between.  Left out are  *)
(* the commands that change nothing (those that read, SET_ON and SET_OFF   *)
(* for a relay there is not), and digits other than 0 and 1, which the     *)
(* code does not refuse.                                                   *)
(***************************************************************************)
EXTENDS Integers

CONSTANTS
  Relays,      \* relays of the box
  IgnA, IgnB,  \* the two that stand for the ignition: 7 and 8, bx[6] and bx[7]
  Pins,        \* output pins
  MaxTime,     \* bound: longest time a command asks for
  MaxCmds      \* bound: commands in a behaviour

ASSUME RelaysAssumption == {IgnA, IgnB} \subseteq Relays /\ IgnA # IgnB
ASSUME TimesAssumption  == MaxTime \in Nat /\ MaxCmds \in Nat

VARIABLES
  box, tmr_box,   \* relays: [stat, time], and the time left
  pin, tmr_pin,   \* pins, likewise
  dout,           \* mirror.io1.val_dout1..4
  ignition,       \* mirror.io1.val_din1 and val_ignition, always set together
  connected,
  ncmds,          \* commands so far
  named           \* relays the last step named in a command

vars == <<box, tmr_box, pin, tmr_pin, dout, ignition, connected, ncmds, named>>

NotArmed == -1
Off      == [stat |-> 0, time |-> 0]
Settings == {Off} \cup [stat : {1}, time : 0..MaxTime]

\* Mutant: the timer is armed for a relay that is being switched off too.
ArmAlways(r) == r.time

\* Mutant: a time of one unit does not arm the timer.
ArmLongOnly(r) == IF r.stat = 1 /\ r.time > 1 THEN r.time ELSE NotArmed

\* Switched on for a time: the timer is armed; otherwise it is cleared.
Arm(r) == IF r.stat = 1 /\ r.time > 0 THEN r.time ELSE NotArmed

\* Both ignition relays on: ignition on; both off: off; else as it was.
IgnitionBy(b) ==
  IF b[IgnA].stat = 1 /\ b[IgnB].stat = 1 THEN 1
  ELSE IF b[IgnA].stat = 0 /\ b[IgnB].stat = 0 THEN 0
  ELSE ignition

Init ==
  /\ box = [k \in Relays |-> Off] /\ tmr_box = [k \in Relays |-> NotArmed]
  /\ pin = [p \in Pins |-> Off]   /\ tmr_pin = [p \in Pins |-> NotArmed]
  /\ dout = [p \in Pins |-> 0] /\ ignition = 0
  /\ connected = FALSE /\ ncmds = 0 /\ named = {}

\* parse_cmd() runs only inside a session.
Command == connected /\ ncmds < MaxCmds /\ ncmds' = ncmds + 1 /\ UNCHANGED connected

\* Mutant: an entry X switches the relay off.
OverlayOff(old, req) == [k \in Relays |-> IF k \in DOMAIN req THEN req[k] ELSE Off]

\* Relays whose entry is X, those outside the domain of req, stay as they are.
Overlay(old, req) == [k \in Relays |-> IF k \in DOMAIN req THEN req[k] ELSE old[k]]

\* Mutant: the copy is put back whatever has become of the parsing.
KeptAnyway(bx, erc) == bx

\* if (erc), else memcpy() of the copy to the box.
Kept(bx, erc) == IF erc THEN box ELSE bx

\* SET_ALL.  Every timer is set anew, those of the relays left alone included.
SetAll(req) ==
  /\ Command
  /\ box' = Kept(Overlay(box, req), FALSE)
  /\ tmr_box' = [k \in Relays |-> Arm(box'[k])]
  /\ ignition' = IgnitionBy(box')
  /\ named' = DOMAIN req
  /\ UNCHANGED <<pin, tmr_pin, dout>>

\* SET_ALL with an entry that has no time, after those of req: an error.
SetAllError(req) ==
  /\ Command
  /\ box' = Kept(Overlay(box, req), TRUE)
  /\ named' = {}
  /\ UNCHANGED <<tmr_box, ignition, pin, tmr_pin, dout>>

\* SET_ON k t and SET_OFF k.
SetOne(k, r) ==
  /\ Command
  /\ box' = [box EXCEPT ![k] = r]
  /\ tmr_box' = [tmr_box EXCEPT ![k] = Arm(r)]
  /\ ignition' = IF k \in {IgnA, IgnB} THEN IgnitionBy(box') ELSE ignition
  /\ named' = {k}
  /\ UNCHANGED <<pin, tmr_pin, dout>>

\* setdigout: a pin in neither set has an X and keeps its state, but every pin
\* that ends up on takes the command's time.
SetDigout(set, clear, tim) ==
  LET stat(p) == IF p \in set THEN 1 ELSE IF p \in clear THEN 0 ELSE pin[p].stat IN
  /\ Command
  /\ pin' = [p \in Pins |-> [stat |-> stat(p), time |-> IF stat(p) = 1 THEN tim[p] ELSE 0]]
  /\ tmr_pin' = [p \in Pins |-> Arm(pin'[p])]
  /\ dout' = [p \in Pins |-> stat(p)]
  /\ named' = {}
  /\ UNCHANGED <<box, tmr_box, ignition>>

\* An armed timer that check_tmr() says is over.
Due(t) == t = 0

\* Mutant: the sweep leaves mirror alone.
ClearDoutNever(p) == dout[p]

ClearDout(p) == IF Due(tmr_pin[p]) THEN 0 ELSE dout[p]

\* The end of a turn: relays first, then pins.  The ignition is not looked at.
Sweep ==
  /\ connected
  /\ box' = [k \in Relays |-> IF Due(tmr_box[k]) THEN Off ELSE box[k]]
  /\ tmr_box' = [k \in Relays |-> IF Due(tmr_box[k]) THEN NotArmed ELSE tmr_box[k]]
  /\ pin' = [p \in Pins |-> IF Due(tmr_pin[p]) THEN Off ELSE pin[p]]
  /\ tmr_pin' = [p \in Pins |-> IF Due(tmr_pin[p]) THEN NotArmed ELSE tmr_pin[p]]
  /\ dout' = [p \in Pins |-> ClearDout(p)]
  /\ named' = {}
  /\ UNCHANGED <<ignition, connected, ncmds>>

\* Mutant: a timer that ran out, or is not armed, goes on counting.
TicksLeftUnguarded(t) == t - 1

TicksLeft(t) == IF t > 0 THEN t - 1 ELSE t

Tick ==
  /\ tmr_box' = [k \in Relays |-> TicksLeft(tmr_box[k])]
  /\ tmr_pin' = [p \in Pins |-> TicksLeft(tmr_pin[p])]
  /\ named' = {}
  /\ UNCHANGED <<box, pin, dout, ignition, connected, ncmds>>

Connect    == ~connected /\ connected' = TRUE
              /\ named' = {} /\ UNCHANGED <<box, tmr_box, pin, tmr_pin, dout, ignition, ncmds>>
Disconnect == connected /\ connected' = FALSE
              /\ named' = {} /\ UNCHANGED <<box, tmr_box, pin, tmr_pin, dout, ignition, ncmds>>

Next ==
  \/ \E S \in SUBSET Relays : \E req \in [S -> Settings] : SetAll(req) \/ SetAllError(req)
  \/ \E k \in Relays, r \in Settings : SetOne(k, r)
  \/ \E set \in SUBSET Pins, tim \in [Pins -> 0..MaxTime] :
       \E clear \in SUBSET (Pins \ set) : SetDigout(set, clear, tim)
  \/ Sweep \/ Tick \/ Connect \/ Disconnect

Spec == Init /\ [][Next]_vars

(***************************************************************************)
(* Fairness: the tick does not stop; a session that was lost is opened     *)
(* again (an assumption about the server and the network); every session   *)
(* ends at least one turn of its loop, so sweeps happen over and over even *)
(* if sessions are cut short: strong fairness of Sweep.                    *)
(***************************************************************************)
FairSpec == Spec /\ WF_vars(Tick) /\ WF_vars(Connect) /\ SF_vars(Sweep)

(***************************************************************************)
(* Properties.                                                             *)
(***************************************************************************)
\* The type invariant.
TypeOK ==
  /\ box \in [Relays -> Settings] /\ tmr_box \in [Relays -> NotArmed..MaxTime]
  /\ pin \in [Pins -> Settings]   /\ tmr_pin \in [Pins -> NotArmed..MaxTime]
  /\ dout \in [Pins -> {0, 1}] /\ ignition \in {0, 1}
  /\ connected \in BOOLEAN /\ ncmds \in 0..MaxCmds /\ named \subseteq Relays

\* A timer is armed exactly for what was switched on for a time, and never for
\* longer: nothing timed can stay on without a timer, and no stale timer can
\* switch off what was switched on later without one (fmb630.c:953-956,
\* 1036-1040, 1073-1076, 1463-1497).
TimedHas(r, t) == IF r.stat = 1 /\ r.time > 0 THEN 0 <= t /\ t <= r.time ELSE t = NotArmed
TimersMatch ==
  /\ \A k \in Relays : TimedHas(box[k], tmr_box[k])
  /\ \A p \in Pins : TimedHas(pin[p], tmr_pin[p])

\* What the tracker reports of an output is the state of the output, whoever
\* changed it last, a command or a timer (fmb630.c:1030-1035, 1481-1489).
PinsReported == \A p \in Pins : dout[p] = pin[p].stat

\* A relay changes only because a command named it or because its own timer
\* ran out: never as a side effect of a command for another relay, nor of one
\* that failed half way (fmb630.c:926-951, 964, 1466-1469).
ChangesOnlyWhenNamed ==
  [][\A k \in Relays : box'[k].stat # box[k].stat =>
        k \in named' \/ (tmr_box[k] = 0 /\ box'[k] = Off)]_vars

\* A relay switched on for a time is off in the end, or told to stay on.  The
\* commands stop: each SET_ALL sets the timers of all relays anew.
TimedGoesOff ==
  \A k \in Relays : (box[k].stat = 1 /\ box[k].time > 0) ~> (box[k].stat = 0 \/ box[k].time = 0)

\* The reported ignition is off when both ignition relays are off, as the
\* comment at fmb630.c:961 says.
IgnitionOffWithRelays == box[IgnA].stat = 0 /\ box[IgnB].stat = 0 => ignition = 0
=============================================================================

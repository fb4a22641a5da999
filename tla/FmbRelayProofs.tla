--------------------------- MODULE FmbRelayProofs ---------------------------
(***************************************************************************)
(* Proofs about FmbRelay, for any relays, pins and bounds: type            *)
(* correctness, the match between what is on for a time and the timers,    *)
(* the agreement of what is reported with what is on, and the absence of   *)
(* side effects between relays.                                            *)
(***************************************************************************)
EXTENDS FmbRelay, TLAPS

LEMMA SettingsType ==
  ASSUME NEW r \in Settings
  PROVE  /\ r.stat \in {0, 1} /\ r.time \in 0..MaxTime
         /\ Arm(r) \in NotArmed..MaxTime
         /\ TimedHas(r, Arm(r))
  BY TimesAssumption DEF Settings, Off, Arm, NotArmed, TimedHas

LEMMA OffType == Off \in Settings /\ TimedHas(Off, NotArmed) /\ Off.stat = 0
  BY TimesAssumption DEF Settings, Off, TimedHas

\* The settings a pin can get from a command.
LEMMA PinSettings ==
  ASSUME NEW s \in {0, 1}, NEW t \in 0..MaxTime
  PROVE  [stat |-> s, time |-> IF s = 1 THEN t ELSE 0] \in Settings
  BY TimesAssumption DEF Settings, Off

\* A tick keeps a timer within its bounds and never past what is asked.
LEMMA TickType ==
  ASSUME NEW t \in NotArmed..MaxTime
  PROVE  /\ TicksLeft(t) \in NotArmed..MaxTime
         /\ \A r \in Settings : TimedHas(r, t) => TimedHas(r, TicksLeft(t))
  BY TimesAssumption, SettingsType DEF TicksLeft, NotArmed, TimedHas

\* What SET_ALL makes of the box.
LEMMA OverlayType ==
  ASSUME NEW S \in SUBSET Relays, NEW req \in [S -> Settings], NEW old \in [Relays -> Settings]
  PROVE  /\ Overlay(old, req) \in [Relays -> Settings]
         /\ \A k \in Relays \ S : Overlay(old, req)[k] = old[k]
  BY DEF Overlay

LEMMA IgnitionType ==
  ASSUME ignition \in {0, 1}, NEW b
  PROVE  IgnitionBy(b) \in {0, 1}
  BY DEF IgnitionBy

-----------------------------------------------------------------------------
\* The invariant: the types, the timers that match what is on, and the report
\* of the pins.  Each part is inductive given the types.
Inv == TypeOK /\ TimersMatch /\ PinsReported

LEMMA InitInv == Init => Inv
<1> SUFFICES ASSUME Init PROVE Inv
  OBVIOUS
<1>1. TypeOK
  <2>1. NotArmed \in NotArmed..MaxTime /\ 0 \in 0..MaxCmds
    BY TimesAssumption DEF NotArmed
  <2>2. box \in [Relays -> Settings] /\ pin \in [Pins -> Settings]
    BY OffType DEF Init
  <2>3. tmr_box \in [Relays -> NotArmed..MaxTime] /\ tmr_pin \in [Pins -> NotArmed..MaxTime]
    BY <2>1 DEF Init
  <2>4. dout \in [Pins -> {0, 1}] /\ ignition \in {0, 1}
    BY DEF Init
  <2>5. connected \in BOOLEAN /\ ncmds \in 0..MaxCmds /\ named \subseteq Relays
    BY <2>1 DEF Init
  <2> QED
    BY <2>2, <2>3, <2>4, <2>5 DEF TypeOK
<1>2. TimersMatch
  BY OffType DEF Init, TimersMatch
<1>3. PinsReported
  BY OffType DEF Init, PinsReported
<1> QED
  BY <1>1, <1>2, <1>3 DEF Inv

LEMMA CommandType ==
  ASSUME Command, ncmds \in 0..MaxCmds, connected \in BOOLEAN
  PROVE  ncmds' \in 0..MaxCmds /\ connected' \in BOOLEAN
  BY TimesAssumption DEF Command

LEMMA SetAllInv ==
  ASSUME Inv, NEW S \in SUBSET Relays, NEW req \in [S -> Settings], SetAll(req)
  PROVE  Inv'
<1>1. box' \in [Relays -> Settings]
  BY OverlayType DEF SetAll, Kept, Inv, TypeOK
<1>2. tmr_box' \in [Relays -> NotArmed..MaxTime]
  BY <1>1, SettingsType DEF SetAll
<1>3. ignition' \in {0, 1}
  BY IgnitionType DEF SetAll, Inv, TypeOK
<1>4. TypeOK'
  <2>1. ncmds' \in 0..MaxCmds /\ connected' \in BOOLEAN
    BY CommandType DEF SetAll, Inv, TypeOK
  <2>2. named' \subseteq Relays /\ UNCHANGED <<pin, tmr_pin, dout>>
    BY DEF SetAll
  <2> QED
    BY <1>1, <1>2, <1>3, <2>1, <2>2 DEF Inv, TypeOK
<1>5. TimersMatch'
  BY <1>1, SettingsType DEF SetAll, Inv, TimersMatch
<1>6. PinsReported'
  BY DEF SetAll, Inv, PinsReported
<1> QED
  BY <1>4, <1>5, <1>6 DEF Inv

LEMMA SetAllErrorInv ==
  ASSUME Inv, NEW req, SetAllError(req)
  PROVE  Inv'
<1>1. box' = box
  BY DEF SetAllError, Kept
<1>2. TypeOK'
  <2>1. ncmds' \in 0..MaxCmds /\ connected' \in BOOLEAN
    BY CommandType DEF SetAllError, Inv, TypeOK
  <2>2. named' \subseteq Relays /\ UNCHANGED <<tmr_box, ignition, pin, tmr_pin, dout>>
    BY DEF SetAllError
  <2> QED
    BY <1>1, <2>1, <2>2 DEF Inv, TypeOK
<1>3. TimersMatch' /\ PinsReported'
  BY <1>1 DEF SetAllError, Inv, TimersMatch, PinsReported
<1> QED
  BY <1>2, <1>3 DEF Inv

LEMMA SetOneInv ==
  ASSUME Inv, NEW k \in Relays, NEW r \in Settings, SetOne(k, r)
  PROVE  Inv'
<1>1. box' \in [Relays -> Settings] /\ tmr_box' \in [Relays -> NotArmed..MaxTime]
  BY SettingsType DEF SetOne, Inv, TypeOK
<1>2. ignition' \in {0, 1}
  BY IgnitionType DEF SetOne, Inv, TypeOK
<1>3. TypeOK'
  BY <1>1, <1>2, TimesAssumption DEF SetOne, Command, Inv, TypeOK
<1>4. TimersMatch'
  BY SettingsType DEF SetOne, Inv, TypeOK, TimersMatch
<1>5. PinsReported'
  BY DEF SetOne, Inv, PinsReported
<1> QED
  BY <1>3, <1>4, <1>5 DEF Inv

LEMMA SetDigoutInv ==
  ASSUME Inv, NEW set \in SUBSET Pins, NEW clear \in SUBSET (Pins \ set),
         NEW tim \in [Pins -> 0..MaxTime], SetDigout(set, clear, tim)
  PROVE  Inv'
<1> DEFINE stat(p) == IF p \in set THEN 1 ELSE IF p \in clear THEN 0 ELSE pin[p].stat
<1>1. \A p \in Pins : stat(p) \in {0, 1}
  BY SettingsType DEF Inv, TypeOK
<1>2. pin' = [p \in Pins |-> [stat |-> stat(p), time |-> IF stat(p) = 1 THEN tim[p] ELSE 0]]
  BY DEF SetDigout
<1>3. pin' \in [Pins -> Settings] /\ dout' \in [Pins -> {0, 1}]
  <2>1. dout' = [p \in Pins |-> stat(p)]
    BY DEF SetDigout
  <2> HIDE DEF stat
  <2> QED
    BY <1>1, <1>2, <2>1, PinSettings
<1>4. tmr_pin' \in [Pins -> NotArmed..MaxTime]
  BY <1>3, SettingsType DEF SetDigout
<1>5. TypeOK'
  BY <1>3, <1>4, TimesAssumption DEF SetDigout, Command, Inv, TypeOK
<1>6. TimersMatch'
  BY <1>3, SettingsType DEF SetDigout, Inv, TimersMatch
<1>7. PinsReported'
  BY <1>2 DEF SetDigout, PinsReported
<1> QED
  BY <1>5, <1>6, <1>7 DEF Inv

LEMMA SweepInv ==
  ASSUME Inv, Sweep
  PROVE  Inv'
<1>1. TypeOK'
  BY OffType, TimesAssumption DEF Sweep, ClearDout, NotArmed, Inv, TypeOK
<1>2. TimersMatch'
  BY OffType DEF Sweep, Inv, TypeOK, TimersMatch
<1>3. PinsReported'
  BY OffType DEF Sweep, ClearDout, Inv, TypeOK, PinsReported
<1> QED
  BY <1>1, <1>2, <1>3 DEF Inv

LEMMA TickInv ==
  ASSUME Inv, Tick
  PROVE  Inv'
<1>1. TypeOK'
  BY TickType DEF Tick, Inv, TypeOK
<1>2. TimersMatch'
  BY TickType DEF Tick, Inv, TypeOK, TimersMatch
<1>3. PinsReported'
  BY DEF Tick, Inv, PinsReported
<1> QED
  BY <1>1, <1>2, <1>3 DEF Inv

LEMMA NextInv == Inv /\ [Next]_vars => Inv'
<1> SUFFICES ASSUME Inv, [Next]_vars PROVE Inv'
  OBVIOUS
<1>1. ASSUME NEW S \in SUBSET Relays, NEW req \in [S -> Settings],
             SetAll(req) \/ SetAllError(req)
      PROVE  Inv'
  BY <1>1, SetAllInv, SetAllErrorInv
<1>2. ASSUME NEW k \in Relays, NEW r \in Settings, SetOne(k, r)
      PROVE  Inv'
  BY <1>2, SetOneInv
<1>3. ASSUME NEW set \in SUBSET Pins, NEW tim \in [Pins -> 0..MaxTime],
             NEW clear \in SUBSET (Pins \ set), SetDigout(set, clear, tim)
      PROVE  Inv'
  BY <1>3, SetDigoutInv
<1>4. CASE Sweep
  BY <1>4, SweepInv
<1>5. CASE Tick
  BY <1>5, TickInv
<1>6. CASE Connect \/ Disconnect
  BY <1>6 DEF Connect, Disconnect, Inv, TypeOK, TimersMatch, PinsReported
<1>7. CASE UNCHANGED vars
  BY <1>7 DEF vars, Inv, TypeOK, TimersMatch, PinsReported
<1> QED
  BY <1>1, <1>2, <1>3, <1>4, <1>5, <1>6, <1>7 DEF Next

\* Every reachable state satisfies the invariant.
THEOREM SpecInv == Spec => []Inv
<1>1. Init => Inv
  BY InitInv
<1>2. Inv /\ [Next]_vars => Inv'
  BY NextInv
<1> QED
  BY <1>1, <1>2, PTL DEF Spec

\* The relays, the pins and their timers keep their types (fmb630.c:841-1155,
\* 1463-1497).
THEOREM SpecTypeOK == Spec => []TypeOK
<1>1. Inv => TypeOK
  BY DEF Inv
<1> QED
  BY <1>1, SpecInv, PTL

\* Whatever the commands, sessions and sweeps do, in any order: a timer is armed
\* exactly for what is on for a time, and never for longer.
THEOREM SpecTimersMatch == Spec => []TimersMatch
<1>1. Inv => TimersMatch
  BY DEF Inv
<1> QED
  BY <1>1, SpecInv, PTL

\* What the tracker reports of an output is always the state of the output.
THEOREM SpecPinsReported == Spec => []PinsReported
<1>1. Inv => PinsReported
  BY DEF Inv
<1> QED
  BY <1>1, SpecInv, PTL

\* A relay that a step switches was named by that step's command, or its own
\* timer had run out.
LEMMA StepNamed ==
  ASSUME TypeOK, [Next]_vars, NEW k \in Relays, box'[k].stat # box[k].stat
  PROVE  k \in named' \/ (tmr_box[k] = 0 /\ box'[k] = Off)
<1>1. ASSUME NEW S \in SUBSET Relays, NEW req \in [S -> Settings],
             SetAll(req) \/ SetAllError(req)
      PROVE  k \in named'
  BY <1>1, OverlayType DEF SetAll, SetAllError, Kept, TypeOK
<1>2. ASSUME NEW j \in Relays, NEW r \in Settings, SetOne(j, r)
      PROVE  k \in named'
  BY <1>2 DEF SetOne, TypeOK
<1>3. ASSUME NEW set \in SUBSET Pins, NEW tim \in [Pins -> 0..MaxTime],
             NEW clear \in SUBSET (Pins \ set), SetDigout(set, clear, tim)
      PROVE  FALSE
  BY <1>3 DEF SetDigout
<1>4. CASE Sweep
  BY <1>4 DEF Sweep, Due
<1>5. CASE Tick \/ Connect \/ Disconnect \/ UNCHANGED vars
  BY <1>5 DEF Tick, Connect, Disconnect, vars
<1> QED
  BY <1>1, <1>2, <1>3, <1>4, <1>5 DEF Next

\* No command switches a relay it did not name, and no timer but a relay's own
\* switches it (fmb630.c:926-951, 1466-1469).
THEOREM SpecChangesOnlyWhenNamed == Spec => ChangesOnlyWhenNamed
<1>1. TypeOK /\ [Next]_vars =>
        [\A k \in Relays : box'[k].stat # box[k].stat =>
           k \in named' \/ (tmr_box[k] = 0 /\ box'[k] = Off)]_vars
  BY StepNamed
<1> QED
  BY <1>1, SpecTypeOK, PTL DEF Spec, ChangesOnlyWhenNamed
=============================================================================

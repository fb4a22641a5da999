----------------------------- MODULE FmbScenario -----------------------------
(***************************************************************************)
(* The scenario the emulated vehicle drives (make_record with wmode = 1,   *)
(* src/main/fmb630.c:567-839).  Each record is one sample of the current   *)
(* entry of the scenario list: Park waits until the fuel pump is released  *)
(* (output 1) and refuels, a compass direction moves for kols samples,     *)
(* Stop opens and closes the doors and waits until the pump is locked.     *)
(* After the last sample of an entry the next one is taken, and after the  *)
(* last entry the first.                                                   *)
(*                                                                         *)
(* The eight compass directions differ only in the coordinates they change *)
(* and are one kind, "Move".  Fuel is the reading of the level sensor: it  *)
(* grows as the tank empties.  Between records the pump,                   *)
(* mirror.io1.val_dout1, is changed by commands and by a timer, and the    *)
(* ignition by the commands for relays 7 and 8 (FmbRelay).  The records    *)
(* are made whether or not they can be sent.                               *)
(***************************************************************************)
EXTENDS Integers, Sequences

CONSTANTS
  Scenarios,   \* the scenario lists considered: sequences of entries
  FullTank,    \* max_fuel_tank, the sensor's reading for a full tank
  EmptyTank,   \* min_fuel_tank, the reading for an empty one
  FuelMod,     \* readings are kept modulo this (2^16 in the code)
  MaxStay      \* bound: samples of one entry are counted up to this

Leave == 255   \* the value of scena_kols that ends Park and Stop
Half  == (EmptyTank - FullTank) \div 2
Low   == EmptyTank - EmptyTank \div 10   \* a tenth of the tank is left

Entry == [dir : {"Park", "Move", "Stop"}, kols : Nat]

ASSUME ScenariosAssumption == Scenarios \subseteq Seq(Entry)
ASSUME FuelAssumption ==
  /\ FullTank \in Nat /\ EmptyTank \in Nat /\ FuelMod \in Nat
  /\ FullTank < EmptyTank /\ EmptyTank < FuelMod /\ FullTank <= Half
  /\ MaxStay \in Nat

VARIABLES
  list,          \* the scenario list, built once by read_cfg
  scena_index,   \* current entry
  scena_kols,    \* samples of it so far
  cdut,          \* every fourth sample of a move uses fuel
  fuel,          \* val_ain1
  dout1,         \* the fuel pump is released
  ignition,      \* val_din1 and val_ignition
  byCommand,     \* history: the last to set them was a relay command
  open,          \* doors and trunk, val_din2 = val_din3 = 0
  skp,           \* val_din4: parked
  moving,        \* the speed in the last record is not 0
  send_period,   \* "park" (sp_park), "move" (sp_move) or "short" (2 ticks)
  stop_flag,     \* set when the tank is nearly empty
  stay           \* records made since the current entry was taken

vars == <<list, scena_index, scena_kols, cdut, fuel, dout1, ignition, open, skp,
          byCommand, moving, send_period, stop_flag, stay>>

Init ==
  /\ list \in Scenarios
  /\ scena_index = 1 /\ scena_kols = 0 /\ cdut = 3 /\ fuel = FullTank
  /\ dout1 = FALSE /\ ignition = FALSE /\ byCommand = FALSE /\ open = FALSE
  /\ skp = TRUE /\ moving = FALSE /\ send_period = "move" /\ stop_flag = FALSE /\ stay = 0

\* get_ones(scena_index) finds an entry of this kind.
At(dir) == scena_index \in DOMAIN list /\ list[scena_index].dir = dir
Here    == list[scena_index]

\* Mutant: the index is not wrapped at the end of the list.
NextIndexUnwrapped == scena_index + 1

NextIndex == IF scena_index + 1 > Len(list) THEN 1 ELSE scena_index + 1

\* The end of every sample: kols samples were made; with enough of them the
\* next entry is taken.
Sample(kols, period) ==
  IF kols >= Here.kols
    THEN /\ scena_kols' = 0 /\ scena_index' = NextIndex
         /\ send_period' = "move" /\ stay' = 0
    ELSE /\ scena_kols' = kols /\ send_period' = period
         /\ stay' = IF stay < MaxStay THEN stay + 1 ELSE stay
         /\ UNCHANGED scena_index

\* Mutant: a Park does not refuel.
RefuelledNot == fuel

Refuelled == IF fuel - Half < FullTank THEN FullTank ELSE fuel - Half

\* Mutant: the vehicle leaves once the pump is released, whatever is in the tank.
ReadyWithoutFuel == dout1

\* Mutant: the vehicle leaves with the pump locked.
ReadyLocked == fuel <= Half

\* The pump is released and more than half of the tank is there.
Ready == dout1 /\ fuel <= Half

\* Mutant: the ignition is left off.
ParkNoIgnition ==
  /\ At("Park")
  /\ Sample(IF Ready THEN Leave ELSE 1, IF Ready THEN "short" ELSE "park")
  /\ skp' = ~Ready /\ fuel' = IF dout1 /\ ~Ready THEN Refuelled ELSE fuel
  /\ moving' = FALSE /\ open' = FALSE
  /\ UNCHANGED <<list, cdut, dout1, ignition, byCommand, stop_flag>>

Park ==
  /\ At("Park")
  /\ Sample(IF Ready THEN Leave ELSE 1, IF Ready THEN "short" ELSE "park")
  /\ ignition' = (ignition \/ dout1) /\ byCommand' = (byCommand /\ ~dout1)
  /\ skp' = ~Ready
  /\ fuel' = IF dout1 /\ ~Ready THEN Refuelled ELSE fuel
  /\ moving' = FALSE /\ open' = FALSE
  /\ UNCHANGED <<list, cdut, dout1, stop_flag>>

Move ==
  /\ At("Move")
  /\ Sample(scena_kols + 1, "move")
  /\ moving' = TRUE
  /\ cdut' = (cdut - 1) % 4
  /\ fuel' = IF cdut' = 0 THEN (fuel + 1) % FuelMod ELSE fuel
  /\ stop_flag' = (stop_flag \/ (cdut' = 0 /\ fuel' >= Low))
  /\ UNCHANGED <<list, dout1, ignition, byCommand, open, skp>>

\* The first sample opens the doors, the later ones close them; the third
\* counts as a second one, so that only a locked pump ends a longer Stop.
Stop ==
  LET n == scena_kols + 1 IN
  /\ At("Stop")
  /\ Sample(IF ~dout1 THEN Leave ELSE IF n = 3 THEN 2 ELSE n, "park")
  /\ ignition' = (ignition /\ n # 1) /\ byCommand' = (byCommand /\ n # 1)
  /\ open' = (n = 1) /\ skp' = (n # 1)
  /\ moving' = FALSE
  /\ UNCHANGED <<list, cdut, fuel, dout1, stop_flag>>

MakeRecord == Park \/ Move \/ Stop

\* A setdigout command or the pin's timer.
Pump ==
  /\ dout1' = ~dout1
  /\ UNCHANGED <<list, scena_index, scena_kols, cdut, fuel, ignition, byCommand, open, skp,
                 moving, send_period, stop_flag, stay>>

\* A command for relays 7 and 8 (SET_ALL, SET_ON, SET_OFF), in any work mode.
IgnitionCommand ==
  /\ ignition' \in BOOLEAN /\ byCommand' = TRUE
  /\ UNCHANGED <<list, scena_index, scena_kols, cdut, fuel, dout1, open, skp, moving,
                 send_period, stop_flag, stay>>

\* A new session clears stop_flag and nothing else.
NewSession ==
  /\ stop_flag /\ stop_flag' = FALSE
  /\ UNCHANGED <<list, scena_index, scena_kols, cdut, fuel, dout1, ignition, byCommand,
                 open, skp, moving, send_period, stay>>

Next == MakeRecord \/ Pump \/ IgnitionCommand \/ NewSession

Spec == Init /\ [][Next]_vars

\* Fairness: sessions are opened over and over and tmr_send expires in them, so
\* records go on being made.
FairSpec == Spec /\ WF_vars(MakeRecord)

(***************************************************************************)
(* Properties.                                                             *)
(***************************************************************************)
\* The type invariant.
TypeOK ==
  /\ list \in Scenarios
  /\ scena_index \in 1..Len(list) \cup {1} /\ scena_kols \in Nat /\ stay \in 0..MaxStay
  /\ cdut \in 0..3 /\ fuel \in 0..FuelMod - 1
  /\ dout1 \in BOOLEAN /\ ignition \in BOOLEAN /\ byCommand \in BOOLEAN
  /\ open \in BOOLEAN /\ skp \in BOOLEAN /\ moving \in BOOLEAN /\ stop_flag \in BOOLEAN
  /\ send_period \in {"park", "move", "short"}

\* Lists like the one of conf.txt: they begin with a Park, what follows a Stop
\* is a Park, and a Park waits (Park:1 is over after one sample).
WellFormed(l) ==
  /\ Len(l) > 0 /\ l[1].dir = "Park"
  /\ \A i \in DOMAIN l :
       /\ l[i].dir = "Park" => l[i].kols \in 2..Leave
       /\ l[i].dir = "Stop" /\ i < Len(l) => l[i + 1].dir = "Park"

\* The vehicle moves only with doors and trunk closed and not parked, whatever
\* happens to the pump and the relays on the way, and with the ignition on
\* unless a relay command was the last to set it.  An ill-formed list breaks
\* this: a Stop that a locked pump ends at once leaves the doors open.
MovesReady == WellFormed(list) => (moving => (ignition \/ byCommand) /\ ~open /\ ~skp)

\* A Park of two samples or more is left only with the pump released and half
\* of the tank filled (fmb630.c:613-627, 754).
LeavesParkReady ==
  [][At("Park") /\ Here.kols >= 2 /\ scena_index' # scena_index => dout1 /\ fuel <= Half]_vars

\* Samples of movement in the first n entries of a list, and in one round of it;
\* an entry of no samples makes one all the same.
MovesOf(e) == IF e.dir # "Move" THEN 0 ELSE IF e.kols = 0 THEN 1 ELSE e.kols
MovesUpTo(l) ==
  LET sum[n \in 0..Len(l)] == IF n = 0 THEN 0 ELSE sum[n - 1] + MovesOf(l[n])
  IN  sum
MovesPerLap(l) == MovesUpTo(l)[Len(l)]

\* If a round of the list is short enough for the part of the tank that a Park
\* guarantees, the tank never gets nearly empty, and the reading stays in range
\* (fmb630.c:615-618, 653-657).
TankHolds ==
  WellFormed(list) /\ MovesPerLap(list) <= 4 * (Low - Half - 1) =>
    ~stop_flag /\ FullTank <= fuel /\ fuel < Low

\* A Park ends when the pump is released for good, and a Stop when it is locked
\* for good.
WaitsEnd ==
  /\ (At("Park") /\ Here.kols <= Leave /\ []dout1) ~> ~At("Park")
  /\ (At("Stop") /\ Here.kols <= Leave /\ []~dout1) ~> ~At("Stop")

\* A Stop lasts as many samples as the list says (conf.txt:11).
StopLasts == At("Stop") => stay < Here.kols
=============================================================================

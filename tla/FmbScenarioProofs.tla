-------------------------- MODULE FmbScenarioProofs --------------------------
(***************************************************************************)
(* Proofs about FmbScenario, for any scenario list, any size of the tank   *)
(* and any range of its sensor.                                            *)
(***************************************************************************)
EXTENDS FmbScenario, WellFoundedInduction, TLAPS

-----------------------------------------------------------------------------
\* Induction over numbers, as the existence of a smallest one.
LEMMA Smallest ==
  ASSUME NEW S \in SUBSET Nat, S # {}
  PROVE  \E n \in S : \A m \in S : n <= m
<1> DEFINE less == {p \in Nat \X Nat : p[1] < p[2]}
<1>1. less = OpToRel(<, Nat)
  BY Zenon DEF OpToRel
<1>2. IsWellFoundedOn(less, Nat)
  BY <1>1, NatLessThanWellFounded, Zenon
<1>3. \A m, n \in Nat : <<m, n>> \in less <=> m < n
  OBVIOUS
<1> HIDE DEF less
<1>4. PICK n \in S : \A m \in S : <<m, n>> \notin less
  BY <1>2, WFMin, Zenon
<1>5. \A m \in S : ~(m < n)
  BY <1>3, <1>4
<1> QED
  BY <1>5

LEMMA Induction ==
  ASSUME NEW S \in SUBSET Nat, 0 \in S, \A n \in S : n + 1 \in S
  PROVE  S = Nat
<1> SUFFICES ASSUME S # Nat PROVE FALSE
  OBVIOUS
<1>1. PICK n \in Nat \ S : \A m \in Nat \ S : n <= m
  BY Smallest
<1>2. n # 0 /\ n - 1 \in Nat /\ ~(n <= n - 1) /\ (n - 1) + 1 = n
  BY <1>1
<1>3. n - 1 \in S
  BY <1>1, <1>2
<1> QED
  BY <1>1, <1>2, <1>3

-----------------------------------------------------------------------------
\* The samples of movement up to an entry of a list.
LEMMA MovesOfNat == \A e \in Entry : MovesOf(e) \in Nat
  BY DEF Entry, MovesOf

\* The recursion has a solution, built up entry by entry.
LEMMA MovesUpToDef ==
  ASSUME NEW l \in Seq(Entry)
  PROVE  MovesUpTo(l) =
           [n \in 0..Len(l) |-> IF n = 0 THEN 0 ELSE MovesUpTo(l)[n - 1] + MovesOf(l[n])]
<1> DEFINE Sums(f, k) == f = [n \in 0..k |-> IF n = 0 THEN 0 ELSE f[n - 1] + MovesOf(l[n])]
           S == {k \in Nat : \E f : Sums(f, k)}
<1>1. 0 \in S
  <2> DEFINE f == [n \in 0..0 |-> 0]
  <2>1. Sums(f, 0)
    OBVIOUS
  <2> QED
    BY <2>1
<1>2. ASSUME NEW k \in S PROVE k + 1 \in S
  <2>1. PICK f : Sums(f, k)
    OBVIOUS
  <2> DEFINE g == [n \in 0..k + 1 |-> IF n = k + 1 THEN f[k] + MovesOf(l[k + 1]) ELSE f[n]]
  <2>2. ASSUME NEW n \in 0..k + 1
        PROVE  g[n] = IF n = 0 THEN 0 ELSE g[n - 1] + MovesOf(l[n])
    <3>1. CASE n = k + 1
      <4>1. n # 0 /\ n - 1 = k /\ k \in 0..k + 1 /\ k # k + 1
        BY <3>1
      <4> QED
        BY <3>1, <4>1
    <3>2. CASE n # k + 1
      <4>1. n \in 0..k /\ (n # 0 => n - 1 \in 0..k + 1 /\ n - 1 # k + 1)
        BY <3>2
      <4>2. f[n] = IF n = 0 THEN 0 ELSE f[n - 1] + MovesOf(l[n])
        BY <2>1, <4>1
      <4> QED
        BY <3>2, <4>1, <4>2
    <3> QED
      BY <3>1, <3>2
  <2>3. Sums(g, k + 1)
    BY <2>2
  <2>4. k + 1 \in Nat
    OBVIOUS
  <2>5. \E h : Sums(h, k + 1)
    BY <2>3
  <2> HIDE DEF Sums
  <2> QED
    BY <2>4, <2>5
<1> HIDE DEF S
<1>3. S = Nat
  <2>1. S \in SUBSET Nat
    BY DEF S
  <2> QED
    BY <1>1, <1>2, <2>1, Induction
<1>4. PICK f : Sums(f, Len(l))
  <2>1. Len(l) \in Nat
    OBVIOUS
  <2> QED
    BY <1>3, <2>1 DEF S
<1>5. MovesUpTo(l) = CHOOSE s : s = [n \in 0..Len(l) |-> IF n = 0 THEN 0 ELSE s[n - 1] + MovesOf(l[n])]
  BY DEF MovesUpTo
<1> QED
  BY <1>4, <1>5

LEMMA MovesUpToType ==
  ASSUME NEW l \in Seq(Entry)
  PROVE  /\ MovesUpTo(l)[0] = 0
         /\ \A n \in 1..Len(l) : MovesUpTo(l)[n] = MovesUpTo(l)[n - 1] + MovesOf(l[n])
         /\ \A n \in 0..Len(l) : MovesUpTo(l)[n] \in Nat
<1>1. /\ MovesUpTo(l)[0] = 0
      /\ \A n \in 1..Len(l) : MovesUpTo(l)[n] = MovesUpTo(l)[n - 1] + MovesOf(l[n])
  <2>1. Len(l) \in Nat
    OBVIOUS
  <2>2. \A n \in 0..Len(l) :
          MovesUpTo(l)[n] = IF n = 0 THEN 0 ELSE MovesUpTo(l)[n - 1] + MovesOf(l[n])
    BY MovesUpToDef
  <2> QED
    BY <2>1, <2>2
<1> DEFINE S == {n \in Nat : n <= Len(l) => MovesUpTo(l)[n] \in Nat}
<1>2. ASSUME NEW n \in S, n + 1 <= Len(l) PROVE MovesUpTo(l)[n + 1] \in Nat
  <2>1. n \in Nat /\ Len(l) \in Nat
    OBVIOUS
  <2>2. n <= Len(l) /\ n + 1 \in 1..Len(l) /\ (n + 1) - 1 = n
    BY <1>2, <2>1
  <2>3. MovesUpTo(l)[n] \in Nat /\ MovesOf(l[n + 1]) \in Nat
    BY <2>2, MovesOfNat
  <2>4. MovesUpTo(l)[n + 1] = MovesUpTo(l)[n] + MovesOf(l[n + 1])
    BY <1>1, <2>2
  <2> QED
    BY <2>3, <2>4
<1>3. S \in SUBSET Nat /\ 0 \in S /\ \A n \in S : n + 1 \in S
  BY <1>1, <1>2
<1> HIDE DEF S
<1>4. S = Nat
  BY <1>3, Induction
<1>5. \A n \in 0..Len(l) : n \in S /\ n <= Len(l)
  BY <1>4
<1> QED
  BY <1>1, <1>5 DEF S

\* Fewer entries have no more samples.
LEMMA MovesUpToGrows ==
  ASSUME NEW l \in Seq(Entry), NEW n \in 0..Len(l)
  PROVE  MovesUpTo(l)[n] <= MovesPerLap(l)
<1>0. Len(l) \in Nat /\ n \in Nat /\ \A m \in 0..Len(l) : MovesUpTo(l)[m] \in Nat
  BY MovesUpToType
<1> DEFINE S == {k \in Nat : n + k <= Len(l) => MovesUpTo(l)[n] <= MovesUpTo(l)[n + k]}
<1>1. 0 \in S
  BY <1>0
<1>2. ASSUME NEW k \in S, n + (k + 1) <= Len(l)
      PROVE  MovesUpTo(l)[n] <= MovesUpTo(l)[n + (k + 1)]
  <2>0. k \in Nat
    OBVIOUS
  <2>1. /\ n + k \in 0..Len(l) /\ n + (k + 1) \in 1..Len(l) /\ (n + (k + 1)) - 1 = n + k
    BY <1>0, <1>2, <2>0
  <2>2. MovesUpTo(l)[n + (k + 1)] = MovesUpTo(l)[n + k] + MovesOf(l[n + (k + 1)])
    BY <2>1, MovesUpToType
  <2>3. MovesOf(l[n + (k + 1)]) \in Nat
    BY <2>1, MovesOfNat
  <2>4. MovesUpTo(l)[n] <= MovesUpTo(l)[n + k]
    BY <2>0, <2>1
  <2> QED
    BY <1>0, <2>1, <2>2, <2>3, <2>4
<1>3. S \in SUBSET Nat /\ 0 \in S /\ \A k \in S : k + 1 \in S
  BY <1>1, <1>2
<1> HIDE DEF S
<1>4. S = Nat
  BY <1>3, Induction
<1>5. Len(l) - n \in S /\ n + (Len(l) - n) = Len(l)
  BY <1>0, <1>4
<1> QED
  BY <1>0, <1>5 DEF S, MovesPerLap

-----------------------------------------------------------------------------
\* The tank and the list.
LEMMA Tank ==
  /\ Half \in Nat /\ Low \in Nat /\ FuelMod \in Nat /\ FullTank \in Nat /\ MaxStay \in Nat
  /\ FullTank <= Half /\ Half < Low /\ Low < FuelMod
<1>1. /\ EmptyTank \in Nat /\ FullTank \in Nat /\ FullTank < EmptyTank
      /\ FuelMod \in Nat /\ EmptyTank < FuelMod /\ FullTank <= Half /\ MaxStay \in Nat
  BY FuelAssumption
<1>2. Half = (EmptyTank - FullTank) \div 2 /\ Low = EmptyTank - EmptyTank \div 10
  BY DEF Half, Low
<1>3. /\ Half \in Nat /\ Low \in Nat /\ Half < Low /\ Low <= EmptyTank
  BY <1>1, <1>2
<1> QED
  BY <1>1, <1>3

LEMMA Reading == \A x \in 0..FuelMod - 1 : x % FuelMod = x
  BY Tank

LEMMA ListType ==
  ASSUME TypeOK
  PROVE  /\ list \in Seq(Entry) /\ Len(list) \in Nat
         /\ scena_index \in Nat \ {0}
         /\ \A dir : At(dir) => scena_index \in 1..Len(list) /\ Here \in Entry /\ Here.dir = dir
<1>1. list \in Seq(Entry)
  BY ScenariosAssumption DEF TypeOK
<1> QED
  BY <1>1 DEF TypeOK, At, Here

\* After a sample the entry goes on, or the next one or the first is taken.
LEMMA Sampled ==
  ASSUME TypeOK, NEW dir, At(dir), NEW kols \in Nat, NEW period \in {"park", "move", "short"},
         Sample(kols, period), UNCHANGED list
  PROVE  /\ \/ /\ kols >= Here.kols /\ scena_kols' = 0
               /\ \/ scena_index' = scena_index + 1 /\ scena_index < Len(list)
                  \/ scena_index' = 1
            \/ /\ kols < Here.kols /\ scena_kols' = kols /\ scena_index' = scena_index
               /\ \A d : At(d)' => d = dir
         /\ scena_index' \in 1..Len(list) /\ scena_kols' \in Nat /\ stay' \in 0..MaxStay
         /\ send_period' \in {"park", "move", "short"}
<1>1. scena_index \in 1..Len(list) /\ Len(list) \in Nat /\ Here \in Entry /\ Here.dir = dir
  BY ListType
<1>2. Here.kols \in Nat /\ stay \in 0..MaxStay /\ MaxStay \in Nat
  BY <1>1, Tank DEF Entry, TypeOK
<1>3. CASE kols >= Here.kols
  <2>1. scena_kols' = 0 /\ scena_index' = NextIndex /\ send_period' = "move" /\ stay' = 0
    BY <1>3 DEF Sample
  <2>2. CASE scena_index + 1 > Len(list)
    <3>1. scena_index' = 1
      BY <2>1, <2>2 DEF NextIndex
    <3> QED
      BY <1>1, <1>2, <1>3, <2>1, <3>1
  <2>3. CASE ~(scena_index + 1 > Len(list))
    <3>1. scena_index' = scena_index + 1 /\ scena_index < Len(list)
      BY <1>1, <2>1, <2>3 DEF NextIndex
    <3> QED
      BY <1>1, <1>2, <1>3, <2>1, <3>1
  <2> QED
    BY <2>2, <2>3
<1>4. CASE ~(kols >= Here.kols)
  <2>1. /\ scena_kols' = kols /\ send_period' = period /\ scena_index' = scena_index
        /\ stay' = IF stay < MaxStay THEN stay + 1 ELSE stay
    BY <1>4 DEF Sample
  <2>2. stay' \in 0..MaxStay
    BY <1>2, <2>1
  <2>3. \A d : At(d)' => d = dir
    BY <1>1, <2>1 DEF At, Here
  <2> QED
    BY <1>1, <1>2, <1>4, <2>1, <2>2, <2>3
<1> QED
  BY <1>3, <1>4

LEMMA ParkSampled ==
  ASSUME TypeOK, Park
  PROVE  /\ scena_index' \in 1..Len(list) /\ scena_kols' \in Nat /\ stay' \in 0..MaxStay
         /\ send_period' \in {"park", "move", "short"}
         /\ Here.kols >= 2 =>
              \/ Ready /\ scena_kols' = 0 /\ (scena_index' \in {1, scena_index + 1})
              \/ scena_index' = scena_index /\ \A d : At(d)' => d = "Park"
<1> DEFINE kols == IF Ready THEN Leave ELSE 1
           period == IF Ready THEN "short" ELSE "park"
<1>1. At("Park") /\ Sample(kols, period) /\ UNCHANGED list
  BY DEF Park
<1>2. kols \in Nat /\ period \in {"park", "move", "short"} /\ (~Ready => kols = 1)
  BY DEF Leave
<1>3. Here.kols \in Nat
  BY <1>1, ListType DEF Entry
<1> HIDE DEF kols, period
<1>4. /\ \/ /\ kols >= Here.kols /\ scena_kols' = 0
            /\ scena_index' \in {1, scena_index + 1}
         \/ scena_index' = scena_index /\ \A d : At(d)' => d = "Park"
      /\ scena_index' \in 1..Len(list) /\ scena_kols' \in Nat /\ stay' \in 0..MaxStay
      /\ send_period' \in {"park", "move", "short"}
  BY <1>1, <1>2, Sampled
<1>5. Here.kols >= 2 /\ kols >= Here.kols => Ready
  BY <1>2, <1>3
<1> QED
  BY <1>4, <1>5

-----------------------------------------------------------------------------
LEMMA TypeStep ==
  ASSUME TypeOK, [Next]_vars
  PROVE  TypeOK'
<1>0. /\ fuel \in 0..FuelMod - 1 /\ Refuelled \in 0..FuelMod - 1
      /\ (fuel + 1) % FuelMod \in 0..FuelMod - 1
  <2>1. fuel \in 0..FuelMod - 1
    BY DEF TypeOK
  <2>2. Refuelled \in 0..FuelMod - 1
    BY <2>1, Tank DEF Refuelled
  <2>3. (fuel + 1) % FuelMod \in 0..FuelMod - 1
    BY <2>1, Tank
  <2> QED
    BY <2>1, <2>2, <2>3
<1>1. CASE Park
  <2>1. /\ scena_index' \in 1..Len(list) /\ scena_kols' \in Nat /\ stay' \in 0..MaxStay
        /\ send_period' \in {"park", "move", "short"}
    BY <1>1, ParkSampled
  <2>2. /\ ignition' = (ignition \/ dout1) /\ byCommand' = (byCommand /\ ~dout1) /\ skp' = ~Ready
        /\ fuel' \in {Refuelled, fuel} /\ moving' = FALSE /\ open' = FALSE
        /\ UNCHANGED <<list, cdut, dout1, stop_flag>>
    BY <1>1 DEF Park
  <2>3. ignition' \in BOOLEAN /\ byCommand' \in BOOLEAN /\ skp' \in BOOLEAN
    BY <2>2 DEF Ready
  <2> QED
    BY <1>0, <2>1, <2>2, <2>3 DEF TypeOK
<1>2. CASE Move
  <2>1. /\ At("Move") /\ Sample(scena_kols + 1, "move") /\ scena_kols + 1 \in Nat
        /\ UNCHANGED list
    BY <1>2 DEF Move, TypeOK
  <2>2. /\ scena_index' \in 1..Len(list) /\ scena_kols' \in Nat /\ stay' \in 0..MaxStay
        /\ send_period' \in {"park", "move", "short"}
    BY <2>1, Sampled
  <2>3. /\ moving' = TRUE /\ cdut' = (cdut - 1) % 4
        /\ fuel' \in {(fuel + 1) % FuelMod, fuel}
        /\ stop_flag' = (stop_flag \/ (cdut' = 0 /\ fuel' >= Low))
        /\ UNCHANGED <<list, dout1, ignition, byCommand, open, skp>>
    BY <1>2 DEF Move
  <2>4. cdut' \in 0..3
    BY <2>3 DEF TypeOK
  <2>5. stop_flag' \in BOOLEAN
    BY <2>3
  <2> QED
    BY <1>0, <2>2, <2>3, <2>4, <2>5 DEF TypeOK
<1>3. CASE Stop
  <2> DEFINE n == scena_kols + 1
             kols == IF ~dout1 THEN Leave ELSE IF n = 3 THEN 2 ELSE n
  <2>1. At("Stop") /\ Sample(kols, "park") /\ UNCHANGED list
    BY <1>3 DEF Stop
  <2>2. kols \in Nat
    BY DEF Leave, TypeOK
  <2>3. /\ ignition' = (ignition /\ n # 1) /\ byCommand' = (byCommand /\ n # 1) /\ open' = (n = 1) /\ skp' = (n # 1)
        /\ moving' = FALSE /\ UNCHANGED <<list, cdut, fuel, dout1, stop_flag>>
    BY <1>3 DEF Stop
  <2> HIDE DEF kols
  <2>4. /\ scena_index' \in 1..Len(list) /\ scena_kols' \in Nat /\ stay' \in 0..MaxStay
        /\ send_period' \in {"park", "move", "short"}
    BY <2>1, <2>2, Sampled
  <2> QED
    BY <2>3, <2>4 DEF TypeOK
<1>4. CASE Pump
  <2>1. dout1' \in BOOLEAN
    BY <1>4 DEF Pump
  <2> QED
    BY <1>4, <2>1 DEF Pump, TypeOK
<1>5. CASE IgnitionCommand
  <2>1. ignition' \in BOOLEAN /\ byCommand' \in BOOLEAN
    BY <1>5 DEF IgnitionCommand
  <2> QED
    BY <1>5, <2>1 DEF IgnitionCommand, TypeOK
<1>6. CASE NewSession \/ UNCHANGED vars
  BY <1>6 DEF NewSession, vars, TypeOK
<1> QED
  BY <1>1, <1>2, <1>3, <1>4, <1>5, <1>6 DEF Next, MakeRecord

\* Every variable stays in its type, whatever the list; in particular the index
\* never leaves the list (fmb630.c:754-759).
THEOREM SpecTypeOK == Spec => []TypeOK
<1>1. ASSUME Init PROVE TypeOK
  <2>1. FullTank \in 0..FuelMod - 1 /\ 0 \in 0..MaxStay
    BY Tank
  <2>2. /\ list \in Scenarios /\ scena_index = 1 /\ scena_kols = 0 /\ stay = 0
        /\ cdut = 3 /\ fuel = FullTank
    BY <1>1 DEF Init
  <2>3. /\ dout1 \in BOOLEAN /\ ignition \in BOOLEAN /\ byCommand \in BOOLEAN
        /\ open \in BOOLEAN /\ skp \in BOOLEAN
    BY <1>1 DEF Init
  <2>4. moving \in BOOLEAN /\ stop_flag \in BOOLEAN /\ send_period \in {"park", "move", "short"}
    BY <1>1 DEF Init
  <2> QED
    BY <2>1, <2>2, <2>3, <2>4 DEF TypeOK
<1> QED
  BY <1>1, TypeStep, PTL DEF Spec

\* A Park of two samples or more is left only with the pump released and half of
\* the tank filled (fmb630.c:613-627, 754).
THEOREM SpecLeavesParkReady == Spec => LeavesParkReady
<1>1. ASSUME TypeOK, [Next]_vars, At("Park"), Here.kols >= 2, scena_index' # scena_index
      PROVE  dout1 /\ fuel <= Half
  <2>1. \A dir : At(dir) => dir = "Park"
    BY <1>1 DEF At
  <2>2. Park
    BY <1>1, <2>1 DEF Next, MakeRecord, Move, Stop, Pump, IgnitionCommand, NewSession, vars
  <2>3. Ready
    BY <1>1, <2>2, ParkSampled
  <2> QED
    BY <2>3 DEF Ready
<1> QED
  BY <1>1, SpecTypeOK, PTL DEF Spec, LeavesParkReady

-----------------------------------------------------------------------------
\* What well-formed lists are for: between a Stop and the next move there is a Park.
LEMMA Formed ==
  ASSUME TypeOK, WellFormed(list), UNCHANGED list
  PROVE  /\ scena_index' = 1 => \A d : At(d)' => d = "Park"
         /\ At("Stop") /\ scena_index' = scena_index + 1 => \A d : At(d)' => d = "Park"
         /\ At("Park") => Here.kols >= 2
<1>1. scena_index' = 1 => \A d : At(d)' => d = "Park"
  BY DEF WellFormed, At
<1>2. ASSUME At("Stop"), scena_index' = scena_index + 1, NEW d, At(d)' PROVE d = "Park"
  <2>1. scena_index \in 1..Len(list) /\ scena_index + 1 \in 1..Len(list) /\ Len(list) \in Nat
    BY <1>2, ListType DEF At
  <2>2. scena_index < Len(list)
    BY <2>1
  <2>3. list[scena_index + 1].dir = "Park"
    BY <1>2, <2>1, <2>2, ListType DEF WellFormed, At
  <2> QED
    BY <1>2, <2>3 DEF At
<1>3. ASSUME At("Park") PROVE Here.kols >= 2
  <2>1. Here.kols \in 2..Leave
    BY <1>3, ListType DEF WellFormed, Here, At
  <2> QED
    BY <2>1 DEF Leave
<1> QED
  BY <1>1, <1>2, <1>3

\* Not only the vehicle that moves is ready, but every one that is about to.
ReadyInv == WellFormed(list) => (At("Move") \/ moving => (ignition \/ byCommand) /\ ~open /\ ~skp)

LEMMA ReadyStep ==
  ASSUME TypeOK, ReadyInv, [Next]_vars
  PROVE  ReadyInv'
<1> SUFFICES ASSUME WellFormed(list)', At("Move")' \/ moving'
             PROVE  (ignition' \/ byCommand') /\ ~open' /\ ~skp'
  BY DEF ReadyInv
<1>0. UNCHANGED list /\ WellFormed(list)
  BY DEF Next, MakeRecord, Park, Move, Stop, Pump, IgnitionCommand, NewSession, vars
<1>1. CASE Park
  <2>1. /\ At("Park") /\ moving' = FALSE /\ open' = FALSE /\ skp' = ~Ready
        /\ ignition' = (ignition \/ dout1)
    BY <1>1 DEF Park
  <2>2. Ready
    BY <1>0, <1>1, <2>1, Formed, ParkSampled
  <2> QED
    BY <2>1, <2>2 DEF Ready
<1>2. CASE Move
  BY <1>0, <1>2 DEF Move, ReadyInv
<1>3. CASE Stop
  <2> DEFINE n == scena_kols + 1
             kols == IF ~dout1 THEN Leave ELSE IF n = 3 THEN 2 ELSE n
  <2>1. At("Stop") /\ Sample(kols, "park") /\ moving' = FALSE
    BY <1>3 DEF Stop
  <2>2. kols \in Nat
    BY DEF Leave, TypeOK
  <2> HIDE DEF kols
  <2>3. \/ scena_index' = 1 \/ scena_index' = scena_index + 1
        \/ \A d : At(d)' => d = "Stop"
    BY <1>0, <2>1, <2>2, Sampled
  <2>4. ~At("Move")'
    BY <1>0, <2>1, <2>3, Formed
  <2> QED
    BY <2>1, <2>4
<1>4. CASE Pump \/ IgnitionCommand \/ NewSession \/ UNCHANGED vars
  BY <1>0, <1>4 DEF Pump, IgnitionCommand, NewSession, vars, ReadyInv, At
<1> QED
  BY <1>1, <1>2, <1>3, <1>4 DEF Next, MakeRecord

\* With a well-formed list the vehicle moves only with doors and trunk closed and
\* not parked, and with the ignition on unless a relay command was the last to set
\* it (fmb630.c:613-640, 733-752, 959-963, 1084-1089).
THEOREM SpecMovesReady == Spec => []MovesReady
<1>1. Init => ReadyInv
  BY DEF Init, ReadyInv, WellFormed, At
<1>2. ReadyInv => MovesReady
  BY DEF ReadyInv, MovesReady
<1> QED
  BY <1>1, <1>2, ReadyStep, SpecTypeOK, PTL DEF Spec

-----------------------------------------------------------------------------
\* The fuel used, in samples of movement; what was driven in this round.  A Park
\* starts a round with half of the tank, and with the samples that cdut counts.
Enough == WellFormed(list) /\ MovesPerLap(list) <= 4 * (Low - Half - 1)
Used   == 4 * fuel + (IF cdut = 0 THEN 0 ELSE 4 - cdut)
Driven == MovesUpTo(list)[scena_index - 1] + (IF At("Move") THEN scena_kols ELSE 0)

FuelInv ==
  Enough =>
    /\ ~stop_flag /\ FullTank <= fuel /\ fuel < Low
    /\ At("Move") => scena_kols = 0 \/ scena_kols < Here.kols
    /\ scena_index # 1 => Used <= 4 * Half + 3 + Driven

\* What the sums say about the current entry.
LEMMA Driving ==
  ASSUME TypeOK, Enough, NEW dir, At(dir)
  PROVE  /\ MovesUpTo(list)[scena_index - 1] \in Nat /\ MovesUpTo(list)[scena_index] \in Nat
         /\ MovesUpTo(list)[scena_index] = MovesUpTo(list)[scena_index - 1] + MovesOf(Here)
         /\ MovesUpTo(list)[scena_index] <= 4 * (Low - Half - 1)
         /\ MovesOf(Here) \in Nat
<1>1. /\ list \in Seq(Entry) /\ scena_index \in 1..Len(list) /\ Len(list) \in Nat /\ Here \in Entry
  BY ListType
<1>2. scena_index - 1 \in 0..Len(list) /\ scena_index \in 0..Len(list)
  BY <1>1
<1>3. MovesUpTo(list)[scena_index] <= MovesPerLap(list)
  BY <1>1, <1>2, MovesUpToGrows
<1>4. MovesPerLap(list) \in Nat
  <2>1. Len(list) \in 0..Len(list)
    BY <1>1
  <2> QED
    BY <1>1, <2>1, MovesUpToType DEF MovesPerLap
<1>5. /\ MovesUpTo(list)[scena_index - 1] \in Nat /\ MovesUpTo(list)[scena_index] \in Nat
      /\ MovesUpTo(list)[scena_index] = MovesUpTo(list)[scena_index - 1] + MovesOf(Here)
  BY <1>1, <1>2, MovesUpToType DEF Here
<1> QED
  BY <1>1, <1>3, <1>4, <1>5, MovesOfNat, Tank DEF Enough

LEMMA FuelPark ==
  ASSUME TypeOK, FuelInv, Park, Enough, UNCHANGED list
  PROVE  FuelInv'
<1>1. /\ ~stop_flag /\ FullTank <= fuel /\ fuel < Low
      /\ scena_index # 1 => Used <= 4 * Half + 3 + Driven
  BY DEF FuelInv
<1>2. /\ At("Park") /\ stop_flag' = stop_flag /\ cdut' = cdut
      /\ fuel' = IF dout1 /\ ~Ready THEN Refuelled ELSE fuel
  BY DEF Park
<1>3. fuel \in Nat /\ cdut \in 0..3 /\ Here.kols >= 2 /\ Used \in Nat
  BY <1>2, Formed, Tank DEF TypeOK, Enough, Used
<1>4. fuel' \in Nat /\ FullTank <= fuel' /\ fuel' <= fuel
  <2>1. Refuelled \in Nat /\ FullTank <= Refuelled /\ Refuelled <= fuel
    BY <1>1, <1>3, Tank DEF Refuelled
  <2> QED
    BY <1>1, <1>2, <1>3, <2>1
<1>5. ~stop_flag' /\ FullTank <= fuel' /\ fuel' < Low
  BY <1>1, <1>2, <1>3, <1>4, Tank
<1>6. CASE scena_index' = scena_index /\ \A d : At(d)' => d = "Park"
  <2>1. ~At("Move")' /\ ~At("Move")
    BY <1>2, <1>6 DEF At
  <2>2. Driven' = Driven
    BY <1>6, <2>1 DEF Driven
  <2>3. Used' \in Nat /\ Used' <= Used
    BY <1>2, <1>3, <1>4 DEF Used
  <2>4. MovesUpTo(list)[scena_index - 1] \in Nat
    BY <1>2, Driving
  <2>5. Driven \in Nat
    BY <2>1, <2>4 DEF Driven
  <2>6. scena_index' # 1 => Used' <= 4 * Half + 3 + Driven'
    BY <1>1, <1>3, <1>6, <2>2, <2>3, <2>5, Tank
  <2> QED
    BY <1>5, <2>1, <2>6 DEF FuelInv
<1>7. CASE Ready /\ scena_kols' = 0 /\ scena_index' \in {1, scena_index + 1}
  <2>1. fuel' = fuel /\ fuel <= Half
    BY <1>2, <1>7 DEF Ready
  <2>2. Used' <= 4 * Half + 3
    BY <1>2, <1>3, <2>1, Tank DEF Used
  <2>3. scena_index' # 1 => Driven' \in Nat
    <3>1. scena_index \in Nat /\ (scena_index + 1) - 1 = scena_index
      BY ListType
    <3>2. MovesUpTo(list)[scena_index] \in Nat
      BY <1>2, Driving
    <3> QED
      BY <1>7, <3>1, <3>2 DEF Driven
  <2>4. Used' \in Nat
    BY <1>2, <1>3, <2>1 DEF Used
  <2>5. scena_index' # 1 => Used' <= 4 * Half + 3 + Driven'
    BY <2>2, <2>3, <2>4, Tank
  <2> QED
    BY <1>5, <1>7, <2>5 DEF FuelInv
<1> QED
  BY <1>3, <1>6, <1>7, ParkSampled

LEMMA FuelMove ==
  ASSUME TypeOK, FuelInv, Move, Enough, UNCHANGED list
  PROVE  FuelInv'
<1>1. /\ At("Move") /\ Sample(scena_kols + 1, "move")
      /\ cdut' = (cdut - 1) % 4
      /\ fuel' = IF cdut' = 0 THEN (fuel + 1) % FuelMod ELSE fuel
      /\ stop_flag' = (stop_flag \/ (cdut' = 0 /\ fuel' >= Low))
  BY DEF Move
<1>2. /\ ~stop_flag /\ FullTank <= fuel /\ fuel < Low
      /\ scena_kols = 0 \/ scena_kols < Here.kols
      /\ scena_index # 1 => Used <= 4 * Half + 3 + Driven
  BY <1>1 DEF FuelInv
<1>3. /\ fuel \in Nat /\ cdut \in 0..3 /\ scena_kols \in Nat /\ Here.kols \in Nat
      /\ Here.dir = "Move"
  BY <1>1, ListType, Tank DEF TypeOK, Entry
<1>4. scena_index # 1
  BY <1>1 DEF Enough, WellFormed, At
<1>5. (fuel + 1) % FuelMod = fuel + 1
  <2>1. fuel + 1 \in 0..FuelMod - 1
    BY <1>2, <1>3, Tank
  <2> QED
    BY <2>1, Reading
<1> DEFINE before == MovesUpTo(list)[scena_index - 1]
           after  == MovesUpTo(list)[scena_index]
<1>6. /\ before \in Nat /\ after \in Nat /\ after = before + MovesOf(Here)
      /\ after <= 4 * (Low - Half - 1)
  BY <1>1, Driving
<1>7. scena_kols + 1 <= MovesOf(Here) /\ MovesOf(Here) \in Nat
  BY <1>2, <1>3 DEF MovesOf
<1>8. Driven = before + scena_kols
  BY <1>1 DEF Driven
<1> HIDE DEF before, after
<1>9. Used' = Used + 1 /\ Used \in Nat
  <2>1. cdut' = IF cdut = 0 THEN 3 ELSE cdut - 1
    <3>1. \A c \in 0..3 : (c - 1) % 4 = IF c = 0 THEN 3 ELSE c - 1
      OBVIOUS
    <3> QED
      BY <1>1, <1>3, <3>1
  <2>2. CASE cdut = 0
    <3>1. cdut' = 3 /\ fuel' = fuel
      BY <1>1, <2>1, <2>2
    <3> QED
      BY <1>3, <2>2, <3>1 DEF Used
  <2>3. CASE cdut = 1
    <3>1. cdut' = 0 /\ fuel' = fuel + 1
      BY <1>1, <1>5, <2>1, <2>3
    <3> QED
      BY <1>3, <2>3, <3>1 DEF Used
  <2>4. CASE cdut \in {2, 3}
    <3>1. cdut' = cdut - 1 /\ cdut' # 0 /\ fuel' = fuel
      BY <1>1, <2>1, <2>4
    <3> QED
      BY <1>3, <2>4, <3>1 DEF Used
  <2> QED
    BY <1>3, <2>2, <2>3, <2>4
<1>10. Used' <= 4 * Half + 3 + (before + scena_kols + 1)
  BY <1>2, <1>3, <1>4, <1>6, <1>8, <1>9, Tank
<1>11. ~stop_flag' /\ FullTank <= fuel' /\ fuel' < Low
  <2>1. Used' <= 4 * Low - 1
    BY <1>3, <1>6, <1>7, <1>9, <1>10, Tank
  <2>2. fuel' \in {fuel, fuel + 1} /\ fuel' \in Nat /\ FullTank <= fuel'
    BY <1>1, <1>2, <1>3, <1>5, Tank
  <2>3. 4 * fuel' <= Used'
    <3>1. cdut' \in 0..3
      BY <1>1, <1>3
    <3>2. \A x \in Nat, c \in 0..3 : 4 * x <= 4 * x + (IF c = 0 THEN 0 ELSE 4 - c)
      OBVIOUS
    <3> QED
      BY <2>2, <3>1, <3>2 DEF Used
  <2>4. fuel' < Low
    <3>1. \A x, y, u \in Nat : 4 * x <= u /\ u <= 4 * y - 1 => x < y
      OBVIOUS
    <3>2. Used' \in Nat
      BY <1>9
    <3> QED
      BY <2>1, <2>2, <2>3, <3>1, <3>2, Tank
  <2>5. ~(fuel' >= Low)
    BY <2>2, <2>4, Tank
  <2> QED
    BY <1>1, <1>2, <2>2, <2>4, <2>5
<1>12. \/ scena_kols' = 0 /\ scena_index' \in {1, scena_index + 1}
       \/ /\ scena_kols + 1 < Here.kols /\ scena_kols' = scena_kols + 1
          /\ scena_index' = scena_index
  <2>1. scena_kols + 1 \in Nat
    BY <1>3
  <2> QED
    BY <1>1, <2>1, Sampled
<1>13. CASE scena_kols' = 0 /\ scena_index' \in {1, scena_index + 1}
  <2>1. scena_index' # 1 => Driven' = after
    <3>1. scena_index \in Nat /\ (scena_index + 1) - 1 = scena_index
      BY ListType
    <3>2. after + 0 = after
      BY <1>6
    <3> QED
      BY <1>13, <3>1, <3>2 DEF Driven, after
  <2>2. scena_index' # 1 => Used' <= 4 * Half + 3 + Driven'
    BY <1>3, <1>6, <1>7, <1>9, <1>10, <2>1, Tank
  <2> QED
    BY <1>11, <1>13, <2>2 DEF FuelInv
<1>14. CASE /\ scena_kols + 1 < Here.kols /\ scena_kols' = scena_kols + 1
            /\ scena_index' = scena_index
  <2>1. At("Move")' /\ Here' = Here
    BY <1>1, <1>14 DEF At, Here
  <2>2. Driven' = before + (scena_kols + 1)
    BY <1>14, <2>1 DEF Driven, before
  <2>3. Used' <= 4 * Half + 3 + Driven'
    BY <1>3, <1>6, <1>10, <2>2, Tank
  <2> QED
    BY <1>11, <1>14, <2>1, <2>3 DEF FuelInv
<1> QED
  BY <1>12, <1>13, <1>14

LEMMA FuelStop ==
  ASSUME TypeOK, FuelInv, Stop, Enough, UNCHANGED list
  PROVE  FuelInv'
<1> DEFINE n == scena_kols + 1
           kols == IF ~dout1 THEN Leave ELSE IF n = 3 THEN 2 ELSE n
<1>1. At("Stop") /\ Sample(kols, "park") /\ UNCHANGED <<fuel, cdut, stop_flag>>
  BY DEF Stop
<1>2. kols \in Nat
  BY DEF Leave, TypeOK
<1> HIDE DEF kols
<1>3. \/ scena_index' = 1 \/ scena_index' = scena_index + 1
      \/ scena_index' = scena_index /\ \A d : At(d)' => d = "Stop"
  BY <1>1, <1>2, Sampled
<1>4. ~At("Move") /\ ~At("Move")'
  <2>1. ~At("Move")
    BY <1>1 DEF At
  <2> QED
    BY <1>1, <1>3, <2>1, Formed DEF Enough
<1>5. scena_index' # 1 => Driven' = Driven
  <2>1. scena_index \in Nat /\ (scena_index + 1) - 1 = scena_index
    BY ListType
  <2>2. /\ MovesUpTo(list)[scena_index - 1] \in Nat
        /\ MovesUpTo(list)[scena_index] = MovesUpTo(list)[scena_index - 1] + MovesOf(Here)
    BY <1>1, Driving
  <2>3. MovesOf(Here) = 0
    BY <1>1, ListType DEF MovesOf
  <2>4. MovesUpTo(list)[scena_index] = MovesUpTo(list)[scena_index - 1]
    BY <2>2, <2>3
  <2> QED
    BY <1>3, <1>4, <2>1, <2>4 DEF Driven
<1>6. Used' = Used
  BY <1>1 DEF Used
<1>7. /\ ~stop_flag /\ FullTank <= fuel /\ fuel < Low
      /\ scena_index # 1 => Used <= 4 * Half + 3 + Driven
  BY DEF FuelInv
<1>8. scena_index' # 1 => scena_index # 1 \/ scena_index' = scena_index + 1
  BY <1>3
<1>9. scena_index # 1
  BY <1>1 DEF Enough, WellFormed, At
<1> QED
  BY <1>1, <1>4, <1>5, <1>6, <1>7, <1>9 DEF FuelInv

LEMMA FuelStep ==
  ASSUME TypeOK, FuelInv, [Next]_vars
  PROVE  FuelInv'
<1>0. UNCHANGED list
  BY DEF Next, MakeRecord, Park, Move, Stop, Pump, IgnitionCommand, NewSession, vars
<1>1. CASE ~Enough
  BY <1>0, <1>1 DEF Enough, FuelInv
<1>2. CASE Enough /\ MakeRecord
  BY <1>0, <1>2, FuelPark, FuelMove, FuelStop DEF MakeRecord
<1>3. CASE Enough /\ (Pump \/ IgnitionCommand \/ NewSession \/ UNCHANGED vars)
  <2>1. /\ UNCHANGED <<list, scena_index, scena_kols, cdut, fuel>>
        /\ stop_flag' \in {stop_flag, FALSE}
    BY <1>3 DEF Pump, IgnitionCommand, NewSession, vars
  <2>2. (At("Move")' <=> At("Move")) /\ Here' = Here /\ Used' = Used /\ Driven' = Driven
    BY <2>1 DEF At, Here, Used, Driven
  <2>3. ~stop_flag'
    BY <1>3, <2>1 DEF FuelInv
  <2> QED
    BY <1>3, <2>1, <2>2, <2>3 DEF FuelInv
<1> QED
  BY <1>1, <1>2, <1>3 DEF Next

\* If a round of the list is short enough for half of the tank less the reserve,
\* the tank never gets nearly empty, however the pump is switched, and the reading
\* never wraps around (fmb630.c:615-618, 653-657).
THEOREM SpecTankHolds == Spec => []TankHolds
<1>1. ASSUME Init PROVE FuelInv
  <2>1. /\ ~stop_flag /\ fuel = FullTank /\ scena_index = 1 /\ scena_kols = 0
    BY <1>1 DEF Init
  <2>2. FullTank <= fuel /\ fuel < Low
    BY <2>1, Tank
  <2> QED
    BY <2>1, <2>2 DEF FuelInv
<1>2. FuelInv => TankHolds
  BY DEF FuelInv, Enough, TankHolds
<1> QED
  BY <1>1, <1>2, FuelStep, SpecTypeOK, PTL DEF Spec
=============================================================================

--------------------------- MODULE VehicleProofs ---------------------------
(***************************************************************************)
(* Theorems of the vehicle, for every value of its constants.              *)
(***************************************************************************)
EXTENDS Vehicle, TLAPS

(* The drain of an interval is a natural number of percents, and costs at   *)
(* most what a greater speed costs over that interval.                      *)
LEMMA DrainOfInterval ==
  ASSUME NEW dt \in Nat, NEW v \in Nat, NEW top \in Nat, v <= top
  PROVE  /\ BatteryDrain(dt, v) \in Nat
         /\ 600 * BatteryDrain(dt, v) <= (10 + top) * dt
<1> DEFINE cost == dt * (10 + v)
<1>1. /\ (10 + top) * dt = dt * (10 + v) + dt * (top - v)
      /\ dt * (top - v) \in Nat /\ dt * (10 + v) \in Nat
  OBVIOUS
<1>2. cost \in Nat /\ cost <= (10 + top) * dt
  BY <1>1
<1>3. cost \div 600 \in Nat /\ 600 * (cost \div 600) <= cost
  BY <1>2
<1>4. (10 + top) * dt \in Nat
  BY <1>1
<1> HIDE DEF cost
<1>5. /\ cost \div 600 \in Nat
      /\ 600 * (cost \div 600) <= (10 + top) * dt
  BY <1>2, <1>3, <1>4
<1> QED
  BY <1>5 DEF BatteryDrain, cost

(* One update keeps the battery in its range and takes off no more than the *)
(* drain of the interval (line 111 clamps at 0).                            *)
LEMMA BatteryAfterUpdate ==
  ASSUME NEW b \in 0 .. MaxBattery, NEW dt \in Nat, NEW v \in 0 .. MaxSpeed
  PROVE  /\ NextBattery(b, dt, v) \in 0 .. b
         /\ b - BatteryDrain(dt, v) <= NextBattery(b, dt, v)
<1>1. BatteryDrain(dt, v) \in Nat /\ b \in Nat
  <2>1. v \in Nat /\ v <= v /\ b \in Nat
    BY VehicleAssumption
  <2> QED
    BY <2>1, DrainOfInterval
<1> QED
  BY <1>1 DEF NextBattery, Greatest

(* A step of the vehicle, or an update with whatever the clock read.        *)
Moves == Next \/ \E time \in Int : Update(time)

(* One update keeps the temperature in its range (lines 118 and 124).       *)
LEMMA TemperatureAfterUpdate ==
  ASSUME NEW c \in MinTemp .. MaxTemp, NEW dt \in Nat, NEW v \in 0 .. MaxSpeed
  PROVE  NextTemperature(c, dt, v) \in MinTemp .. MaxTemp
<1>1. MinTemp \in Int /\ MaxTemp \in Int /\ MinTemp <= MaxTemp /\ MaxSpeed \in Nat
  BY VehicleAssumption
<1>2. dt * v \in Nat
  BY <1>1
<1>3. (dt * v) \div 1000 \in Nat
  BY <1>2
<1>4. dt \div 10 \in Nat
  OBVIOUS
<1> QED
  BY <1>1, <1>3, <1>4 DEF NextTemperature, Least, Greatest

-----------------------------------------------------------------------------
LEMMA TypeOKInit == Init => TypeOK
  BY VehicleAssumption DEF Init, TypeOK, Directions

LEMMA TypeOKStep == TypeOK /\ [Moves]_vars => TypeOK'
<1> SUFFICES ASSUME TypeOK, [Moves]_vars PROVE TypeOK'
  OBVIOUS
<1> USE VehicleAssumption
<1>1. CASE SpeedUp
  <2>1. /\ speed' \in 0 .. MaxSpeed
        /\ topSpeed' \in 0 .. MaxSpeed
    BY <1>1 DEF SpeedUp, TypeOK, Least, Greatest
  <2> QED
    BY <1>1, <2>1 DEF SpeedUp, TypeOK
<1>2. CASE SlowDown
  BY <1>2 DEF SlowDown, TypeOK, Greatest, history
<1>3. ASSUME NEW d \in {"LEFT", "RIGHT"}, SetDirection(d) PROVE TypeOK'
  BY <1>3 DEF SetDirection, TypeOK, Directions, history
<1>4. ASSUME NEW time \in Int, Update(time) PROVE TypeOK'
  <2>1. time - lastUpdate \in Nat
    BY <1>4 DEF Update, TypeOK
  <2>2. battery' \in 0 .. battery
    BY <1>4, <2>1, BatteryAfterUpdate DEF Update, TypeOK
  <2>3. temperature' \in MinTemp .. MaxTemp
    BY <1>4, <2>1, TemperatureAfterUpdate DEF Update, TypeOK
  <2> QED
    BY <1>4, <2>2, <2>3 DEF Update, TypeOK, history
<1>5. CASE RechargeBattery
  BY <1>5 DEF RechargeBattery, TypeOK
<1>6. ASSUME NEW d \in ClockSteps, Tick(d) PROVE TypeOK'
  BY <1>6 DEF Tick, TypeOK, history
<1>7. CASE UNCHANGED vars
  BY <1>7 DEF vars, TypeOK, history
<1>8. CASE UpdateBattery
  BY <1>4, <1>8 DEF UpdateBattery, TypeOK
<1> QED
  BY <1>1, <1>2, <1>3, <1>4, <1>5, <1>6, <1>7, <1>8 DEF Moves, Next

(* Every behaviour keeps speed, battery and temperature in the ranges the   *)
(* README documents.                                                        *)
THEOREM VehicleTypeCorrect == Spec => []TypeOK
<1>1. [Next]_vars => [Moves]_vars
  BY DEF Moves
<1> QED
  BY <1>1, TypeOKInit, TypeOKStep, PTL DEF Spec

-----------------------------------------------------------------------------
(* The arithmetic of one update: a battery that loses at most d percent      *)
(* keeps its bound when the bound grows by the cost of d.                   *)
LEMMA AddedDrain ==
  ASSUME NEW full \in Int, NEW b \in Int, NEW next \in Int, NEW d \in Nat,
         NEW bound \in Int, NEW cost \in Int,
         b - d <= next, 600 * (full - b) <= bound, 600 * d <= cost
  PROVE  600 * (full - next) <= bound + cost
  OBVIOUS

LEMMA GreaterSpeed ==
  ASSUME NEW v \in Nat, NEW w \in Nat, NEW t \in Nat, v <= w
  PROVE  /\ (10 + v) * t <= (10 + w) * t
         /\ (10 + v) * t \in Int /\ (10 + w) * t \in Int
<1>1. PICK k \in Nat : w = v + k
  <2>1. w - v \in Nat /\ w = v + (w - v)
    OBVIOUS
  <2> QED
    BY <2>1
<1>2. (10 + (v + k)) * t = (10 + v) * t + k * t
  OBVIOUS
<1>3. k * t \in Nat /\ (10 + v) * t \in Nat
  OBVIOUS
<1> QED
  BY <1>1, <1>2, <1>3

(* The histories: the speed has not been greater than topSpeed since the    *)
(* battery was charged, and no update was charged for a time before that.   *)
Charging ==
  /\ speed <= topSpeed
  /\ chargedAt <= lastUpdate
  /\ DrainBounded

LEMMA ChargingInit == Init => Charging
  BY VehicleAssumption DEF Init, Charging, DrainBounded

LEMMA ChargingStep == TypeOK /\ Charging /\ [Moves]_vars => Charging'
<1> SUFFICES ASSUME TypeOK, Charging, [Moves]_vars PROVE Charging'
  OBVIOUS
<1> USE VehicleAssumption
<1>0. /\ speed \in Nat /\ topSpeed \in Nat /\ speed <= topSpeed
      /\ lastUpdate \in Int /\ chargedAt \in Int /\ now \in Int
      /\ lastUpdate - chargedAt \in Nat
      /\ battery \in Int /\ MaxBattery \in Int
      /\ 600 * (MaxBattery - battery) <= (10 + topSpeed) * (lastUpdate - chargedAt)
  BY DEF TypeOK, Charging, DrainBounded
<1>1. ASSUME NEW time \in Int, Update(time) PROVE Charging'
  <2> DEFINE dt == time - lastUpdate
             d  == BatteryDrain(dt, speed)
  <2>0. UNCHANGED <<speed, topSpeed, chargedAt>> /\ lastUpdate' = time
    BY <1>1 DEF Update, history
  <2>1. dt \in Nat
    BY <1>0, <1>1 DEF Update
  <2>2. d \in Nat /\ 600 * d <= (10 + topSpeed) * dt
    BY <1>0, <2>1, DrainOfInterval
  <2>3. battery - d <= battery' /\ battery' \in Int
    BY <1>1, <2>1, BatteryAfterUpdate DEF Update, TypeOK
  <2>4. /\ (10 + topSpeed) * (lastUpdate - chargedAt) \in Int
        /\ (10 + topSpeed) * dt \in Int
    BY <1>0, <2>1
  <2>5. 600 * (MaxBattery - battery')
          <= (10 + topSpeed) * (lastUpdate - chargedAt) + (10 + topSpeed) * dt
    <3> HIDE DEF dt, d
    <3> QED
      BY <1>0, <2>2, <2>3, <2>4, AddedDrain
  <2>6. (10 + topSpeed') * (lastUpdate' - chargedAt')
          = (10 + topSpeed) * (lastUpdate - chargedAt) + (10 + topSpeed) * dt
    BY <1>0, <2>0
  <2>7. speed' <= topSpeed' /\ chargedAt' <= lastUpdate'
    BY <1>0, <2>0, <2>1
  <2> QED
    BY <2>5, <2>6, <2>7 DEF Charging, DrainBounded
<1>2. CASE RechargeBattery
  BY <1>0, <1>2 DEF RechargeBattery, Charging, DrainBounded
<1>3. ASSUME UNCHANGED <<battery, lastUpdate, chargedAt>>, topSpeed' \in Nat,
             topSpeed <= topSpeed', speed' <= topSpeed'
      PROVE  Charging'
  <2> DEFINE t == lastUpdate - chargedAt
  <2>1. t \in Nat
    BY <1>0
  <2> HIDE DEF t
  <2>2. /\ (10 + topSpeed) * t <= (10 + topSpeed') * t
        /\ (10 + topSpeed) * t \in Int /\ (10 + topSpeed') * t \in Int
    BY <1>0, <1>3, <2>1, GreaterSpeed
  <2>3. 600 * (MaxBattery - battery) <= (10 + topSpeed) * t
    BY <1>0 DEF t
  <2>4. 600 * (MaxBattery - battery) <= (10 + topSpeed') * t
    BY <1>0, <2>2, <2>3
  <2>5. 600 * (MaxBattery - battery') <= (10 + topSpeed') * (lastUpdate' - chargedAt')
    BY <1>3, <2>4 DEF t
  <2> QED
    BY <1>0, <1>3, <2>5 DEF Charging, DrainBounded
<1>4. CASE SpeedUp
  <2>1. /\ speed' \in Nat /\ topSpeed' \in Nat
        /\ topSpeed <= topSpeed' /\ speed' <= topSpeed'
    BY <1>0, <1>4 DEF SpeedUp, Least, Greatest
  <2> QED
    BY <1>3, <1>4, <2>1 DEF SpeedUp
<1>5. CASE SlowDown
  <2>1. topSpeed' = topSpeed /\ speed' <= topSpeed
    BY <1>0, <1>5 DEF SlowDown, Greatest, history
  <2> QED
    BY <1>0, <1>3, <1>5, <2>1 DEF SlowDown, history
<1>6. CASE UNCHANGED <<speed, battery, lastUpdate, chargedAt, topSpeed>>
  BY <1>0, <1>3, <1>6
<1> QED
  BY <1>0, <1>1, <1>2, <1>4, <1>5, <1>6
     DEF Moves, Next, vars, history, UpdateBattery, SetDirection, Tick

(* No second is charged twice, whatever the order of the calls and however  *)
(* the wall clock is set: the battery has lost at most what the greatest    *)
(* speed since it was charged costs.                                        *)
THEOREM DrainIsBounded == Spec => []DrainBounded
<1>1. [Next]_vars => [Moves]_vars
  BY DEF Moves
<1>2. Charging => DrainBounded
  BY DEF Charging
<1> QED
  BY <1>1, <1>2, TypeOKInit, TypeOKStep, ChargingInit, ChargingStep, PTL DEF Spec

-----------------------------------------------------------------------------
(* The battery gains only by a recharge, which restarts the drain clock.    *)
LEMMA GainStep ==
  ASSUME TypeOK, [Moves]_vars, battery' > battery
  PROVE  battery' = MaxBattery /\ lastUpdate' = now'
<1> USE VehicleAssumption
<1>1. ASSUME NEW time \in Int, Update(time) PROVE FALSE
  <2>1. time - lastUpdate \in Nat
    BY <1>1 DEF Update, TypeOK
  <2>2. battery' \in 0 .. battery
    BY <1>1, <2>1, BatteryAfterUpdate DEF Update, TypeOK
  <2> QED
    BY <2>2 DEF TypeOK
<1>2. CASE RechargeBattery
  BY <1>2 DEF RechargeBattery
<1>3. CASE UNCHANGED battery
  BY <1>3 DEF TypeOK
<1>4. now \in Int
  BY DEF TypeOK
<1> QED
  BY <1>1, <1>2, <1>3, <1>4
     DEF Moves, Next, UpdateBattery, SpeedUp, SlowDown, SetDirection, Tick, vars

(* The battery gains only by a recharge, which fills it and restarts the    *)
(* drain clock.                                                             *)
THEOREM GainOnlyByRecharge == Spec => GainIsRecharge
<1>1. TypeOK /\ [Next]_vars =>
        [battery' > battery => battery' = MaxBattery /\ lastUpdate' = now']_vars
  BY GainStep DEF Moves
<1> QED
  BY <1>1, VehicleTypeCorrect, PTL DEF Spec, GainIsRecharge
=============================================================================

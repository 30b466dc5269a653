------------------------------ MODULE Vehicle ------------------------------
(***************************************************************************)
(* The simulated vehicle of server/vehicle.c: one record of speed,        *)
(* battery, temperature and direction behind one mutex, shared by every   *)
(* client handler and by the telemetry thread.                             *)
(*                                                                         *)
(* Each function of vehicle.c is one critical section of vehicle->mutex,   *)
(* so each is one action here, at the moment it reads the clock if it      *)
(* does; that the threads make it so is shown of VehicleService.           *)
(* (vehicle_format_telemetry is two critical sections, UpdateBattery and   *)
(* then a read of the state; a read changes nothing and is not an action   *)
(* of this module.)  The clock is time(NULL): it is read in whole seconds  *)
(* and, being the wall clock, may also be set back.                        *)
(***************************************************************************)
EXTENDS Integers

CONSTANTS
  MaxSpeed,     \* km/h, 100 in the code
  SpeedStep,    \* km/h added or removed by one command, 10 in the code
  MaxBattery,   \* percent, 100 in the code
  MinTemp,      \* degrees, 20 in the code
  MaxTemp,      \* degrees, 50 in the code
  ClockSteps,   \* seconds by which the wall clock may move in one step
  MaxTime       \* bound of the model: the last second it looks at

ASSUME VehicleAssumption ==
  /\ MaxSpeed \in Nat /\ SpeedStep \in Nat /\ MaxBattery \in Nat
  /\ MinTemp \in Int /\ MaxTemp \in Int /\ MinTemp <= MaxTemp
  /\ ClockSteps \subseteq Int /\ MaxTime \in Nat

VARIABLES
  speed, battery, temperature, direction,
  lastUpdate,   \* vehicle->last_update
  now,          \* time(NULL)
  chargedAt,    \* history: when the battery was last put at MaxBattery
  topSpeed      \* history: the greatest speed since then

history == <<chargedAt, topSpeed>>
vars == <<speed, battery, temperature, direction, lastUpdate, now, history>>

Directions == {"STRAIGHT", "LEFT", "RIGHT"}

Least(a, b) == IF a < b THEN a ELSE b
Greatest(a, b) == IF a < b THEN b ELSE a

-----------------------------------------------------------------------------
(* The physics of vehicle_update_battery, as functions of the elapsed time  *)
(* dt > 0 and of the speed v.  The code adds dt/60.0 and v*dt/600.0 and     *)
(* truncates: that is dt*(10+v)/600 rounded down, checked equal to the      *)
(* double arithmetic for every v in 0,10,..,100 and dt up to 20000 s.       *)

BatteryDrain(dt, v) == (dt * (10 + v)) \div 600

(* Mutant: the level is not kept at 0. *)
NextBatteryNoFloor(b, dt, v) == b - BatteryDrain(dt, v)

NextBattery(b, dt, v) == Greatest(b - BatteryDrain(dt, v), 0)

NextTemperature(c, dt, v) ==
  IF v > 0 THEN Least(c + (dt * v) \div 1000, MaxTemp)
           ELSE Greatest(c - dt \div 10, MinTemp)

-----------------------------------------------------------------------------
Init ==
  /\ speed = 0
  /\ battery = MaxBattery
  /\ temperature = MinTemp
  /\ direction = "STRAIGHT"
  /\ now = 0
  /\ lastUpdate = now
  /\ chargedAt = now
  /\ topSpeed = speed

(* vehicle_speed_up: at the maximum the call returns -1 and changes nothing *)
SpeedUp ==
  /\ speed < MaxSpeed
  /\ speed' = Least(speed + SpeedStep, MaxSpeed)
  /\ topSpeed' = Greatest(topSpeed, speed')
  /\ UNCHANGED <<battery, temperature, direction, lastUpdate, now, chargedAt>>

(* vehicle_slow_down *)
SlowDown ==
  /\ speed > 0
  /\ speed' = Greatest(speed - SpeedStep, 0)
  /\ UNCHANGED <<battery, temperature, direction, lastUpdate, now, history>>

(* vehicle_set_direction, called with "LEFT" and "RIGHT" only *)
SetDirection(d) ==
  /\ direction' = d
  /\ UNCHANGED <<speed, battery, temperature, lastUpdate, now, history>>

(* Mutants of the update: one that forgets to restart the clock, and one    *)
(* that also charges for a negative interval.                               *)
UpdateKeepsClock(time) ==
  LET dt == time - lastUpdate
  IN  /\ dt > 0
      /\ battery' = NextBattery(battery, dt, speed)
      /\ temperature' = NextTemperature(temperature, dt, speed)
      /\ UNCHANGED <<speed, direction, lastUpdate, now, history>>

UpdateUnguarded(time) ==
  LET dt == time - lastUpdate
  IN  /\ battery' = NextBattery(battery, dt, speed)
      /\ temperature' = NextTemperature(temperature, dt, speed)
      /\ lastUpdate' = time
      /\ UNCHANGED <<speed, direction, now, history>>

(* vehicle_update_battery, when the clock read "time".  One that has not    *)
(* moved past last_update, or was set back behind it, charges nothing: the  *)
(* else branch is the unmodelled no-op.                                     *)
Update(time) ==
  LET dt == time - lastUpdate
  IN  /\ dt > 0
      /\ battery' = NextBattery(battery, dt, speed)
      /\ temperature' = NextTemperature(temperature, dt, speed)
      /\ lastUpdate' = time
      /\ UNCHANGED <<speed, direction, now, history>>

UpdateBattery == Update(now)

(* vehicle_recharge_battery *)
RechargeBattery ==
  /\ battery' = MaxBattery
  /\ lastUpdate' = now
  /\ chargedAt' = now
  /\ topSpeed' = speed
  /\ UNCHANGED <<speed, temperature, direction, now>>

(* The environment: the wall clock moves, forwards or back. *)
Tick(d) ==
  /\ now + d \in 0 .. MaxTime
  /\ now' = now + d
  /\ UNCHANGED <<speed, battery, temperature, direction, lastUpdate, history>>

Next ==
  \/ SpeedUp
  \/ SlowDown
  \/ \E d \in {"LEFT", "RIGHT"} : SetDirection(d)
  \/ UpdateBattery
  \/ RechargeBattery
  \/ \E d \in ClockSteps : Tick(d)

Spec == Init /\ [][Next]_vars

-----------------------------------------------------------------------------
(* The type invariant.  The ranges are the ones the README's "Telemetry     *)
(* Data" gives: they hold because of the clamps of lines 67, 83, 111, 118   *)
(* and 124.                                                                 *)
TypeOK ==
  /\ speed \in 0 .. MaxSpeed
  /\ battery \in 0 .. MaxBattery
  /\ temperature \in MinTemp .. MaxTemp
  /\ direction \in Directions
  /\ lastUpdate \in Int
  /\ now \in Int
  /\ chargedAt \in Int
  /\ topSpeed \in 0 .. MaxSpeed

(* No second is charged twice: since it was charged the battery has lost at *)
(* most what the greatest speed reached since then costs over that time, in *)
(* whatever order the handlers and the telemetry thread call the functions, *)
(* and with a wall clock that may be set back.  The cost is that of the     *)
(* code, (10 + speed)/600 percent a second, which is 1 % a minute and       *)
(* another 1 % for every 10 km/h.  The comments of vehicle.c:103 and 105    *)
(* and the documents give 0.5 % for every 10 km/h, half of the second term: *)
(* that is not what the code does.                                          *)
DrainBounded ==
  600 * (MaxBattery - battery) <= (10 + topSpeed) * (lastUpdate - chargedAt)

(* The battery only ever gains by a recharge, which fills it and restarts   *)
(* the drain clock: time that passed before it is never charged after it.   *)
GainIsRecharge ==
  [][battery' > battery => battery' = MaxBattery /\ lastUpdate' = now']_vars
=============================================================================

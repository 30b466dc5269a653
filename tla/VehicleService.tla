--------------------------- MODULE VehicleService ---------------------------
(***************************************************************************)
(* The threads that call vehicle.c: the client handlers, through           *)
(* protocol_handle_command, and the telemetry thread, which is one more    *)
(* caller of vehicle_format_telemetry.                                     *)
(*                                                                         *)
(* The update of battery and temperature is two steps, between which the   *)
(* mutex is held: vehicle.c:97 reads the clock, and the clock and all that *)
(* waits for no mutex may move on before the results are written.  The     *)
(* other critical sections of vehicle->mutex are one step (a recharge      *)
(* happens when it reads the clock).  What happens outside the mutex is a  *)
(* step of its own: the speed that a command answers is read after the     *)
(* mutex was released (vehicle.c:69, 85), and the telemetry is made of two *)
(* sections, the update and the read of the state (vehicle.c:148, 153).    *)
(***************************************************************************)
EXTENDS Vehicle

CONSTANT Callers   \* threads that call vehicle.c

VARIABLE call      \* place and locals of each caller, with two histories:
                   \* "own" is the speed its command made, "floor" the least
                   \* clock since its request for telemetry began; "since"
                   \* is current_time of vehicle_update_battery

serviceVars == <<vars, call>>

Idle == [pc |-> "idle", own |-> 0, answer |-> 0, disturbed |-> FALSE,
         floor |-> 0, since |-> 0, asOf |-> 0]

At(t, pc) == call[t].pc = pc

(* Mutant: vehicle_update_battery does not take the mutex. *)
NeverLocked == TRUE

(* Nobody is inside vehicle_update_battery: vehicle->mutex is free. *)
Unlocked == \A t \in Callers : ~ At(t, "update")

ServiceInit == Init /\ call = [t \in Callers |-> Idle]

-----------------------------------------------------------------------------
(* Commands. *)

(* The others that have not yet read the speed they will answer. *)
Disturbed(t) ==
  [u \in Callers |-> IF u # t /\ At(u, "read")
                     THEN [call[u] EXCEPT !.disturbed = TRUE] ELSE call[u]]

(* Mutant: the value answered is taken before the speed is changed. *)
ChangeSpeedAnswersOld(t) ==
  /\ At(t, "idle")
  /\ Unlocked
  /\ SpeedUp \/ SlowDown
  /\ call' = [Disturbed(t) EXCEPT ![t] =
               [Idle EXCEPT !.pc = "answer", !.own = speed', !.answer = speed]]

(* The critical section of vehicle_speed_up and vehicle_slow_down.  (At a   *)
(* limit the answer is an error and nothing is read or changed.)            *)
ChangeSpeed(t) ==
  /\ At(t, "idle")
  /\ Unlocked
  /\ SpeedUp \/ SlowDown
  /\ call' = [Disturbed(t) EXCEPT ![t] = [Idle EXCEPT !.pc = "read", !.own = speed']]

(* return vehicle->speed, after the mutex was released. *)
ReadSpeed(t) ==
  /\ At(t, "read")
  /\ call' = [call EXCEPT ![t].pc = "answer", ![t].answer = speed]
  /\ UNCHANGED vars

(* TURN_LEFT, TURN_RIGHT and RECHARGE: one section, and a fixed answer. *)
Turn(t) ==
  /\ At(t, "idle")
  /\ Unlocked
  /\ \E d \in {"LEFT", "RIGHT"} : SetDirection(d)
  /\ UNCHANGED call

Recharge(t) ==
  /\ At(t, "idle")
  /\ Unlocked
  /\ RechargeBattery
  /\ UNCHANGED call

-----------------------------------------------------------------------------
(* Telemetry: GET_DATA, and every TELEMETRY_INTERVAL the telemetry thread.  *)

AskData(t) ==
  /\ At(t, "idle")
  /\ call' = [call EXCEPT ![t] = [Idle EXCEPT !.pc = "refresh", !.floor = now]]
  /\ UNCHANGED vars

(* vehicle_update_battery takes the mutex and reads the clock; *)
ReadClock(t) ==
  /\ At(t, "refresh")
  /\ Unlocked
  /\ call' = [call EXCEPT ![t].pc = "update", ![t].since = now]
  /\ UNCHANGED vars

(* Mutant: the new time of the last update is lost. *)
WriteKeepsClock(t) ==
  /\ At(t, "update")
  /\ \/ UpdateKeepsClock(call[t].since)
     \/ call[t].since <= lastUpdate /\ UNCHANGED vars
  /\ call' = [call EXCEPT ![t].pc = "get", ![t].since = 0]

(* it leaves everything alone when no time has passed, and otherwise writes *)
(* what the time it has read makes of the battery and the temperature.      *)
Write(t) ==
  /\ At(t, "update")
  /\ \/ Update(call[t].since)
     \/ call[t].since <= lastUpdate /\ UNCHANGED vars
  /\ call' = [call EXCEPT ![t].pc = "get", ![t].since = 0]

(* vehicle_get_state: what is told is the state as of last_update. *)
GetState(t) ==
  /\ At(t, "get")
  /\ Unlocked
  /\ call' = [call EXCEPT ![t].pc = "answer", ![t].asOf = lastUpdate]
  /\ UNCHANGED vars

Answer(t) ==
  /\ At(t, "answer")
  /\ call' = [call EXCEPT ![t] = Idle]
  /\ UNCHANGED vars

Step(t) ==
  \/ ChangeSpeed(t)
  \/ ReadSpeed(t)
  \/ Turn(t)
  \/ Recharge(t)
  \/ AskData(t)
  \/ ReadClock(t)
  \/ Write(t)
  \/ GetState(t)
  \/ Answer(t)

-----------------------------------------------------------------------------
Collecting(t) == call[t].pc \in {"refresh", "update", "get"}

(* The wall clock, see Vehicle. *)
Clock(d) ==
  /\ Tick(d)
  /\ call' = [t \in Callers |-> IF Collecting(t)
                                THEN [call[t] EXCEPT !.floor = Least(@, now')]
                                ELSE call[t]]

ServiceNext ==
  \/ \E t \in Callers : Step(t)
  \/ \E d \in ClockSteps : Clock(d)

ServiceSpec == ServiceInit /\ [][ServiceNext]_serviceVars

-----------------------------------------------------------------------------
(* The type invariant. *)
ServiceTypeOK ==
  /\ TypeOK
  /\ call \in [Callers -> [pc : {"idle", "read", "refresh", "update", "get",
                                 "answer"},
                           own : 0 .. MaxSpeed, answer : 0 .. MaxSpeed,
                           disturbed : BOOLEAN, floor : Int, since : Int,
                           asOf : Int]]

(* An update takes effect when it reads the clock: from then on the vehicle *)
(* counts as updated, although the fields are written later and the clock   *)
(* has moved on by then.                                                    *)
Updating == \E t \in Callers : At(t, "update") /\ call[t].since > lastUpdate
Since == call[CHOOSE t \in Callers : At(t, "update")].since
Elapsed == Since - lastUpdate

BatteryToBe == IF Updating THEN NextBattery(battery, Elapsed, speed) ELSE battery
TemperatureToBe ==
  IF Updating THEN NextTemperature(temperature, Elapsed, speed) ELSE temperature
LastUpdateToBe == IF Updating THEN Since ELSE lastUpdate

Updated == INSTANCE Vehicle WITH
  battery <- BatteryToBe, temperature <- TemperatureToBe, lastUpdate <- LastUpdateToBe

(* Whatever the threads and the clock do in the middle of an update, the    *)
(* outcome is that of operations of the vehicle done one after the other,   *)
(* each at one moment: none is lost, and none is computed from fields that  *)
(* another has changed since.                                               *)
VehicleRefined == Updated!Spec

(* The speed that a command answers is the one that it made, unless another *)
(* command came between its critical section and the unlocked read.         *)
AnswerIsOwnResult ==
  \A t \in Callers : At(t, "answer") /\ ~ call[t].disturbed => call[t].answer = call[t].own

(* No telemetry is older than the request for it: the update and the read   *)
(* of the state are two critical sections, with other threads between them, *)
(* but the state told was brought up to the clock since the request began.  *)
TelemetryIsCurrent ==
  \A t \in Callers : At(t, "answer") => call[t].asOf >= call[t].floor
=============================================================================

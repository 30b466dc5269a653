------------------------ MODULE VehicleServiceProofs ------------------------
(***************************************************************************)
(* Theorems of the vehicle and the threads that call it, for every set of  *)
(* callers and every value of the vehicle's constants.                     *)
(***************************************************************************)
EXTENDS VehicleService, VehicleProofs

Places == {"idle", "read", "refresh", "update", "get", "answer"}

Local == [pc : Places, own : 0 .. MaxSpeed, answer : 0 .. MaxSpeed,
          disturbed : BOOLEAN, floor : Int, since : Int, asOf : Int]

(* What the locals r of a caller say of the vehicle (its speed v, its       *)
(* last_update lu, and the clock n) at each place: an undisturbed command   *)
(* finds its own speed when it reads it, the clock seen since a request     *)
(* began is not ahead of the clock, nor of the time that the update has     *)
(* read, nor, after the update, of last_update.                             *)
Agrees(r, v, lu, n) ==
  /\ ~ r.disturbed =>
       /\ r.pc = "read" => v = r.own
       /\ r.pc \in {"refresh", "update", "get", "answer"} => r.answer = r.own
  /\ r.pc \in {"refresh", "update", "get"} => r.floor <= n
  /\ r.pc = "update" => r.floor <= r.since
  /\ r.pc = "get" => r.floor <= lu
  /\ r.pc \in {"read", "answer"} => r.floor <= r.asOf

(* The mutex: one update at a time. *)
OneUpdate ==
  \A t, u \in Callers : At(t, "update") /\ At(u, "update") => t = u

ServiceInv ==
  /\ TypeOK
  /\ call \in [Callers -> Local]
  /\ \A t \in Callers : Agrees(call[t], speed, lastUpdate, now)

-----------------------------------------------------------------------------
(* What a step of the threads does to the fields: an operation of the       *)
(* vehicle, an update with the clock read some time ago, or nothing.        *)
LEMMA StepOfFields ==
  ASSUME ServiceInv, [ServiceNext]_serviceVars
  PROVE  [Moves]_vars
<1>1. ASSUME NEW t \in Callers, Step(t) PROVE [Moves]_vars
  <2>1. call[t].since \in Int
    BY DEF ServiceInv, Local
  <2>2. CASE Write(t)
    BY <2>1, <2>2 DEF Write, Moves
  <2>3. CASE ~ Write(t)
    BY <1>1, <2>3 DEF Step, ChangeSpeed, ReadSpeed, Turn, Recharge, AskData, ReadClock,
                      GetState, Answer, Next, Moves
  <2> QED
    BY <2>2, <2>3
<1>2. ASSUME NEW d \in ClockSteps, Clock(d) PROVE [Moves]_vars
  BY <1>2 DEF Clock, Next, Moves
<1>3. CASE UNCHANGED serviceVars
  BY <1>3 DEF serviceVars
<1> QED
  BY <1>1, <1>2, <1>3 DEF ServiceNext

-----------------------------------------------------------------------------
LEMMA Written ==
  ASSUME NEW r \in Local
  PROVE  [r EXCEPT !.pc = "get", !.since = 0] \in Local
<1>1. [r EXCEPT !.pc = "get"] \in Local
  BY DEF Local, Places
<1>2. ASSUME NEW q \in Local PROVE [q EXCEPT !.since = 0] \in Local
  <2>1. 0 \in Int
    OBVIOUS
  <2> QED
    BY <2>1 DEF Local
<1>3. [r EXCEPT !.pc = "get", !.since = 0] = [[r EXCEPT !.pc = "get"] EXCEPT !.since = 0]
  BY DEF Local
<1> QED
  BY <1>1, <1>2, <1>3

LEMMA ServiceInvInit == ServiceInit => ServiceInv
<1> SUFFICES ASSUME ServiceInit PROVE ServiceInv
  OBVIOUS
<1>1. TypeOK
  BY TypeOKInit DEF ServiceInit
<1>2. 0 \in 0 .. MaxSpeed
  BY VehicleAssumption
<1>3. Idle \in Local
  BY <1>2 DEF Local, Places, Idle
<1>4. Agrees(Idle, speed, lastUpdate, now)
  BY DEF Agrees, Idle
<1> QED
  BY <1>1, <1>3, <1>4 DEF ServiceInit, ServiceInv

(* A step in which caller t gets new locals, and every other caller keeps   *)
(* locals that still agree with the vehicle, keeps the invariant.           *)
LEMMA OneCaller ==
  ASSUME ServiceInv, TypeOK', NEW t \in Callers, NEW r \in Local,
         call' = [call EXCEPT ![t] = r],
         Agrees(r, speed', lastUpdate', now'),
         \A u \in Callers \ {t} : Agrees(call[u], speed', lastUpdate', now')
  PROVE  ServiceInv'
<1>1. call' \in [Callers -> Local] /\ call'[t] = r
      /\ \A u \in Callers \ {t} : call'[u] = call[u]
  BY DEF ServiceInv
<1>2. \A u \in Callers : Agrees(call'[u], speed', lastUpdate', now')
  BY <1>1
<1> QED
  BY <1>1, <1>2 DEF ServiceInv

LEMMA ServiceInvStep == ServiceInv /\ [ServiceNext]_serviceVars => ServiceInv'
<1> SUFFICES ASSUME ServiceInv, [ServiceNext]_serviceVars PROVE ServiceInv'
  OBVIOUS
<1>t. TypeOK'
  BY StepOfFields, TypeOKStep DEF ServiceInv
<1>v. /\ speed \in 0 .. MaxSpeed /\ speed' \in 0 .. MaxSpeed /\ 0 \in 0 .. MaxSpeed
      /\ now \in Int /\ lastUpdate \in Int /\ now' \in Int /\ lastUpdate' \in Int
  BY <1>t, VehicleAssumption DEF ServiceInv, TypeOK
<1>c. /\ call \in [Callers -> Local]
      /\ \A u \in Callers : call[u] \in Local /\ Agrees(call[u], speed, lastUpdate, now)
  BY DEF ServiceInv
<1>i. /\ Idle \in Local /\ Agrees(Idle, speed', lastUpdate', now')
      /\ Idle.own = 0 /\ Idle.answer = 0 /\ Idle.floor = 0 /\ Idle.since = 0 /\ Idle.asOf = 0
      /\ ~ Idle.disturbed
  BY <1>v DEF Local, Places, Idle, Agrees
<1>1. ASSUME NEW t \in Callers, ChangeSpeed(t) PROVE ServiceInv'
  <2> DEFINE r == [Idle EXCEPT !.pc = "read", !.own = speed']
  <2>1. now' = now /\ lastUpdate' = lastUpdate
    BY <1>1 DEF ChangeSpeed, SpeedUp, SlowDown, history
  <2>2. Disturbed(t) \in [Callers -> Local]
    BY <1>c DEF Disturbed, Local
  <2>3. r \in Local
    BY <1>v, <1>i DEF Local, Places
  <2>4. Agrees(r, speed', lastUpdate', now')
    BY <1>v, <1>i DEF Local, Agrees
  <2>d. call' = [Disturbed(t) EXCEPT ![t] = r]
    BY <1>1 DEF ChangeSpeed
  <2> HIDE DEF r
  <2>5. /\ call' \in [Callers -> Local] /\ call'[t] = r
        /\ \A u \in Callers \ {t} : call'[u] = Disturbed(t)[u]
    BY <2>2, <2>3, <2>d
  <2>6. ASSUME NEW u \in Callers \ {t}
        PROVE  Agrees(call'[u], speed', lastUpdate', now')
    <3>1. CASE At(u, "read")
      <4>1. call'[u] = [call[u] EXCEPT !.disturbed = TRUE]
        BY <2>5, <3>1 DEF Disturbed
      <4> QED
        BY <1>c, <3>1, <4>1 DEF At, Local, Agrees
    <3>2. CASE ~ At(u, "read")
      <4>1. call'[u] = call[u]
        BY <2>5, <3>2 DEF Disturbed
      <4> QED
        BY <1>c, <2>1, <3>2, <4>1 DEF At, Agrees
    <3> QED
      BY <3>1, <3>2
  <2> QED
    BY <1>t, <2>4, <2>5, <2>6 DEF ServiceInv
<1>2. ASSUME NEW t \in Callers, ReadSpeed(t) PROVE ServiceInv'
  <2> DEFINE r == [call[t] EXCEPT !.pc = "answer", !.answer = speed]
  <2>1. call' = [call EXCEPT ![t] = r] /\ At(t, "read") /\ UNCHANGED vars
    BY <1>2, <1>c DEF ReadSpeed
  <2>2. r \in Local /\ Agrees(r, speed', lastUpdate', now')
    BY <1>v, <1>c, <2>1 DEF Local, Places, Agrees, At, vars
  <2> QED
    BY <1>t, <1>c, <2>1, <2>2, OneCaller DEF vars
<1>3. ASSUME NEW t \in Callers, Turn(t) PROVE ServiceInv'
  BY <1>t, <1>3 DEF Turn, SetDirection, ServiceInv
<1>4. ASSUME NEW t \in Callers, Recharge(t) PROVE ServiceInv'
  <2>1. UNCHANGED <<call, speed, now>> /\ lastUpdate' = now
    BY <1>4 DEF Recharge, RechargeBattery
  <2>2. \A u \in Callers : Agrees(call[u], speed', lastUpdate', now')
    BY <1>c, <2>1 DEF Agrees
  <2> QED
    BY <1>t, <1>c, <2>1, <2>2 DEF ServiceInv
<1>5. ASSUME NEW t \in Callers, AskData(t) PROVE ServiceInv'
  <2> DEFINE r == [Idle EXCEPT !.pc = "refresh", !.floor = now]
  <2>1. call' = [call EXCEPT ![t] = r] /\ UNCHANGED vars
    BY <1>5 DEF AskData
  <2>2. r \in Local
    BY <1>v, <1>i DEF Local, Places
  <2>3. Agrees(r, speed', lastUpdate', now')
    BY <1>v, <1>i, <2>1 DEF Local, Agrees, vars
  <2> QED
    BY <1>t, <1>c, <2>1, <2>2, <2>3, OneCaller DEF vars
<1>11. ASSUME NEW t \in Callers, ReadClock(t) PROVE ServiceInv'
  <2> DEFINE r == [call[t] EXCEPT !.pc = "update", !.since = now]
  <2>1. call' = [call EXCEPT ![t] = r] /\ At(t, "refresh") /\ UNCHANGED vars
    BY <1>11, <1>c DEF ReadClock
  <2>2. r \in Local /\ Agrees(r, speed', lastUpdate', now')
    BY <1>v, <1>c, <2>1 DEF Local, Places, Agrees, At, vars
  <2> QED
    BY <1>t, <1>c, <2>1, <2>2, OneCaller DEF vars
<1>6. ASSUME NEW t \in Callers, Write(t) PROVE ServiceInv'
  <2> DEFINE r == [call[t] EXCEPT !.pc = "get", !.since = 0]
  <2>1. call' = [call EXCEPT ![t] = r] /\ At(t, "update")
    BY <1>6, <1>c DEF Write
  <2>2. /\ UNCHANGED <<speed, now>>
        /\ call[t].since <= lastUpdate' /\ lastUpdate <= lastUpdate'
    <3>1. call[t].since \in Int
      BY <1>c DEF Local
    <3> QED
      BY <1>6, <1>v, <3>1 DEF Write, Update, vars
  <2>3. r \in Local /\ Agrees(r, speed', lastUpdate', now')
    <3>1. call[t] \in Local /\ call[t].pc = "update" /\ call[t].floor \in Int
          /\ call[t].since \in Int
      BY <1>c, <2>1 DEF Local, At
    <3>2. /\ ~ call[t].disturbed => call[t].answer = call[t].own
          /\ call[t].floor <= now /\ call[t].floor <= call[t].since
      BY <1>c, <3>1 DEF Agrees
    <3>5. r \in Local
      BY <3>1, Written
    <3>3. /\ r \in Local /\ r.pc = "get" /\ r.floor = call[t].floor
          /\ r.disturbed = call[t].disturbed /\ r.answer = call[t].answer
          /\ r.own = call[t].own
      BY <3>1, <3>5 DEF Local
    <3>4. call[t].floor <= lastUpdate' /\ call[t].floor <= now'
      BY <1>v, <2>2, <3>1, <3>2
    <3> QED
      BY <3>2, <3>3, <3>4 DEF Agrees
  <2>4. \A u \in Callers : Agrees(call[u], speed', lastUpdate', now')
    BY <1>v, <1>c, <2>2 DEF Agrees, Local
  <2> QED
    BY <1>t, <2>1, <2>3, <2>4, OneCaller
<1>7. ASSUME NEW t \in Callers, GetState(t) PROVE ServiceInv'
  <2> DEFINE r == [call[t] EXCEPT !.pc = "answer", !.asOf = lastUpdate]
  <2>1. call' = [call EXCEPT ![t] = r] /\ At(t, "get") /\ UNCHANGED vars
    BY <1>7, <1>c DEF GetState
  <2>2. r \in Local /\ Agrees(r, speed', lastUpdate', now')
    BY <1>v, <1>c, <2>1 DEF Local, Places, Agrees, At, vars
  <2> QED
    BY <1>t, <1>c, <2>1, <2>2, OneCaller DEF vars
<1>8. ASSUME NEW t \in Callers, Answer(t) PROVE ServiceInv'
  BY <1>t, <1>c, <1>i, <1>8, OneCaller DEF Answer, vars
<1>9. ASSUME NEW d \in ClockSteps, Clock(d) PROVE ServiceInv'
  <2>1. UNCHANGED <<speed, lastUpdate>>
    BY <1>9 DEF Clock, Tick
  <2>2. ASSUME NEW u \in Callers
        PROVE  call'[u] \in Local /\ Agrees(call'[u], speed', lastUpdate', now')
    <3>1. CASE Collecting(u)
      <4>1. call'[u] = [call[u] EXCEPT !.floor = Least(call[u].floor, now')]
        BY <1>9, <3>1 DEF Clock
      <4> QED
        BY <1>c, <1>v, <2>1, <3>1, <4>1 DEF Collecting, Local, Agrees, Least
    <3>2. CASE ~ Collecting(u)
      <4>1. call'[u] = call[u]
        BY <1>9, <3>2 DEF Clock
      <4> QED
        BY <1>c, <2>1, <3>2, <4>1 DEF Collecting, Agrees
    <3> QED
      BY <3>1, <3>2
  <2>3. call' \in [Callers -> Local]
    BY <1>9, <2>2 DEF Clock
  <2> QED
    BY <1>t, <2>2, <2>3 DEF ServiceInv
<1>10. CASE UNCHANGED serviceVars
  BY <1>10 DEF serviceVars, vars, history, ServiceInv, TypeOK
<1> QED
  BY <1>1, <1>2, <1>3, <1>4, <1>5, <1>6, <1>7, <1>8, <1>9, <1>10, <1>11
     DEF ServiceNext, Step

LEMMA ServiceInvariant == ServiceSpec => []ServiceInv
  BY ServiceInvInit, ServiceInvStep, PTL DEF ServiceSpec

LEMMA OneUpdateStep ==
  ASSUME call \in [Callers -> Local], OneUpdate, [ServiceNext]_serviceVars
  PROVE  OneUpdate'
<1>1. ASSUME \A u \in Callers : At(u, "update")' => At(u, "update")
      PROVE  OneUpdate'
  BY <1>1 DEF OneUpdate
<1>2. ASSUME NEW t \in Callers, ReadClock(t) PROVE OneUpdate'
  <2>1. \A u \in Callers \ {t} : ~ At(u, "update")'
    BY <1>2 DEF ReadClock, Unlocked, At
  <2> QED
    BY <2>1 DEF OneUpdate
<1>3. ASSUME NEW t \in Callers, ChangeSpeed(t) PROVE OneUpdate'
  <2>1. Idle.pc = "idle" /\ Disturbed(t) \in [Callers -> Local]
    BY DEF Idle, Disturbed, Local
  <2>2. ASSUME NEW u \in Callers, At(u, "update")' PROVE At(u, "update")
    <3>1. CASE u = t
      <4>1. call'[t].pc = "read"
        BY <1>3, <2>1 DEF ChangeSpeed, Idle
      <4> QED
        BY <2>2, <3>1, <4>1 DEF At
    <3>2. CASE u # t
      <4>1. call'[u] = Disturbed(t)[u]
        BY <1>3, <2>1, <3>2 DEF ChangeSpeed
      <4>2. call'[u].pc = call[u].pc
        BY <4>1 DEF Disturbed, Local
      <4> QED
        BY <2>2, <4>2 DEF At
    <3> QED
      BY <3>1, <3>2
  <2> QED
    BY <1>1, <2>2
<1>4. ASSUME NEW t \in Callers,
             ReadSpeed(t) \/ Turn(t) \/ Recharge(t) \/ AskData(t) \/ Write(t)
             \/ GetState(t) \/ Answer(t)
      PROVE  OneUpdate'
  <2>1. \A u \in Callers : At(u, "update")' => At(u, "update")
    <3>1. CASE UNCHANGED call
      BY <3>1 DEF At
    <3>2. CASE AskData(t) \/ Answer(t)
      <4> DEFINE r == [Idle EXCEPT !.pc = "refresh", !.floor = now]
      <4>3. Idle.pc = "idle" /\ r.pc = "refresh"
        BY DEF Idle
      <4>4. call' = [call EXCEPT ![t] = r] \/ call' = [call EXCEPT ![t] = Idle]
        BY <3>2 DEF AskData, Answer
      <4> HIDE DEF r
      <4>2. PICK q : call' = [call EXCEPT ![t] = q] /\ q.pc \in {"refresh", "idle"}
        BY <4>3, <4>4
      <4>1. call'[t].pc \in {"refresh", "idle"}
            /\ \A u \in Callers \ {t} : call'[u] = call[u]
        BY <4>2
      <4> QED
        BY <4>1 DEF At
    <3>3. CASE ReadSpeed(t) \/ Write(t) \/ GetState(t)
      BY <3>3 DEF ReadSpeed, Write, GetState, At, Local
    <3> QED
      BY <1>4, <3>1, <3>2, <3>3 DEF Turn, Recharge
  <2> QED
    BY <1>1, <2>1
<1>5. ASSUME NEW d \in ClockSteps, Clock(d) PROVE OneUpdate'
  <2>1. \A u \in Callers : call'[u].pc = call[u].pc
    BY <1>5 DEF Clock, Local
  <2> QED
    BY <1>1, <2>1 DEF At
<1>6. CASE UNCHANGED serviceVars
  BY <1>1, <1>6 DEF serviceVars, At
<1> QED
  BY <1>2, <1>3, <1>4, <1>5, <1>6 DEF ServiceNext, Step

LEMMA MutexInvariant == ServiceSpec => []OneUpdate
<1>1. ServiceInit => OneUpdate
  BY DEF ServiceInit, OneUpdate, At, Idle
<1>2. ServiceInv /\ OneUpdate /\ [ServiceNext]_serviceVars => OneUpdate'
  BY OneUpdateStep DEF ServiceInv
<1> QED
  BY <1>1, <1>2, ServiceInvariant, PTL DEF ServiceSpec

-----------------------------------------------------------------------------
(* The refinement: an update takes effect when it reads the clock. *)

(* What the fields are to be, told without a choice. *)
ToBe ==
  /\ Unlocked => /\ BatteryToBe = battery /\ TemperatureToBe = temperature
                 /\ LastUpdateToBe = lastUpdate
  /\ OneUpdate =>
       \A t \in Callers :
         LET dt == call[t].since - lastUpdate
         IN  /\ At(t, "update") /\ call[t].since > lastUpdate
                  => /\ BatteryToBe = NextBattery(battery, dt, speed)
                     /\ TemperatureToBe = NextTemperature(temperature, dt, speed)
                     /\ LastUpdateToBe = call[t].since
             /\ At(t, "update") /\ ~ call[t].since > lastUpdate
                  => /\ BatteryToBe = battery /\ TemperatureToBe = temperature
                     /\ LastUpdateToBe = lastUpdate

LEMMA ToBeHolds == ToBe
<1>1. ASSUME Unlocked PROVE ~ Updating
  BY <1>1 DEF Unlocked, Updating
<1>2. ASSUME OneUpdate, NEW t \in Callers, At(t, "update")
      PROVE  Since = call[t].since /\ (Updating <=> call[t].since > lastUpdate)
  <2>1. (CHOOSE u \in Callers : At(u, "update")) = t
    BY <1>2 DEF OneUpdate
  <2> QED
    BY <1>2, <2>1 DEF Since, Updating, OneUpdate
<1> QED
  BY <1>1, <1>2 DEF ToBe, BatteryToBe, TemperatureToBe, LastUpdateToBe, Elapsed

LEMMA SamePhysics ==
  ASSUME NEW b, NEW dt, NEW v
  PROVE  /\ Updated!NextBattery(b, dt, v) = NextBattery(b, dt, v)
         /\ Updated!NextTemperature(b, dt, v) = NextTemperature(b, dt, v)
BY DEF Updated!NextBattery, Updated!BatteryDrain, Updated!Greatest,
       Updated!NextTemperature, Updated!Least,
       NextBattery, BatteryDrain, Greatest, NextTemperature, Least

toBe == <<BatteryToBe, TemperatureToBe, LastUpdateToBe>>

(* A step that neither begins nor ends an update, and leaves the fields     *)
(* alone, leaves alone what they are to be.                                 *)
LEMMA SteadyToBe ==
  ASSUME OneUpdate, OneUpdate',
         UNCHANGED <<speed, battery, temperature, lastUpdate>>,
         \A u \in Callers : /\ At(u, "update")' <=> At(u, "update")
                            /\ At(u, "update") => call'[u].since = call[u].since
  PROVE  UNCHANGED toBe
<1>1. ToBe /\ ToBe'
  BY ToBeHolds, PTL
<1>2. CASE Unlocked
  <2>1. Unlocked'
    BY <1>2 DEF Unlocked
  <2> QED
    BY <1>1, <1>2, <2>1 DEF ToBe, toBe
<1>3. CASE ~ Unlocked
  <2>1. PICK t \in Callers : At(t, "update")
    BY <1>3 DEF Unlocked
  <2>2. At(t, "update")' /\ call'[t].since = call[t].since
    BY <2>1
  <2>3. CASE call[t].since > lastUpdate
    <3>1. call'[t].since > lastUpdate'
      BY <2>2, <2>3
    <3>2. /\ BatteryToBe = NextBattery(battery, call[t].since - lastUpdate, speed)
          /\ TemperatureToBe
               = NextTemperature(temperature, call[t].since - lastUpdate, speed)
          /\ LastUpdateToBe = call[t].since
      BY <1>1, <2>1, <2>3 DEF ToBe
    <3>3. /\ BatteryToBe' = NextBattery(battery', call'[t].since - lastUpdate', speed')
          /\ TemperatureToBe'
               = NextTemperature(temperature', call'[t].since - lastUpdate', speed')
          /\ LastUpdateToBe' = call'[t].since
      BY <1>1, <2>2, <3>1 DEF ToBe
    <3> QED
      BY <2>2, <3>2, <3>3 DEF toBe
  <2>4. CASE ~ call[t].since > lastUpdate
    BY <1>1, <2>1, <2>2, <2>4 DEF ToBe, toBe
  <2> QED
    BY <2>3, <2>4
<1> QED
  BY <1>2, <1>3

LEMMA RefinementStep ==
  ASSUME ServiceInv, OneUpdate, OneUpdate', [ServiceNext]_serviceVars
  PROVE  [Updated!Next]_(Updated!vars)
<1> USE DEF history, Updated!history
<1>0. /\ ToBe /\ ToBe' /\ TypeOK /\ call \in [Callers -> Local]
  BY ToBeHolds, PTL DEF ServiceInv
<1>1. ASSUME UNCHANGED vars, UNCHANGED toBe PROVE UNCHANGED Updated!vars
  BY <1>1 DEF vars, toBe, Updated!vars
(* The critical sections that are one step. *)
<1>2. ASSUME Unlocked, Unlocked'
      PROVE  /\ BatteryToBe = battery /\ BatteryToBe' = battery'
             /\ TemperatureToBe = temperature /\ TemperatureToBe' = temperature'
             /\ LastUpdateToBe = lastUpdate /\ LastUpdateToBe' = lastUpdate'
  BY <1>0, <1>2 DEF ToBe
<1>3. ASSUME NEW t \in Callers, ChangeSpeed(t) PROVE [Updated!Next]_(Updated!vars)
  <2>1. Unlocked'
    <3>1. Disturbed(t) \in [Callers -> Local]
          /\ \A u \in Callers : Disturbed(t)[u].pc = call[u].pc
      BY <1>0 DEF Disturbed, Local
    <3> DEFINE r == [Idle EXCEPT !.pc = "read", !.own = speed']
    <3>2. r.pc = "read" /\ call' = [Disturbed(t) EXCEPT ![t] = r]
      BY <1>3 DEF ChangeSpeed, Idle
    <3> HIDE DEF r
    <3>3. \A u \in Callers : call'[u].pc = "read" \/ call'[u].pc = call[u].pc
      BY <3>1, <3>2
    <3> QED
      BY <1>3, <3>3 DEF ChangeSpeed, Unlocked, At
  <2>2. Unlocked /\ (SpeedUp \/ SlowDown)
    BY <1>3 DEF ChangeSpeed
  <2>3. CASE SpeedUp
    <3>1. Updated!SpeedUp
      BY <1>2, <2>1, <2>2, <2>3
         DEF SpeedUp, Least, Greatest, Updated!SpeedUp, Updated!Least, Updated!Greatest
    <3> QED
      BY <3>1 DEF Updated!Next
  <2>4. CASE SlowDown
    <3>1. Updated!SlowDown
      BY <1>2, <2>1, <2>2, <2>4 DEF SlowDown, Greatest, Updated!SlowDown, Updated!Greatest
    <3> QED
      BY <3>1 DEF Updated!Next
  <2> QED
    BY <2>2, <2>3, <2>4
<1>4. ASSUME NEW t \in Callers, Turn(t) \/ Recharge(t)
      PROVE  [Updated!Next]_(Updated!vars)
  <2>1. Unlocked /\ Unlocked'
    BY <1>4 DEF Turn, Recharge, Unlocked, At
  <2>2. CASE Turn(t)
    <3>1. PICK d \in {"LEFT", "RIGHT"} : SetDirection(d)
      BY <2>2 DEF Turn
    <3>2. Updated!SetDirection(d)
      BY <1>2, <2>1, <3>1 DEF SetDirection, Updated!SetDirection
    <3> QED
      BY <3>2 DEF Updated!Next
  <2>3. CASE Recharge(t)
    <3>1. Updated!RechargeBattery
      BY <1>2, <2>1, <2>3 DEF Recharge, RechargeBattery, Updated!RechargeBattery
    <3> QED
      BY <3>1 DEF Updated!Next
  <2> QED
    BY <1>4, <2>2, <2>3
(* The update, when it reads the clock and when it writes. *)
<1>5. ASSUME NEW t \in Callers, ReadClock(t) PROVE [Updated!Next]_(Updated!vars)
  <2>1. /\ Unlocked /\ UNCHANGED vars
        /\ call' = [call EXCEPT ![t].pc = "update", ![t].since = now]
    BY <1>5 DEF ReadClock
  <2>2. At(t, "update")' /\ call'[t].since = now
    BY <1>0, <2>1 DEF At, Local
  <2>3. /\ BatteryToBe = battery /\ TemperatureToBe = temperature
        /\ LastUpdateToBe = lastUpdate
    BY <1>0, <2>1 DEF ToBe
  <2>4. UNCHANGED <<speed, battery, temperature, direction, lastUpdate, now, chargedAt,
                    topSpeed>>
    BY <2>1 DEF vars
  <2>5. CASE now > lastUpdate
    <3>1. call'[t].since > lastUpdate'
      BY <2>2, <2>4, <2>5
    <3>2. /\ BatteryToBe' = NextBattery(battery', call'[t].since - lastUpdate', speed')
          /\ TemperatureToBe'
               = NextTemperature(temperature', call'[t].since - lastUpdate', speed')
          /\ LastUpdateToBe' = call'[t].since
      BY <1>0, <2>2, <3>1 DEF ToBe
    <3>3. /\ BatteryToBe' = NextBattery(BatteryToBe, now - LastUpdateToBe, speed)
          /\ TemperatureToBe' = NextTemperature(TemperatureToBe, now - LastUpdateToBe, speed)
          /\ LastUpdateToBe' = now
      BY <2>2, <2>3, <2>4, <3>2
    <3>4. now - LastUpdateToBe > 0
      BY <1>0, <2>3, <2>5 DEF TypeOK
    <3>5. Updated!UpdateBattery
      BY <2>4, <3>3, <3>4, SamePhysics DEF Updated!UpdateBattery, Updated!Update
    <3> QED
      BY <3>5 DEF Updated!Next
  <2>6. CASE ~ now > lastUpdate
    <3>1. ~ call'[t].since > lastUpdate'
      BY <2>2, <2>4, <2>6
    <3>2. UNCHANGED toBe
      BY <1>0, <2>2, <2>3, <2>4, <3>1 DEF ToBe, toBe
    <3> QED
      BY <1>1, <2>1, <3>2
  <2> QED
    BY <2>5, <2>6
<1>6. ASSUME NEW t \in Callers, Write(t) PROVE [Updated!Next]_(Updated!vars)
  <2>1. /\ At(t, "update") /\ call' = [call EXCEPT ![t].pc = "get", ![t].since = 0]
        /\ Update(call[t].since) \/ (call[t].since <= lastUpdate /\ UNCHANGED vars)
    BY <1>6 DEF Write
  <2>2. Unlocked'
    BY <1>0, <2>1 DEF OneUpdate, Unlocked, At, Local
  <2>3. /\ BatteryToBe' = battery' /\ TemperatureToBe' = temperature'
        /\ LastUpdateToBe' = lastUpdate'
    BY <1>0, <2>2 DEF ToBe
  <2>4. call[t].since \in Int /\ lastUpdate \in Int
    BY <1>0 DEF Local, TypeOK
  <2>5. CASE Update(call[t].since)
    <3>1. call[t].since > lastUpdate
      BY <2>4, <2>5 DEF Update
    <3>2. UNCHANGED toBe
      BY <1>0, <2>1, <2>3, <2>5, <3>1 DEF ToBe, toBe, Update
    <3> QED
      BY <2>5, <3>2 DEF Update, toBe, Updated!vars
  <2>6. CASE call[t].since <= lastUpdate /\ UNCHANGED vars
    <3>1. ~ call[t].since > lastUpdate
      BY <2>4, <2>6
    <3>2. UNCHANGED toBe
      BY <1>0, <2>1, <2>3, <2>6, <3>1 DEF ToBe, toBe, vars
    <3> QED
      BY <1>1, <2>6, <3>2
  <2> QED
    BY <2>1, <2>5, <2>6
(* What waits for no mutex, and the read of the state. *)
<1>7. ASSUME NEW t \in Callers, ReadSpeed(t) \/ AskData(t) \/ GetState(t) \/ Answer(t)
      PROVE  [Updated!Next]_(Updated!vars)
  <2>1. UNCHANGED vars /\ ~ At(t, "update")
    BY <1>7 DEF ReadSpeed, AskData, GetState, Answer, At
  <2>2. /\ \A u \in Callers \ {t} : call'[u] = call[u]
        /\ ~ At(t, "update")'
    <3>1. CASE ReadSpeed(t) \/ GetState(t)
      BY <1>0, <3>1 DEF ReadSpeed, GetState, At, Local
    <3>2. CASE AskData(t) \/ Answer(t)
      <4> DEFINE r == [Idle EXCEPT !.pc = "refresh", !.floor = now]
      <4>1. Idle.pc = "idle" /\ r.pc = "refresh"
        BY DEF Idle
      <4>2. call' = [call EXCEPT ![t] = r] \/ call' = [call EXCEPT ![t] = Idle]
        BY <3>2 DEF AskData, Answer
      <4> HIDE DEF r
      <4> QED
        BY <1>0, <4>1, <4>2 DEF At
    <3> QED
      BY <1>7, <3>1, <3>2
  <2>3. UNCHANGED toBe
    BY <2>1, <2>2, SteadyToBe DEF vars, At
  <2> QED
    BY <1>1, <2>1, <2>3
<1>8. ASSUME NEW d \in ClockSteps, Clock(d) PROVE [Updated!Next]_(Updated!vars)
  <2>1. Tick(d) /\ \A u \in Callers : /\ call'[u].pc = call[u].pc
                                      /\ call'[u].since = call[u].since
    BY <1>0, <1>8 DEF Clock, Local
  <2>2. UNCHANGED toBe
    BY <2>1, SteadyToBe DEF Tick, At
  <2>3. Updated!Tick(d)
    BY <2>1, <2>2 DEF Tick, toBe, Updated!Tick
  <2> QED
    BY <2>3 DEF Updated!Next
<1>9. CASE UNCHANGED serviceVars
  <2>1. UNCHANGED vars /\ UNCHANGED call
    BY <1>9 DEF serviceVars
  <2>2. UNCHANGED toBe
    BY <2>1, SteadyToBe DEF vars, At
  <2> QED
    BY <1>1, <2>1, <2>2
<1> QED
  BY <1>3, <1>4, <1>5, <1>6, <1>7, <1>8, <1>9 DEF ServiceNext, Step

(* The mutex makes the update, which reads the clock and writes its results *)
(* later, one operation: the threads implement the vehicle of the module    *)
(* Vehicle, whatever they and the clock do while an update is under way.    *)
THEOREM ServiceImplementsVehicle == ServiceSpec => VehicleRefined
<1>1. ServiceInit => Updated!Init
  <2>1. ServiceInit => Unlocked
    BY DEF ServiceInit, Unlocked, At, Idle
  <2> QED
    BY <2>1, ToBeHolds DEF ServiceInit, Init, Updated!Init, ToBe
<1>2. /\ ServiceInv /\ OneUpdate /\ OneUpdate' /\ [ServiceNext]_serviceVars
      => [Updated!Next]_(Updated!vars)
  BY RefinementStep
<1> QED
  BY <1>1, <1>2, ServiceInvariant, MutexInvariant, PTL
     DEF ServiceSpec, VehicleRefined, Updated!Spec

-----------------------------------------------------------------------------
(* The theorems of VehicleProofs hold of the fields themselves as well, in  *)
(* the middle of an update too: no second is charged twice, *)
THEOREM ServiceDrainIsBounded == ServiceSpec => []DrainBounded
<1>1. ServiceInit => Charging
  BY ChargingInit DEF ServiceInit
<1>2. ServiceInv /\ Charging /\ [ServiceNext]_serviceVars => Charging'
  BY StepOfFields, ChargingStep DEF ServiceInv
<1>3. Charging => DrainBounded
  BY DEF Charging
<1> QED
  BY <1>1, <1>2, <1>3, ServiceInvariant, PTL DEF ServiceSpec

(* and the battery gains by a recharge only.                                *)
THEOREM ServiceGainIsRecharge == ServiceSpec => GainIsRecharge
<1>1. ServiceInv /\ [ServiceNext]_serviceVars =>
        [battery' > battery => battery' = MaxBattery /\ lastUpdate' = now']_vars
  BY StepOfFields, GainStep DEF ServiceInv
<1> QED
  BY <1>1, ServiceInvariant, PTL DEF ServiceSpec, GainIsRecharge

-----------------------------------------------------------------------------
(* The vehicle and the locals of its callers are well typed.                *)
THEOREM ServiceTypeCorrect == ServiceSpec => []ServiceTypeOK
<1>1. ServiceInv => ServiceTypeOK
  BY DEF ServiceInv, ServiceTypeOK, Local, Places
<1> QED
  BY <1>1, ServiceInvariant, PTL

(* A command is answered with the speed it made, unless another command     *)
(* came between its critical section and its unlocked read of the speed.    *)
THEOREM AnswersOwnResult == ServiceSpec => []AnswerIsOwnResult
<1>1. ServiceInv => AnswerIsOwnResult
  BY DEF ServiceInv, AnswerIsOwnResult, Agrees, At
<1> QED
  BY <1>1, ServiceInvariant, PTL

(* No telemetry is older than the request for it, although it is made of    *)
(* two critical sections and the clock may be set back.                     *)
THEOREM TelemetryNotOutdated == ServiceSpec => []TelemetryIsCurrent
<1>1. ServiceInv => TelemetryIsCurrent
  BY DEF ServiceInv, TelemetryIsCurrent, Agrees, At, Local
<1> QED
  BY <1>1, ServiceInvariant, PTL
=============================================================================

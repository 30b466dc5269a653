-------------------------- MODULE LifecycleProofs --------------------------
(***************************************************************************)
(* Theorems of the life of the server process, for every set of clients    *)
(* and every number of signals.                                            *)
(***************************************************************************)
EXTENDS Lifecycle, SequenceTheorems, TLAPS

Starting == {"socket", "bind", "init", "start telemetry"}
Serving == {"start cleanup", "loop", "accept", "add", "spawn", "stop"}
Closing == {"close listener", "destroy", "close log", "exit"}

Calls == [on : {"main", "other"}, pc : {"flag", "close", "forget", "done"}]
HandlerPlaces == {"none", "top", "recv", "serve", "leave"}
Phases == {"idle", "open", "stalled", "closed"}

(* The types, and those of the places. *)
PlacesOK ==
  /\ TypeOK
  /\ main \in Starting \cup Serving \cup Closing
  /\ frames \in Seq(Calls)
  /\ handler \in [Clients -> HandlerPlaces]
  /\ phase \in [Clients -> Phases]

(* Nothing is torn down before the flag is cleared: no call of the signal   *)
(* handler has come as far as the close, main is not in cleanup_resources   *)
(* beyond the flag, and what main brings up stays as it left it.            *)
Whole ==
  running =>
    /\ \A k \in DOMAIN frames : frames[k].pc = "flag"
    /\ main \notin Closing
    /\ main \in {"init", "start telemetry"} \cup Serving => listener = "listening"
    /\ main \in {"start telemetry"} \cup Serving => log \in {"open", "null"}
    /\ \A c \in Clients : late[c] = 0
    /\ admitted = {}

(* What main has done of the teardown follows from its place. *)
Stages ==
  /\ destroyed => main \in {"close log", "exit"}
  /\ log = "closed" => main = "exit"
  /\ released # 0 => main = "exit"
  /\ telemetry # "none" => main \notin Starting

(* main has one client at a time, which is new to the server until it is    *)
(* added, and a client that is new has no handler.                          *)
New ==
  /\ \A c, d \in accepted : c = d
  /\ main = "add" => \A c \in accepted : phase[c] = "idle"
  /\ main = "spawn" => \A c \in accepted : phase[c] # "idle"
  /\ \A c \in Clients : phase[c] = "idle" => handler[c] = "none" /\ late[c] = 0

(* Who was served after the flag was cleared is not served again, and who   *)
(* was taken in after it not once: the handler has the flag before it, and  *)
(* main as well.                                                            *)
Late ==
  /\ \A c \in Clients : late[c] = 0 \/ (late[c] = 1 /\ handler[c] # "recv")
  /\ admitted # {} => main \notin {"accept", "add"}
  /\ \A c, d \in admitted : c = d
  /\ \A c \in admitted : late[c] = 0 /\ handler[c] # "recv"

LifeInv == PlacesOK /\ Whole /\ Stages /\ New /\ Late

(* The invariant is stronger than the properties that the runs check. *)
LEMMA LifeInvImplies == LifeInv => RunningIsWhole /\ WindsDown
<1> SUFFICES ASSUME LifeInv PROVE RunningIsWhole /\ WindsDown
  OBVIOUS
<1>1. RunningIsWhole
  BY DEF LifeInv, PlacesOK, Whole, Stages, RunningIsWhole, Starting, Serving, Closing
<1>2. WindsDown
  <2>1. \A c, d \in admitted : c = d
    BY DEF LifeInv, Late
  <2>2. ASSUME NEW c \in Clients PROVE late[c] <= IF c \in admitted THEN 0 ELSE 1
    <3>1. late[c] \in {0, 1} /\ (c \in admitted => late[c] = 0)
      BY DEF LifeInv, Late
    <3> QED
      BY <3>1
  <2> QED
    BY <2>1, <2>2 DEF WindsDown
<1> QED
  BY <1>1, <1>2

LEMMA LifeInvInit == Init => LifeInv
<1> SUFFICES ASSUME Init PROVE LifeInv
  OBVIOUS
<1>1. frames \in Seq(Calls) /\ Len(frames) = 0 /\ DOMAIN frames = {}
  BY DEF Init
<1>2. 0 \in 0 .. MaxLate /\ 0 \in 0 .. MaxSignals
  BY LifecycleAssumption
<1>3. TypeOK
  <2>1. late \in [Clients -> 0 .. MaxLate]
    BY <1>2 DEF Init
  <2>2. Len(frames) \in 0 .. MaxSignals
    BY <1>1, <1>2
  <2>3. accepted \subseteq Clients
    BY DEF Init
  <2>4. 0 \in 0 .. 1
    OBVIOUS
  <2> QED
    BY <2>1, <2>2, <2>3, <2>4 DEF Init, TypeOK
<1>4. PlacesOK
  BY <1>1, <1>3 DEF Init, PlacesOK, Starting, HandlerPlaces, Phases
<1>5. Whole
  BY <1>1 DEF Init, Whole, Closing, Serving
<1>6. Stages /\ New /\ Late
  BY DEF Init, Stages, New, Late
<1> QED
  BY <1>4, <1>5, <1>6 DEF LifeInv

-----------------------------------------------------------------------------
(* The three steps that count. *)
LEMMA AddStep ==
  ASSUME LifeInv, Add
  PROVE  LifeInv'
<1>1. /\ main = "add" /\ main' = "spawn"
      /\ UNCHANGED <<accepted, frames, handler, telemetry, running, serverSocket,
                     listener, log, held, destroyed, late, released, ended>>
  BY DEF Add, MainAt, Go, resources
<1>2. admitted = {} /\ \A c \in accepted : late[c] = 0 /\ handler[c] = "none"
  BY <1>1 DEF LifeInv, PlacesOK, TypeOK, New, Late
<1>3. admitted' \in {{}, accepted} /\ (running => admitted' = {})
  BY <1>2 DEF Add
<1>4. /\ phase' \in [Clients -> Phases]
      /\ \A c \in Clients : phase'[c] = IF c \in accepted THEN "open" ELSE phase[c]
  BY DEF Add, LifeInv, PlacesOK, Phases
<1>5. TypeOK'
  BY <1>1, <1>3 DEF LifeInv, PlacesOK, TypeOK
<1>6. PlacesOK'
  BY <1>1, <1>4, <1>5 DEF LifeInv, PlacesOK, Serving
<1>7. Whole'
  BY <1>1, <1>3 DEF LifeInv, Whole, Serving, Closing
<1>8. Stages'
  BY <1>1 DEF LifeInv, Stages, Starting
<1>9. New'
  BY <1>1, <1>4 DEF LifeInv, PlacesOK, TypeOK, New
<1>10. Late'
  BY <1>1, <1>2, <1>3 DEF LifeInv, New, Late
<1> QED
  BY <1>6, <1>7, <1>8, <1>9, <1>10 DEF LifeInv

LEMMA CloseLogStep ==
  ASSUME LifeInv, CloseLog
  PROVE  LifeInv'
<1>1. /\ main = "close log" /\ main' = "exit" /\ released' = released + 1
      /\ log' \in {log, "closed"}
      /\ UNCHANGED <<accepted, frames, handler, telemetry, running, serverSocket,
                     listener, held, destroyed, phase, late, admitted, ended>>
  BY DEF CloseLog, MainAt, Go
<1>2. released = 0
  BY <1>1 DEF LifeInv, Stages
<1>3. released' \in 0 .. 1
  <2>1. 0 + 1 \in 0 .. 1
    OBVIOUS
  <2> QED
    BY <1>1, <1>2, <2>1
<1>4. ~ running
  BY <1>1 DEF LifeInv, Whole, Closing
<1>5. TypeOK'
  BY <1>1, <1>3 DEF LifeInv, PlacesOK, TypeOK
<1>6. PlacesOK'
  BY <1>1, <1>5 DEF LifeInv, PlacesOK, Closing
<1>7. Whole'
  BY <1>1, <1>4 DEF Whole
<1>8. Stages' /\ Late'
  BY <1>1 DEF LifeInv, Stages, Late, Starting
<1>9. New'
  BY <1>1 DEF LifeInv, New
<1> QED
  BY <1>6, <1>7, <1>8, <1>9 DEF LifeInv

LEMMA ReceiveStep ==
  ASSUME LifeInv, NEW c \in Clients, Receive(c)
  PROVE  LifeInv'
<1>1. /\ handler[c] = "recv" /\ handler' = [handler EXCEPT ![c] = "serve"]
      /\ UNCHANGED <<main, accepted, frames, telemetry, running, serverSocket, listener,
                     log, held, destroyed, phase, admitted, released, ended>>
  BY DEF Receive, HandlerAt, HandlerTo, resources
<1>2. handler \in [Clients -> HandlerPlaces] /\ late \in [Clients -> 0 .. MaxLate]
  BY DEF LifeInv, PlacesOK, TypeOK
<1>3. late[c] = 0
  BY <1>1 DEF LifeInv, Late
<1>4. \/ late' = late
      \/ ~ running /\ 0 < MaxLate /\ late' = [late EXCEPT ![c] = 1]
  BY <1>3 DEF Receive
<1>5. late' \in [Clients -> 0 .. MaxLate] /\ late'[c] \in {0, 1}
      /\ \A d \in Clients \ {c} : late'[d] = late[d]
  <2>1. 0 < MaxLate => 1 \in 0 .. MaxLate
    BY LifecycleAssumption
  <2> QED
    BY <1>2, <1>3, <1>4, <2>1
<1>6. handler' \in [Clients -> HandlerPlaces] /\ handler'[c] = "serve"
      /\ \A d \in Clients \ {c} : handler'[d] = handler[d]
  BY <1>1, <1>2 DEF HandlerPlaces
<1>7. TypeOK'
  BY <1>1, <1>5 DEF LifeInv, PlacesOK, TypeOK
<1>8. PlacesOK'
  BY <1>1, <1>6, <1>7 DEF LifeInv, PlacesOK
<1>9. Whole'
  BY <1>1, <1>4 DEF LifeInv, Whole
<1>10. Stages'
  BY <1>1 DEF LifeInv, Stages
<1>11. New'
  BY <1>1, <1>5, <1>6 DEF LifeInv, New
<1>12. Late'
  <2>1. c \notin admitted
    BY <1>1 DEF LifeInv, Late
  <2> QED
    BY <1>1, <1>5, <1>6, <2>1 DEF LifeInv, PlacesOK, TypeOK, Late
<1> QED
  BY <1>8, <1>9, <1>10, <1>11, <1>12 DEF LifeInv

-----------------------------------------------------------------------------
(* The handler of a new client starts, or the client is removed again.      *)
LEMMA SpawnStep ==
  ASSUME LifeInv, Spawn
  PROVE  LifeInv'
<1>1. /\ main = "spawn" /\ main' = "loop" /\ accepted' = {}
      /\ UNCHANGED <<frames, telemetry, running, serverSocket, listener, log, held,
                     destroyed, late, admitted, released, ended>>
  BY DEF Spawn, MainAt, resources, history
<1>2. \A c \in accepted : phase[c] # "idle"
  BY <1>1 DEF LifeInv, New
<1>3. /\ phase \in [Clients -> Phases] /\ handler \in [Clients -> HandlerPlaces]
      /\ accepted \subseteq Clients
  BY DEF LifeInv, PlacesOK, TypeOK
<1>4. /\ handler' \in [Clients -> HandlerPlaces]
      /\ \A c \in Clients : handler'[c] = handler[c] \/ (c \in accepted /\ handler'[c] = "top")
  BY <1>3 DEF Spawn, HandlerPlaces
<1>5. /\ phase' \in [Clients -> Phases]
      /\ \A c \in Clients : phase'[c] = phase[c] \/ (c \in accepted /\ phase'[c] = "closed")
  BY <1>3 DEF Spawn, Phases
<1>6. PlacesOK'
  BY <1>1, <1>4, <1>5 DEF LifeInv, PlacesOK, TypeOK, Serving
<1>7. Whole' /\ Stages'
  BY <1>1 DEF LifeInv, Whole, Stages, Serving, Closing, Starting
<1>8. New'
  <2>1. ASSUME NEW c \in Clients, phase'[c] = "idle"
        PROVE  handler'[c] = "none" /\ late'[c] = 0
    <3>1. phase[c] = "idle" /\ c \notin accepted
      BY <1>2, <1>5, <2>1
    <3> QED
      BY <1>1, <1>4, <3>1 DEF LifeInv, New
  <2> QED
    BY <1>1, <2>1 DEF New
<1>9. Late'
  BY <1>1, <1>4 DEF LifeInv, PlacesOK, TypeOK, Late
<1> QED
  BY <1>6, <1>7, <1>8, <1>9 DEF LifeInv

-----------------------------------------------------------------------------
(* main on its way up, and in its loop. *)
LEMMA MainServes ==
  ASSUME LifeInv,
         \/ CreateSocket \/ BindAndListen \/ InitModules \/ StartTelemetry \/ StartCleanup
         \/ Loop \/ Accept \/ AcceptFails \/ Add \/ Spawn
  PROVE  LifeInv'
<1> USE DEF LifeInv, PlacesOK, TypeOK, Whole, Stages, New, Late, Starting, Serving, Closing,
            MainAt, Up, Go, history, process, resources
<1>1. CASE CreateSocket
  BY <1>1 DEF CreateSocket
<1>2. CASE BindAndListen
  BY <1>2 DEF BindAndListen
<1>3. CASE InitModules
  BY <1>3 DEF InitModules
<1>4. CASE StartTelemetry
  BY <1>4 DEF StartTelemetry
<1>5. CASE StartCleanup
  BY <1>5 DEF StartCleanup
<1>6. CASE Loop
  BY <1>6 DEF Loop
<1>7. CASE Accept
  BY <1>7 DEF Accept
<1>8. CASE AcceptFails
  BY <1>8 DEF AcceptFails
<1>9. CASE Add
  BY <1>9, AddStep
<1>10. CASE Spawn
  BY <1>10, SpawnStep
<1> QED
  BY <1>1, <1>2, <1>3, <1>4, <1>5, <1>6, <1>7, <1>8, <1>9, <1>10

(* cleanup_resources. *)
LEMMA MainStops ==
  ASSUME LifeInv, Stop \/ CloseListener \/ DestroyMutex \/ CloseLog \/ Exit
  PROVE  LifeInv'
<1> USE DEF LifeInv, PlacesOK, TypeOK, Whole, Stages, New, Late, Starting, Serving, Closing,
            MainAt, Up, Go, history, process, resources
<1>1. CASE Stop
  BY <1>1 DEF Stop
<1>2. CASE CloseListener
  BY <1>2 DEF CloseListener
<1>3. CASE DestroyMutex
  BY <1>3 DEF DestroyMutex
<1>4. CASE CloseLog
  BY <1>4, CloseLogStep
<1>5. CASE Exit
  BY <1>5 DEF Exit
<1> QED
  BY <1>1, <1>2, <1>3, <1>4, <1>5

-----------------------------------------------------------------------------
(* The signal handler. *)
LEMMA FrameMoves ==
  ASSUME LifeInv, NEW k \in DOMAIN frames,
         NEW pc \in {"flag", "close", "forget", "done"}, FrameTo(k, pc)
  PROVE  /\ frames' \in Seq(Calls) /\ Len(frames') = Len(frames)
         /\ UNCHANGED <<main, accepted, handler, telemetry>>
<1>1. frames \in Seq(Calls) /\ k \in 1 .. Len(frames)
  BY DEF LifeInv, PlacesOK
<1>2. frames[k] \in Calls
  BY <1>1, ElementOfSeq
<1>3. [frames[k] EXCEPT !.pc = pc] \in Calls
  BY <1>2 DEF Calls
<1>4. frames' = [frames EXCEPT ![k] = [frames[k] EXCEPT !.pc = pc]]
  BY DEF FrameTo
<1>5. frames' \in Seq(Calls) /\ Len(frames') = Len(frames)
  BY <1>1, <1>3, <1>4, ExceptSeq
<1> QED
  BY <1>5 DEF FrameTo

LEMMA SignalStep ==
  ASSUME LifeInv, Signal
  PROVE  LifeInv'
<1>1. PICK on \in {"main", "other"} : frames' = Append(frames, [on |-> on, pc |-> "flag"])
  BY DEF Signal
<1>2. [on |-> on, pc |-> "flag"] \in Calls /\ [on |-> on, pc |-> "flag"].pc = "flag"
  BY DEF Calls
<1>3. /\ frames' \in Seq(Calls) /\ Len(frames') = Len(frames) + 1
      /\ \A k \in 1 .. Len(frames) : frames'[k] = frames[k]
      /\ frames'[Len(frames) + 1].pc = "flag"
  BY <1>1, <1>2, AppendProperties DEF LifeInv, PlacesOK
<1>4. Len(frames') \in 0 .. MaxSignals
  <2>1. Len(frames) \in Nat /\ Len(frames) < MaxSignals
    BY LenProperties DEF Signal, LifeInv, PlacesOK
  <2> QED
    BY <1>3, <2>1, LifecycleAssumption
<1>5. running => \A k \in DOMAIN frames' : frames'[k].pc = "flag"
  <2>1. DOMAIN frames = 1 .. Len(frames) /\ DOMAIN frames' = 1 .. Len(frames')
    BY <1>3 DEF LifeInv, PlacesOK
  <2>2. Len(frames) \in Nat
    BY LenProperties DEF LifeInv, PlacesOK
  <2> QED
    <3>1. ASSUME running, NEW k \in DOMAIN frames' PROVE frames'[k].pc = "flag"
      <4>1. k \in 1 .. Len(frames) \/ k = Len(frames) + 1
        BY <1>3, <2>1, <2>2
      <4>2. \A j \in DOMAIN frames : frames[j].pc = "flag"
        BY <3>1 DEF LifeInv, Whole
      <4> QED
        BY <1>3, <2>1, <4>1, <4>2
    <3> QED
      BY <3>1
<1>6. UNCHANGED <<main, accepted, handler, telemetry, resources, phase, history, ended>>
  BY DEF Signal
<1>7. PlacesOK'
  BY <1>3, <1>4, <1>6 DEF LifeInv, PlacesOK, TypeOK, resources, history
<1>8. Whole'
  BY <1>5, <1>6 DEF LifeInv, Whole, resources, history
<1>9. Stages' /\ New' /\ Late'
  BY <1>6 DEF LifeInv, Stages, New, Late, resources, history
<1> QED
  BY <1>7, <1>8, <1>9 DEF LifeInv

LEMMA FrameStep ==
  ASSUME LifeInv, NEW k \in DOMAIN frames, Frame(k)
  PROVE  LifeInv'
<1> DEFINE place == IF serverSocket = "minus one" THEN "done" ELSE "forget"
<1>1. ~ running'
  <2>1. CASE ClearRunning(k)
    BY <2>1 DEF ClearRunning
  <2>2. CASE CloseNumber(k) \/ ForgetNumber(k)
    BY <2>2 DEF CloseNumber, ForgetNumber, FrameAt, LifeInv, Whole
  <2> QED
    BY <2>1, <2>2 DEF Frame
<1>2. /\ frames' \in Seq(Calls) /\ Len(frames') = Len(frames)
      /\ UNCHANGED <<main, accepted, handler, telemetry>>
  <2>1. FrameTo(k, "close") \/ FrameTo(k, place) \/ FrameTo(k, "done")
    BY DEF Frame, ClearRunning, CloseNumber, ForgetNumber
  <2> QED
    BY <2>1, FrameMoves
<1>3. /\ UNCHANGED <<log, held, destroyed, phase, history, ended>>
      /\ running' \in BOOLEAN
      /\ serverSocket' \in {serverSocket, "minus one"}
      /\ listener' \in {listener, "none"}
  BY DEF Frame, ClearRunning, CloseNumber, ForgetNumber, LifeInv, PlacesOK, TypeOK
<1>4. PlacesOK'
  BY <1>2, <1>3 DEF LifeInv, PlacesOK, TypeOK, history
<1>5. Whole'
  BY <1>1 DEF Whole
<1>6. Stages' /\ New' /\ Late'
  BY <1>2, <1>3 DEF LifeInv, Stages, New, Late, history
<1> QED
  BY <1>4, <1>5, <1>6 DEF LifeInv

-----------------------------------------------------------------------------
(* What a step of a client, of its handler or of the telemetry thread may   *)
(* change.                                                                  *)
LEMMA ThreadMoves ==
  ASSUME LifeInv,
         UNCHANGED <<main, accepted, frames, running, serverSocket, listener, log,
                     destroyed, late, admitted, released>>,
         held' \in BOOLEAN, ended' \in BOOLEAN,
         telemetry # "none" \/ UNCHANGED telemetry,
         handler' \in [Clients -> HandlerPlaces], phase' \in [Clients -> Phases],
         \A c \in Clients : handler'[c] = "none" \/ phase[c] # "idle",
         \A c \in Clients : phase'[c] = "idle" <=> phase[c] = "idle",
         \A c \in Clients : handler'[c] # "recv" \/ handler[c] = "recv" \/ running
  PROVE  LifeInv'
<1>1. TypeOK'
  BY DEF LifeInv, PlacesOK, TypeOK
<1>2. PlacesOK'
  BY <1>1 DEF LifeInv, PlacesOK
<1>3. Whole' /\ Stages'
  BY DEF LifeInv, Whole, Stages
<1>4. New'
  BY DEF LifeInv, PlacesOK, TypeOK, New
<1>5. Late'
  <2>1. CASE running
    BY <2>1 DEF LifeInv, Whole, Late
  <2>2. CASE ~ running
    BY <2>2 DEF LifeInv, PlacesOK, TypeOK, Late
  <2> QED
    BY <2>1, <2>2
<1> QED
  BY <1>2, <1>3, <1>4, <1>5 DEF LifeInv

(* The handlers. *)
LEMMA HandlerStep ==
  ASSUME LifeInv, NEW c \in Clients, Handler(c)
  PROVE  LifeInv'
<1>1. CASE Receive(c)
  BY <1>1, ReceiveStep
<1>2. CASE Top(c) \/ ReceiveEnd(c) \/ Serve(c) \/ Leave(c)
  <2>1. /\ UNCHANGED <<main, accepted, frames, running, serverSocket, listener, log,
                       destroyed, late, admitted, released, telemetry, held>>
        /\ ended' \in BOOLEAN
        /\ phase' \in {phase, [phase EXCEPT ![c] = "closed"]}
    BY <1>2 DEF Top, ReceiveEnd, Serve, Leave, HandlerTo, UseLog, resources, history,
                LifeInv, PlacesOK, TypeOK
  <2>2. PICK place \in HandlerPlaces :
          /\ handler' = [handler EXCEPT ![c] = place]
          /\ place # "recv" \/ running
    BY <1>2 DEF Top, ReceiveEnd, Serve, Leave, HandlerTo, HandlerPlaces
  <2>3. phase[c] # "idle"
    <3>1. handler[c] # "none"
      BY <1>2 DEF Top, ReceiveEnd, Serve, Leave, HandlerAt
    <3> QED
      BY <3>1 DEF LifeInv, New
  <2>4. phase \in [Clients -> Phases] /\ handler \in [Clients -> HandlerPlaces]
        /\ held \in BOOLEAN
    BY DEF LifeInv, PlacesOK, TypeOK
  <2>5. /\ phase' \in [Clients -> Phases]
        /\ \A d \in Clients : phase'[d] = "idle" <=> phase[d] = "idle"
    BY <2>1, <2>3, <2>4 DEF Phases
  <2>6. /\ handler' \in [Clients -> HandlerPlaces]
        /\ \A d \in Clients : handler'[d] = IF d = c THEN place ELSE handler[d]
    BY <2>2, <2>4
  <2>7. \A d \in Clients : handler'[d] = "none" \/ phase[d] # "idle"
    BY <2>3, <2>6 DEF LifeInv, New
  <2>8. \A d \in Clients : handler'[d] # "recv" \/ handler[d] = "recv" \/ running
    BY <2>2, <2>6
  <2> QED
    BY <2>1, <2>4, <2>5, <2>6, <2>7, <2>8, ThreadMoves
<1> QED
  BY <1>1, <1>2 DEF Handler

(* The telemetry thread, the clients, and steps that change nothing. *)
LEMMA OtherStep ==
  ASSUME LifeInv,
         Telemetry \/ (\E c \in Clients : Stall(c) \/ ReadAgain(c)) \/ UNCHANGED vars
  PROVE  LifeInv'
<1>1. /\ UNCHANGED <<main, accepted, frames, running, serverSocket, listener, log,
                     destroyed, late, admitted, released>>
      /\ UNCHANGED handler
      /\ telemetry # "none" \/ UNCHANGED telemetry
  BY DEF Telemetry, TelemetrySleep, TelemetryWake, StartBroadcast, EndBroadcast,
         LogBroadcast, TelemetryFrom, Stall, ReadAgain, vars, process, resources, history
<1>2. held' \in BOOLEAN /\ ended' \in BOOLEAN
  <2>1. held \in BOOLEAN /\ destroyed \in BOOLEAN /\ ended \in BOOLEAN
    BY DEF LifeInv, PlacesOK, TypeOK
  <2> QED
    BY <2>1 DEF Telemetry, TelemetrySleep, TelemetryWake, StartBroadcast, EndBroadcast,
           LogBroadcast, UseLog, Stall, ReadAgain, vars, process, resources
<1>3. phase' \in [Clients -> Phases]
      /\ \A c \in Clients : phase'[c] = "idle" <=> phase[c] = "idle"
  <2>1. phase \in [Clients -> Phases]
    BY DEF LifeInv, PlacesOK
  <2>2. CASE \E c \in Clients : Stall(c) \/ ReadAgain(c)
    BY <2>1, <2>2 DEF Stall, ReadAgain, Phases
  <2>3. CASE UNCHANGED phase
    BY <2>1, <2>3
  <2> QED
    BY <2>2, <2>3 DEF Telemetry, TelemetrySleep, TelemetryWake, StartBroadcast,
           EndBroadcast, LogBroadcast, TelemetryFrom, vars
<1>4. \A c \in Clients : handler'[c] = "none" \/ phase[c] # "idle"
  BY <1>1 DEF LifeInv, New
<1> QED
  BY <1>1, <1>2, <1>3, <1>4, ThreadMoves DEF LifeInv, PlacesOK

LEMMA LifeInvStep == LifeInv /\ [Next]_vars => LifeInv'
<1> SUFFICES ASSUME LifeInv, [Next]_vars PROVE LifeInv'
  OBVIOUS
<1> QED
  BY MainServes, MainStops, SignalStep, FrameStep, HandlerStep, OtherStep
     DEF Next, MainStep

LEMMA LifeInvHolds == Spec => []LifeInv
  BY LifeInvInit, LifeInvStep, PTL DEF Spec

-----------------------------------------------------------------------------
(* The flag, the resources and the counters have their types; with it, that *)
(* cleanup_resources runs once, however often it is asked for.              *)
THEOREM LifeTypeCorrect == Spec => []TypeOK
<1>1. LifeInv => TypeOK
  BY DEF LifeInv, PlacesOK
<1> QED
  BY <1>1, LifeInvHolds, PTL

(* While the flag is up the server that runs is whole, whichever signals    *)
(* and failures come in whichever order.                                    *)
THEOREM NothingTornDownEarly == Spec => []RunningIsWhole
  BY LifeInvHolds, LifeInvImplies, PTL

(* After the flag is cleared main takes in at most one client, which is not *)
(* served, and each other client has at most one request served.            *)
THEOREM ServerWindsDown == Spec => []WindsDown
  BY LifeInvHolds, LifeInvImplies, PTL
=============================================================================

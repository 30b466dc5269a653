----------------------------- MODULE Lifecycle -----------------------------
(***************************************************************************)
(* The life of the server process, server/server.c: main brings it up, the *)
(* signal handler asks it to stop, main tears it down while the other      *)
(* threads still run, and the return from main ends them all.              *)
(*                                                                         *)
(* The handler of SIGINT and SIGTERM interrupts main at any point, or, if  *)
(* main has the signal masked because it is inside the handler already,    *)
(* another thread.  signal() restarts accept after the handler: it looks   *)
(* the number of the listening socket up again and fails if it is closed.  *)
(*                                                                         *)
(* What the threads do with the table is in TelemetryServer; here a        *)
(* critical section is one step, save the broadcast, and what matters is   *)
(* which resources a thread uses and when: the table's mutex and the log.  *)
(* Descriptors of clients are left out: nothing is opened after the        *)
(* teardown has begun, so closing one of them twice does nothing.          *)
(***************************************************************************)
EXTENDS Integers, Sequences

CONSTANTS
  Clients,       \* clients that may connect, each once
  MaxLate,       \* bound of the model: requests of one client after the stop
  MaxSignals     \* bound of the model: signals sent to the process

ASSUME LifecycleAssumption == MaxLate \in Nat /\ MaxSignals \in Nat

VARIABLES
  running,      \* the flag of server.c
  serverSocket, \* socket_mgr.server_socket: 0 in static storage, a number, -1
  listener,     \* what that number refers to
  log,          \* logger.log_file
  held,         \* the broadcast holds the table's mutex
  destroyed,    \* the table's mutex is destroyed: locking it fails at once
  main, accepted,                        \* main's place; the client it took
  frames,       \* calls of signal_handler: where each runs and its place
  handler, telemetry,           \* places of the other threads
  phase,        \* of each client
  late,         \* history: requests received when running was cleared
  admitted,     \* history: the clients taken in when running was cleared
  released,     \* history: how often the resources were given back
  ended         \* the process is gone

process == <<main, accepted, frames, handler, telemetry>>
resources == <<running, serverSocket, listener, log, held, destroyed>>
history == <<late, admitted, released>>
vars == <<process, resources, phase, history, ended>>

Up == ~ ended

Active(k) == frames[k].pc # "done"
Interrupted == \E k \in DOMAIN frames : frames[k].on = "main" /\ Active(k)
MainAt(pc) == Up /\ main = pc /\ ~ Interrupted

(* pthread_mutex_lock: it waits for the broadcast, and on a mutex that was  *)
(* destroyed it fails, which nobody looks at.                               *)
Enter == destroyed \/ ~ held

(* logger_log.  On a closed file anything may happen, the end included.     *)
UseLog == IF log = "closed" THEN ended' \in BOOLEAN ELSE UNCHANGED ended

Init ==
  /\ running = TRUE
  /\ serverSocket = "zero"
  /\ listener = "none"
  /\ log = "unset"
  /\ held = FALSE /\ destroyed = FALSE
  /\ main = "socket" /\ accepted = {}
  /\ frames = <<>>
  /\ handler = [c \in Clients |-> "none"]
  /\ telemetry = "none"
  /\ phase = [c \in Clients |-> "idle"]
  /\ late = [c \in Clients |-> 0]
  /\ admitted = {}
  /\ released = 0
  /\ ended = FALSE

-----------------------------------------------------------------------------
(* main brings the server up. *)

Go(pc) == main' = pc /\ UNCHANGED <<accepted, frames, handler, telemetry>>

CreateSocket ==
  /\ MainAt("socket")
  /\ \/ serverSocket' = "number" /\ listener' = "socket" /\ Go("bind") /\ UNCHANGED ended
     \/ serverSocket' = "minus one" /\ Go("socket") /\ ended' = TRUE /\ UNCHANGED listener
  /\ UNCHANGED <<running, log, held, destroyed, phase, history>>

(* setsockopt, bind and listen on the number.  Each may fail, and does when *)
(* a signal has closed the socket meanwhile: main closes it and exits.      *)
BindAndListen ==
  /\ MainAt("bind")
  /\ \/ listener = "socket" /\ listener' = "listening" /\ Go("init") /\ UNCHANGED ended
     \/ listener' = "none" /\ Go("bind") /\ ended' = TRUE
  /\ UNCHANGED <<running, serverSocket, log, held, destroyed, phase, history>>

(* client_protocol_init, vehicle_init and the first entry of the log.       *)
(* Without a log the server goes on.                                        *)
InitModules ==
  /\ MainAt("init")
  /\ log' \in {"open", "null"}
  /\ Go("start telemetry")
  /\ UNCHANGED <<running, serverSocket, listener, held, destroyed, phase,
                 history, ended>>

StartTelemetry ==
  /\ MainAt("start telemetry")
  /\ \/ main' = "start cleanup" /\ telemetry' = "top"
     \/ main' = "stop" /\ UNCHANGED telemetry
  /\ UNCHANGED <<accepted, frames, handler, resources, phase,
                 history, ended>>

StartCleanup ==
  /\ MainAt("start cleanup")
  /\ Go("loop") \/ Go("stop")
  /\ UNCHANGED <<resources, phase, history, ended>>

-----------------------------------------------------------------------------
(* main accepts clients. *)

Loop ==
  /\ MainAt("loop")
  /\ Go(IF running THEN "accept" ELSE "stop")
  /\ UNCHANGED <<resources, phase, history, ended>>

(* A client that connects while the socket listens. *)
Accept ==
  /\ MainAt("accept")
  /\ listener = "listening"
  /\ \E c \in Clients : phase[c] = "idle" /\ accepted' = {c}
  /\ main' = "add"
  /\ UNCHANGED <<frames, handler, telemetry, resources, phase, history, ended>>

AcceptFails ==
  /\ MainAt("accept")
  /\ listener # "listening"
  /\ Go("loop")
  /\ UNCHANGED <<resources, phase, history, ended>>

Add ==
  /\ MainAt("add")
  /\ Enter
  /\ phase' = [c \in Clients |-> IF c \in accepted THEN "open" ELSE phase[c]]
  /\ admitted' = IF running THEN admitted ELSE admitted \cup accepted
  /\ Go("spawn")
  /\ UNCHANGED <<resources, late, released, ended>>

(* pthread_create, or, if it fails, the removal of the client again.        *)
Spawn ==
  /\ MainAt("spawn")
  /\ \/ /\ handler' = [c \in Clients |-> IF c \in accepted THEN "top" ELSE handler[c]]
        /\ UNCHANGED phase
     \/ /\ Enter
        /\ phase' = [c \in Clients |-> IF c \in accepted THEN "closed" ELSE phase[c]]
        /\ UNCHANGED handler
  /\ main' = "loop"
  /\ accepted' = {}
  /\ UNCHANGED <<frames, telemetry, resources, history, ended>>

-----------------------------------------------------------------------------
(* cleanup_resources, and the end of main. *)

(* Mutant: the flag is cleared by the signal handler only. *)
StopOnSignal ==
  /\ MainAt("stop")
  /\ Go("close listener")
  /\ UNCHANGED <<resources, phase, history, ended>>

(* running = 0; the sockets of the clients are closed without the mutex.    *)
Stop ==
  /\ MainAt("stop")
  /\ running' = FALSE
  /\ Go("close listener")
  /\ UNCHANGED <<serverSocket, listener, log, held, destroyed, phase,
                 history, ended>>

CloseListener ==
  /\ MainAt("close listener")
  /\ serverSocket' = "minus one"
  /\ listener' = "none"
  /\ Go("destroy")
  /\ UNCHANGED <<running, log, held, destroyed, phase, history, ended>>

(* client_protocol_cleanup: a mutex that is held is not destroyed (EBUSY).  *)
DestroyMutex ==
  /\ MainAt("destroy")
  /\ destroyed' = (destroyed \/ ~ held)
  /\ Go("close log")
  /\ UNCHANGED <<running, serverSocket, listener, log, held, phase,
                 history, ended>>

CloseLog ==
  /\ MainAt("close log")
  /\ log' = IF log = "open" THEN "closed" ELSE log
  /\ released' = released + 1
  /\ Go("exit")
  /\ UNCHANGED <<running, serverSocket, listener, held, destroyed, phase,
                 late, admitted, ended>>

(* vehicle_cleanup, and exit, which ends every thread.                      *)
Exit ==
  /\ MainAt("exit")
  /\ ended' = TRUE
  /\ UNCHANGED <<process, resources, phase, history>>

MainStep ==
  \/ CreateSocket \/ BindAndListen \/ InitModules \/ StartTelemetry \/ StartCleanup
  \/ Loop \/ AcceptFails \/ Add \/ Spawn
  \/ Stop \/ CloseListener \/ DestroyMutex \/ CloseLog \/ Exit

-----------------------------------------------------------------------------
(* The signals. *)

(* While main is inside the handler a signal of the same kind is masked     *)
(* there and goes to another thread, if there is one.                       *)
Signal ==
  /\ Up
  /\ Len(frames) < MaxSignals
  /\ \E on \in {"main", "other"} :
       /\ on = "other" => Interrupted /\ telemetry # "none"
       /\ frames' = Append(frames, [on |-> on, pc |-> "flag"])
  /\ UNCHANGED <<main, accepted, handler, telemetry, resources, phase,
                 history, ended>>

(* The frames on main's stack run last in, first out. *)
FrameAt(k, pc) ==
  /\ Up
  /\ frames[k].pc = pc
  /\ frames[k].on = "main" =>
       \A j \in DOMAIN frames : j > k /\ frames[j].on = "main" => ~ Active(j)

FrameTo(k, pc) ==
  /\ frames' = [frames EXCEPT ![k].pc = pc]
  /\ UNCHANGED <<main, accepted, handler, telemetry>>

ClearRunning(k) ==
  /\ FrameAt(k, "flag")
  /\ running' = FALSE
  /\ FrameTo(k, "close")
  /\ UNCHANGED <<serverSocket, listener, log, held, destroyed, phase,
                 history, ended>>

(* Mutant: the listening socket is left to main. *)
LeaveListener(k) ==
  /\ FrameAt(k, "close")
  /\ FrameTo(k, "done")
  /\ UNCHANGED <<resources, phase, history, ended>>

(* socket_manager_close: the test and the close, then the assignment.       *)
(* Before main has a socket the number is 0 and standard input is closed.   *)
CloseNumber(k) ==
  /\ FrameAt(k, "close")
  /\ FrameTo(k, IF serverSocket = "minus one" THEN "done" ELSE "forget")
  /\ listener' = IF serverSocket = "number" THEN "none" ELSE listener
  /\ UNCHANGED <<running, serverSocket, log, held, destroyed, phase, history,
                 ended>>

(* Mutant: the handler also gives the modules' resources back. *)
ForgetNumberReleases(k) ==
  /\ FrameAt(k, "forget")
  /\ serverSocket' = "minus one"
  /\ FrameTo(k, "done")
  /\ log' = IF log = "open" THEN "closed" ELSE log
  /\ released' = released + 1
  /\ UNCHANGED <<running, listener, held, destroyed, phase, late, admitted,
                 ended>>

ForgetNumber(k) ==
  /\ FrameAt(k, "forget")
  /\ serverSocket' = "minus one"
  /\ FrameTo(k, "done")
  /\ UNCHANGED <<running, listener, log, held, destroyed, phase,
                 history, ended>>

Frame(k) == ClearRunning(k) \/ CloseNumber(k) \/ ForgetNumber(k)

-----------------------------------------------------------------------------
(* The clients and their handlers. *)

Stall(c) ==
  /\ Up
  /\ phase[c] = "open"
  /\ phase' = [phase EXCEPT ![c] = "stalled"]
  /\ UNCHANGED <<process, resources, history, ended>>

ReadAgain(c) ==
  /\ Up
  /\ phase[c] = "stalled"
  /\ phase' = [phase EXCEPT ![c] = "open"]
  /\ UNCHANGED <<process, resources, history, ended>>

HandlerAt(c, pc) == Up /\ handler[c] = pc
HandlerTo(c, pc) ==
  /\ handler' = [handler EXCEPT ![c] = pc]
  /\ UNCHANGED <<main, accepted, frames, telemetry>>

(* Mutant: the handler serves on until its client leaves. *)
TopIgnoresFlag(c) ==
  /\ HandlerAt(c, "top")
  /\ HandlerTo(c, "recv")
  /\ UNCHANGED <<resources, phase, history, ended>>

Top(c) ==
  /\ HandlerAt(c, "top")
  /\ HandlerTo(c, IF running THEN "recv" ELSE "leave")
  /\ UNCHANGED <<resources, phase, history, ended>>

(* A thread inside recv is not woken when main closes its descriptor, and   *)
(* still gets what the client sends.                                        *)
Receive(c) ==
  /\ HandlerAt(c, "recv")
  /\ \/ running /\ UNCHANGED late
     \/ ~ running /\ late[c] < MaxLate /\ late' = [late EXCEPT ![c] = @ + 1]
  /\ HandlerTo(c, "serve")
  /\ UNCHANGED <<resources, phase, admitted, released, ended>>

ReceiveEnd(c) ==
  /\ HandlerAt(c, "recv")
  /\ phase' = [phase EXCEPT ![c] = "closed"]
  /\ HandlerTo(c, "leave")
  /\ UseLog
  /\ UNCHANGED <<resources, late, admitted, released>>

(* What a request needs: the sections of the table, and then the log.       *)
Serve(c) ==
  /\ HandlerAt(c, "serve")
  /\ Enter
  /\ HandlerTo(c, "top")
  /\ UseLog
  /\ UNCHANGED <<resources, phase, late, admitted, released>>

Leave(c) ==
  /\ HandlerAt(c, "leave")
  /\ Enter
  /\ HandlerTo(c, "none")
  /\ phase' = [phase EXCEPT ![c] = "closed"]
  /\ UNCHANGED <<resources, history, ended>>

Handler(c) == Top(c) \/ Receive(c) \/ ReceiveEnd(c) \/ Serve(c) \/ Leave(c)

-----------------------------------------------------------------------------
(* The telemetry thread.  (The cleanup thread logs nothing, holds the mutex *)
(* for an instant only and is waited for by nobody: it is left out.)        *)

TelemetryFrom(pc, next) ==
  /\ Up
  /\ telemetry = pc
  /\ telemetry' = next
  /\ UNCHANGED <<main, accepted, frames, handler, running, serverSocket,
                 listener, log, destroyed, phase, late, admitted, released>>

(* The flag is looked at before and after the sleep. *)
TelemetrySleep ==
  /\ TelemetryFrom("top", IF running THEN "sleep" ELSE "returned")
  /\ UNCHANGED <<held, ended>>

TelemetryWake ==
  /\ TelemetryFrom("sleep", IF running THEN "lock" ELSE "top")
  /\ UNCHANGED <<held, ended>>

StartBroadcast ==
  /\ TelemetryFrom("lock", "send")
  /\ Enter
  /\ held' = ~ destroyed
  /\ UNCHANGED <<ended>>

(* The broadcast waits inside the mutex for a client that does not read.    *)
EndBroadcast ==
  /\ TelemetryFrom("send", "log")
  /\ \A c \in Clients : phase[c] # "stalled"
  /\ held' = FALSE
  /\ UNCHANGED <<ended>>

LogBroadcast ==
  /\ TelemetryFrom("log", "top")
  /\ UseLog
  /\ UNCHANGED held

Telemetry ==
  TelemetrySleep \/ TelemetryWake \/ StartBroadcast \/ EndBroadcast \/ LogBroadcast

Next ==
  \/ MainStep
  \/ Accept
  \/ Signal
  \/ \E k \in DOMAIN frames : Frame(k)
  \/ \E c \in Clients : Stall(c) \/ ReadAgain(c) \/ Handler(c)
  \/ Telemetry

Spec == Init /\ [][Next]_vars

(* The kernel runs every thread, gives the mutex to each that waits for it, *)
(* and finishes a signal handler that was started; a client that stopped    *)
(* reading reads again.  Nothing is assumed of clients beyond that.         *)
FairSpec ==
  /\ Spec
  /\ SF_vars(MainStep)
  /\ \A k \in 1 .. MaxSignals : WF_vars(k \in DOMAIN frames /\ Frame(k))
  /\ SF_vars(Telemetry)
  /\ \A c \in Clients : WF_vars(ReadAgain(c))

-----------------------------------------------------------------------------
(* The type invariant. *)
TypeOK ==
  /\ running \in BOOLEAN /\ held \in BOOLEAN /\ destroyed \in BOOLEAN
  /\ serverSocket \in {"zero", "number", "minus one"}
  /\ listener \in {"none", "socket", "listening"}
  /\ log \in {"unset", "open", "null", "closed"}
  /\ accepted \subseteq Clients
  /\ Len(frames) \in 0 .. MaxSignals
  /\ late \in [Clients -> 0 .. MaxLate]
  /\ admitted \subseteq Clients
  /\ released \in 0 .. 1
  /\ ended \in BOOLEAN

(* As long as the flag is up nothing of the running server is torn down:    *)
(* its socket listens, its mutex can be locked and its log, if it has one,  *)
(* can be written, whichever signal or failure comes at whichever moment.   *)
RunningIsWhole ==
  running /\ telemetry # "none" =>
    listener = "listening" /\ ~ destroyed /\ log \in {"open", "null"}

(* After the flag is cleared the server winds down: main takes in at most   *)
(* one more client, and that one is not served; of each other client at     *)
(* most one more request is, the one its handler was waiting for.           *)
WindsDown ==
  /\ \A c, d \in admitted : c = d
  /\ \A c \in Clients : late[c] <= IF c \in admitted THEN 0 ELSE 1

(* A signal ends the server, whatever the threads are doing. *)
SignalEnds == (frames # <<>>) ~> ended

=============================================================================

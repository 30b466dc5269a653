# autonomous-hotwheels: formal models of the telemetry system

TLA+ models of the simulated autonomous vehicle, its multi-client telemetry
server (`server/*.c`) with its logger, start-up and shutdown, and the server's
Python and Java clients, the runs that model-check them with TLC, and the
theorems about them that TLAPS checks. Paths below are relative to the
repository's `src/`.

## 1. The system

One C process (`server/`) simulates a vehicle and serves a text protocol over
TCP (`docs/protocol.md`); graphical clients in Python and Java connect to it.
Anyone may ask for data; administrators, once authenticated, may steer the
vehicle, recharge it and list the users. Every 10 s the server sends telemetry
to every client.

| Component | Source | State | Operations |
|---|---|---|---|
| Vehicle simulation | `server/vehicle.c` | one `vehicle_state_t`: speed, battery, temperature, direction, `last_update`; its own mutex | speed up, slow down, set direction, update battery (also inside every read of the telemetry), recharge |
| Client table | `server/client_protocol.c` 65-216 | `client_manager_t`: 50 slots `{socket, ip, port, authenticated, is_admin, username, last_activity}`, `client_count`, a mutex | add, remove, find, update activity, authenticate, time out, send to all |
| Request protocol | `server/client_protocol.c` 218-430 | none | parse a request, check rights, dispatch, reply |
| Server threads | `server/server.c`, `server/socket_manager.c` | descriptors; the locals of each thread | `main` accepts; one `handle_client` per client; `telemetry_thread` (10 s); `cleanup_thread` (30 s, `CLIENT_TIMEOUT_SECONDS` = 300) |
| Logger | `server/client_protocol.c` 429-509 | the log file, its buffer, the `struct tm` of `localtime` | one line per request and reply |
| Start-up, shutdown | `server/server.c`, `socket_manager.c` | the `running` flags | `signal_handler`, `cleanup_resources` |
| Python client | `client_python/network_manager.py` | socket, `connected`, `running`, `authenticated`, `is_admin`, a receive thread | connect, disconnect, authenticate, request, receive |
| Java client | `client_java/NetworkManager.java` | socket, reader, writer, the flags `connected`, `authenticated`, `isAdmin`; one receive thread per session, which frames messages at blank lines | connect, disconnect, authenticate, request, receive |
| Windows | `client_python/main.py`, `client_java/Main.java` | widgets | presentation |

**Interaction.** A handler thread gets a *pointer to a slot* of the table
(`server.c:124`) and from then on reads `client->socket` from that slot, mostly
without the mutex: before `recv` (145), for the find and the activity update
(158), for the dispatch and the reply (168), to leave (172) and for a last
`close` (177). `main` reads `client_count` without the mutex (94) and adds in a
later critical section (105). The telemetry thread sends to all clients
*inside* the table's mutex. The cleanup thread frees the slots of silent
clients, and closes nothing. Handlers and the telemetry thread share the
vehicle behind its own mutex. In the Java client the event thread of the window
and the receive threads share the manager's fields without any lock: a receive
thread reads `connected` and `in` anew for each line
(`NetworkManager.java:161`), and after an error disconnects whatever is current
(171-173). The Python client is built alike, with a thread for each connect as
well. Every thread of the server writes the log, without a lock. The signal
handler runs on `main`'s stack, or on another thread's while `main` is inside
it; it clears `running` and closes the listening socket, and `main` then tears
down, while all other threads still run, what they use.

**Hard behaviours.** Slots, descriptors and threads have different lifetimes and
only the slot number ties them together: a time-out frees a slot whose handler
is blocked in `recv`; `main` may give that slot, and the kernel that descriptor
number, to the next client while the old handler lives on. Rights are a flag in
the slot, read after the mutex is released. A blocking send sits inside the
mutex that everything else needs. `send` may raise SIGPIPE. Truncation in the
battery formula depends on how often it is evaluated. A receive thread of the
Java client may outlive its session, and two sessions may be open at once.

**What makes each component correct.** Vehicle: the ranges, no second charged
twice, only a recharge charges up. Table: the counter equals the slots in use,
nobody inherits rights. Threads: a registered descriptor is its client's own,
each registered client has a handler, a command is carried out only for an
administrator, a reply goes to who asked, admission overlooks no free slot but
one that is just being counted off, clients that left leave the table, requests
are answered, connections accepted. Client: rights are those the server gave in
this session, messages arrive whole, what arrives is read, a lost connection is
noticed. Logger: what was logged is on the disk, in one piece if nobody else was
logging, and mixed with what was logged at the same time at most. Life cycle:
nothing is torn down while the server is up, and a signal ends it. The complete
list of what can go wrong, each at its line, is under `hazards` in
`PROJECT.json`, with the properties that cover it.

## 2. Modules

| Module | Models | Extends / instantiates |
|---|---|---|
| `Vehicle` | `vehicle.c` | |
| `VehicleProofs` | theorems | `Vehicle` |
| `VehicleService` | the threads that call `vehicle.c`; implements `Vehicle` | `Vehicle` |
| `VehicleServiceProofs` | theorems | `VehicleService`, `VehicleProofs` |
| `ClientManager` | the client table: **the abstract specification** the threads must implement | |
| `ClientManagerProofs` | theorems | `ClientManager` |
| `Protocol` | parsing and dispatch as operators | |
| `TelemetryServer` | all threads, TCP, descriptors | `Protocol`, `Mgr == INSTANCE ClientManager` |
| `TelemetryServerProofs` | theorems | `TelemetryServer`, `TP == INSTANCE ClientManagerProofs` |
| `Lifecycle` | start-up, signals and shutdown of the process | |
| `LifecycleProofs` | theorems | `Lifecycle` |
| `Logger` | `logger_log` in several threads | |
| `LoggerProofs` | theorems | `Logger` |
| `JavaClient` | `NetworkManager.java` and the buttons of `Main.java` | |
| `JavaClientProofs` | theorems | `JavaClient` |
| `PythonClient` | `network_manager.py` and the buttons of `main.py` | |
| `PythonClientProofs` | theorems | `PythonClient` |
| `MCVehicle`, `MCClientManager`, `MCTelemetryServer`, `MCLifecycle`, `MCLogger`, `MCJavaClient`, `MCPythonClient` | constants for TLC | |

### Vehicle

One action per function, since each is one critical section of `vehicle->mutex`:
`SpeedUp`, `SlowDown`, `SetDirection`, `UpdateBattery`, `RechargeBattery`, at the
moment at which it reads the clock if it does. `Tick` is the wall clock of
`time(NULL)`, which may also go back. The floating-point sums `dt/60.0 +
dt*v/600.0`, truncated, are written `dt*(10+v) \div 600`; the two were compared
for every speed the program can reach and every `dt` up to 20000 s. Calls that
change nothing (a command at a limit, an update with no time passed) are not
steps. `chargedAt` and `topSpeed` are history variables: when the battery was
last full, and the greatest speed since.

### VehicleService

Any number of threads over the fields of `Vehicle`. The update of the battery is
two steps with the mutex held between them, the read of the clock (97) and the
writes; the other critical sections are one step, and what lies outside the
mutex is a step of its own:

| Model | Code |
|---|---|
| `ChangeSpeed`, `ReadSpeed` | the section of `vehicle_speed_up` / `vehicle_slow_down`, and the read of the speed after it (`vehicle.c:69`, `85`) |
| `AskData`, `ReadClock`, `Write`, `GetState` | `vehicle_format_telemetry`: the update in two steps, and the read of the state in a second section (148, 153); the telemetry thread is one more caller |
| `Turn`, `Recharge` | the commands with a fixed answer |
| `Clock` | `time(NULL)`, which goes on while the mutex is held |

`own`, `disturbed` and `floor` are histories of a call: the speed its command
made, whether another command came before it read the speed, and the least
clock since its request for telemetry began.

*Refinement.* `VehicleRefined` says that the outcome is that of whole operations
of `Vehicle`, done one after the other. Its mapping (`BatteryToBe`,
`TemperatureToBe`, `LastUpdateToBe`) lets an update take effect when it reads the
clock, although the fields are written later and the clock has moved by then.
That needs the mutex: without it (mutant `NeverLocked`) a recharge or a change of
speed comes between the read and the write and is lost, or charged wrongly.

### ClientManager

One action per change of a slot: `AddClient`, `RemoveClient`, `UpdateActivity`,
`Authenticate`, and `TimeOut`, one slot of the loop of
`client_manager_cleanup_inactive`; `GrowStale` is the passing
of 300 s without a request. A slot is free when `socket = -1`. `authenticated`,
`is_admin` and `username` are always assigned together and are one flag,
`admin`; `ip` and `port` name the connection, `peer`; `last_activity` matters
only through the comparison with the time-out, `stale`. `RemoveClient` leaves a
free slot alone, `TimeOut` leaves `admin` behind, as the code does.

### Protocol

A request is one of the classes of text the parser and the dispatcher tell
apart. `CommandType` is the type *left in the structure*, which is what the
caller uses: text with no known verb keeps the type 0, `CMD_AUTH`.

### TelemetryServer

Each thread is a program counter with its locals:

| Model | Code |
|---|---|
| `main.pc`: accept, check, add, spawn | `server.c:81-132` |
| `handler[c].pc`: top, recv, touch, lookup, dispatch, execute, reply, leave, remove, count, close | `server.c:138-180`, `client_protocol.c:269-413` |
| `tpos`: the slot the broadcast is at | `client_protocol.c:167-179` |
| `TimeOut`, `CountTimedOut`, `sweeping` | the cleanup thread, `server.c:193-210` and the loop of `client_protocol.c:154-162` |
| `owed` | slots freed and still counted in `client_count` |
| `fd`, `backlog`, `phase`, `inbox` | the descriptor table and TCP (external) |

*Steps.* A critical section is one step, with two exceptions, during which
`TableFree` is false. The broadcast sends, and may block, inside the section, so
it is one step per slot. The sections that free slots (`remove_client`, and the
loop of the cleanup thread) free a slot in one step and count it off in another
(`CountOff`, `CountTimedOut`), because `main` reads `client_count` without the
mutex and may read it in between (`client_protocol.c:112` and 116, 158 and 159).
`clientCount` follows the slots, and what stands in memory, which `HasSpace`
reads, is `clientCount + owed`. Unlocked reads are separate steps wherever
another thread's step in between makes a difference; each definition says what
it joins and why nothing is lost. Handlers are named by the connection they
were started for but use only their slot, as the code does.

*The environment* (external definitions): `accept` returns the lowest free
descriptor; a thread inside `recv` keeps the connection it entered with; closing
a number that is not open does nothing. A send to a closed client succeeds and
provokes a reset; a reset that came by itself is reported once, by the next
`send` or `recv`, which fails (`socket_manager.c:76-79`) and leaves the process
alive; a send on a connection with nothing left to report (`broken`) raises
SIGPIPE, which ends the process (`crashed`). `Faults` selects what an instance
allows: `hangup` (clients close, with or without a reset), `stall` (a client
stops reading until TCP's buffers are full), `timeout` (300 s of silence), `slow`
(a thread may be held up for 300 s anywhere; without it time-outs happen only
while the threads concerned wait), `no_thread` (`pthread_create` fails).

*Composition.* The table's variables are the server's own; the threads change
them only through the actions of `Mgr`. That this is so in every interleaving,
that is, that each server step is *one* operation of the table or leaves it
alone, is the refinement `TableRefined`.

*The condition `~reused`.* `reused` becomes true when `main` gives a slot to a
new client while a handler still holds it, which needs a time-out or a handler
that is between freeing its slot and ending (`ReusedOnlyAfterLeaving`). From then
on two threads share a slot, and the properties about ownership fail;
`server_others_rights` shows how. The safety properties say that this is the
*only* way: until it happens everything holds, whatever else happens, time-outs
during a request included.

### JavaClient

| Model | Code |
|---|---|
| `cur` | `socket`, `in`, `out`: assigned together, read anew at every use |
| `connected`, `admin` | the flags; `authenticated` and `isAdmin` are always set alike |
| `ui`, `Open`, `Establish` | `connect` on the event thread: the fields, then the flags and the thread |
| `ClickDisconnect`, `UserCloses` | `disconnect` from the window: the flags, then the socket |
| `posted`, `UpdateStatus`, `offersConnect` | `invokeLater(updateConnectionStatus)` and the buttons it enables |
| `rcv[r].pc`: check, read, handle, failed, clearing, closing | `receiveMessages` of session `r`'s thread, and its call of `disconnect` |
| `link`, `lines`, `Answer`, `SendData`, `Leave` | TCP and the server (external) |

Each access to a shared field that another thread may change in between is a
step. A message of the server is its first line and the empty line that ends
it, as `protocol_handle_command` and `vehicle_format_telemetry` write them. A
socket that is closed or reset makes `readLine` throw, though buffered lines may
still come first.

*The condition `~overlap`.* `overlap` becomes true when a session is opened
beside a receive thread that still runs: by a second click before the button is
disabled, or because the old thread was not yet back from `readLine` or from
handling a message. Then two threads may read one stream, and the rights and
the framing can go wrong; as with `~reused` the safety properties say that this
is the only way.

### PythonClient

| Model | Code |
|---|---|
| `cur` | `self.socket`, read anew at every use: the session whose socket it is |
| `connected`, `admin`, `running` | the flags; `authenticated` and `is_admin` are always set alike |
| `con[k]`: create, connect, clear rights, read flag, show, posted | the thread of a click on Connect, the callback `_on_connected` it runs itself, and `_on_connect_result`, which it posts |
| `ui`, `ClickDisconnect`, `CloseSocket`, `Update` | `disconnect` on the window's thread |
| `rcv[k].pc`: check, read, handle, report | the receive thread of session `k`; `report` is the message box of an error |
| `link`, `arrived`, `Sends`, `Leave`, `Sockets` | TCP, the server, and sockets that Python closes when nothing refers to them (external) |

A message is its first word, the only thing that is looked at; a chunk holds
any number of those that have arrived, and the rest of it is dropped, as in the
code. `connect` sets `connected` (43) in one step (`Connect`) and clears the
rights (45) in the next (`StartReceiver`): between them the window and other
threads may find the client connected with rights left from the session before,
which a late `AUTH_SUCCESS` has set after its disconnect. `OwnRights` names that
moment as the one exception. *The condition `~overlap`* is as in the Java client:
a socket was made
beside a session that was connected or had a thread. *FirstSessionHears* is
stated while `running` is true, that is until the first disconnect;
`python_deaf` shows that afterwards it fails always.

### Logger

| Model | Code |
|---|---|
| `ReadClock`, `Convert`, `Converted` | `time` and `localtime` (`client_protocol.c:430-431`), which fills the one `struct tm` under the C library's lock |
| `FormatMinute`, `FormatSecond` | `strftime` (433), which reads that struct without the lock, field by field |
| `PrintPiece` | one `fprintf` (434, 444-448), atomic by the lock of the `FILE`; a full buffer goes to the disk |
| `Flush` | `fflush` and the return (449-457) |
| `Die` | the process ends anywhere (SIGPIPE): what is not on the disk is lost |

The struct has two parts, so that a reader can find halves of two times.
`overlap` is a history: the pairs of entries whose calls were under way at the
same time.

### Lifecycle

| Model | Code |
|---|---|
| `main`: socket, bind, init, start telemetry, start cleanup | `server.c:52-79`, `socket_manager.c:8-47`, each with its failure |
| loop, accept, add, spawn | `server.c:82-131` |
| stop, close listener, destroy, close log, exit | `cleanup_resources` (221-235) and the return from `main` |
| `frames`, `Signal`, `ClearRunning`, `CloseNumber`, `ForgetNumber` | calls of `signal_handler` (213-218), on `main`'s stack or, while `main` is in one, on another thread |
| `handler`, `telemetry` | the places at which those threads look at `running`, lock the table's mutex, or log |

What `TelemetryServer` details is one step here. A destroyed mutex cannot be
locked and the failure is ignored (`Enter`); use of the closed log may end the
process or not (`UseLog`: undefined in C, so both). `accept` is restarted after
a signal, since `signal` is used, and fails on the closed socket.

## 3. Runs

`CHECK_DEADLOCK FALSE` in all runs but `vehicle` and `client_table`: each
connection is opened once and sends at most `MaxMsgs` requests, clicks, messages
and log entries are bounded, and the process may end, so the model can stop.

| Run | Instance | Checks | Shows |
|---|---|---|---|
| `vehicle` | 2 threads, the code's limits, speed steps of 60, clock leaps of 290 s both ways within 580 s | `ServiceTypeOK`, `DrainBounded`, `AnswerIsOwnResult`, `TelemetryIsCurrent`, `GainIsRecharge`, `VehicleRefined` | every range is reached at both ends and kept; no second is charged twice, even when the clock is set back; answers are the command's own unless disturbed; telemetry is never older than its request; an update is one operation although the clock moves while it is under way |
| `client_table` | 3 slots, 2 descriptors, 2 peers | `TableTypeOK`, `CountExact` | callers in any order, any slot removed any number of times |
| `server_rights` | 2 connections, 1 slot, 2 requests each, time-outs anywhere | `OnlyOwnRights`, `ReplyToSender` | until a slot changes hands under a live handler nobody uses another's rights or gets another's reply |
| `server_faults` | 3 connections, 2 slots, 3 descriptors, hang-ups, time-outs, failed thread creation | `TypeOK`, `AddSucceeds`, `TableSound`, `EveryClientServed`, `NoOtherLeak`, `TableRefined`, `RefusalMissesOneSlot`, `ReusedOnlyAfterLeaving` | table, descriptors and threads stay together; only time-outs leak a descriptor; the unlocked check never lets an addition fail and overlooks at most the one slot that is being counted off; a slot changes hands under a handler only after a time-out or before its last close |
| `server_live` | 2 connections, 2 slots, hang-ups, stalls | `GoneIsRemoved`, `RequestIsAnswered`, `ConnectionIsAccepted` | clients that left are removed, requests answered, connections taken, or SIGPIPE has ended the server |
| `java_client` | 2 sessions, 2 messages of the server | `TypeOK`, `OwnRights`, `FramesIntact`, `LinesAreRead`, `ResetIsNoticed`, `MayConnectAgain` | rights and messages of a session are its own until sessions overlap; lines are read, resets noticed, and the user can connect again |
| `python_client` | 2 sessions, 2 messages of the server | `TypeOK`, `OwnRights`, `FirstSessionHears`, `EndIsTold`, `MayConnectAgain` | rights are the session's own until sockets overlap, but for the moment between two statements of `connect`; until the first disconnect what arrives is read, through timeouts and second clicks; the end is told; the user can connect again |
| `logger` | 2 threads, 3 entries, the end of a minute | `TypeOK`, `ReturnedIsOnDisk`, `AloneIsWhole`, `OnlyOverlapsMix` | what was logged survives the process; an entry that no other overlaps is one line with its own time; entries that overlap cut only each other's lines and times |
| `lifecycle` | 2 clients, 2 signals, 2 late requests per client | `TypeOK`, `RunningIsWhole`, `WindsDown`, `SignalEnds` | nothing is torn down while the flag is up; after it each client gets one request more at most, one more client is taken in at most, and that one is not served; a signal ends the server |

Runs expected to be violated; each states what a document says and finds a
behaviour of the code against it (`findings` in `PROJECT.json`):

| Run | Property | Counterexample |
|---|---|---|
| `server_others_rights` | `OnlyAdministratorsCommand` (`protocol.md:247`) | a timed-out client's thread works on with the rights of the next client in the slot |
| `server_hangup` | `SurvivesHangup` (`protocol.md:163`) | a client closes, a send to it is answered with a reset, and a second send ends the process; likewise a send after `recv` or a send has reported a reset |
| `python_deaf` | `EverySessionHears` (`network_manager.py:165`) | after one disconnect `running` stays false: the receive thread of every later session ends at once and nothing is read |

**Bounds.** Three connections for two slots is the least instance in which one
client is refused, a slot is freed by one thread while another is added, and a
freed descriptor number comes back in another slot. One slot with two connections
is the least in which rights or replies could cross between clients, and forces
every reuse. A descriptor more than slots lets `main` hold a connection that it
must refuse. Two requests per connection let one authenticate and then command;
one is enough where requests only need to be answered. `server_faults` sends no
request (`MaxMsgs = 0`): requests change only `stale` and `admin`, on which none
of its properties depend, and `server_rights` covers them. `Requests` is, per
run, one member of each class the property tells apart. Two sessions let one
follow or overlap another, and two server messages let rights be granted and
withdrawn, or a message be cut by the other session. Two threads that log and
three entries let an entry follow, alone, two that overlapped. Two signals let
the handler interrupt itself, and run beside itself; `MaxLate` is one more than
`WindsDown` allows. `MaxSpeed` is no multiple of the speed step of 60, so that
both clamps of the speed are reached, and 290 s at full speed take the battery
down by 53 and the temperature to the limit of 50, with fractions to truncate;
two such intervals take the battery to 0. The largest runs are `logger` (5.3
million distinct states), `vehicle` (2.7 million) and `lifecycle` (0.7 million).
Connections are interchangeable, so the safety runs use symmetry; the liveness
runs do not.

**Fairness** (`ServerFairness`). Strong fairness of `main`, of each handler, of
the telemetry and of the cleanup thread: a thread that wants the mutex is
enabled again and again while others take and release it, and does get it,
since the other holders sleep 10 s and 30 s between rounds. Weak fairness of
`GrowStale`: time passes. `ReadersReturn`, a fairness of the clients, is
assumed in `FairSpec` besides: a client that stopped reading reads again or
closes some day. Without it nothing is live, since a broadcast to a client that
does not read holds the table's mutex (section 5). `SpawnFails` has no fairness.
In `Lifecycle` (`FairSpec`) `main` and the telemetry thread run, strongly, as
above; a signal handler that has begun is finished; readers return. Nothing is
assumed of the handlers or of what clients send.
In `JavaClient` (`FairSpec`) the event thread goes on with what it has begun
(`EventThread`) and each receive thread runs (`Receiver`), weakly: no lock can
keep them waiting. In `PythonClient` likewise each connect thread, each receive
thread and the window's thread; for those that put up a message box this means
that the user closes it. Nothing else is assumed of the user or of the server.
Liveness properties have `crashed` as an alternative: SIGPIPE is a finding of
its own (`server_hangup`), not repeated in each.

**Mutants.** For every property of a passing run, `PROJECT.json` names a change
of one definition, as a plausible mistake in that code would make it (the
definitions commented "Mutant"), under which the same run finds the property
violated.

## 4. Theorems

All for every value of the constants, under the named assumptions
(`VehicleAssumption`, `ManagerAssumption`, `ServerAssumption`,
`LifecycleAssumption`, `LoggerAssumption`, `ClientAssumption`: ranges of the
constants, and that `NoConn`, `NoPeer` and `NoThread` are no connections and no
thread). Every safety and action property of the passing runs is here. The
properties of who owns what keep the condition of their definitions (`~reused`,
`~overlap`): the code does break them once a slot was given away under a live
handler, or sessions overlapped.

| Theorem | States |
|---|---|
| `VehicleProofs!VehicleTypeCorrect` | `Spec => []TypeOK` |
| `VehicleProofs!DrainIsBounded` | `Spec => []DrainBounded` |
| `VehicleProofs!GainOnlyByRecharge` | `Spec => GainIsRecharge` |
| `VehicleServiceProofs!ServiceTypeCorrect` | `ServiceSpec => []ServiceTypeOK` |
| `VehicleServiceProofs!ServiceImplementsVehicle` | `ServiceSpec => VehicleRefined` |
| `VehicleServiceProofs!ServiceDrainIsBounded` | `ServiceSpec => []DrainBounded` |
| `VehicleServiceProofs!ServiceGainIsRecharge` | `ServiceSpec => GainIsRecharge` |
| `VehicleServiceProofs!AnswersOwnResult` | `ServiceSpec => []AnswerIsOwnResult` |
| `VehicleServiceProofs!TelemetryNotOutdated` | `ServiceSpec => []TelemetryIsCurrent` |
| `ClientManagerProofs!TableTypeCorrect` | `TableSpec => []TableTypeOK` |
| `ClientManagerProofs!CountIsExact` | `TableSpec => []CountExact` |
| `TelemetryServerProofs!ServerTypeCorrect` | `Spec => []TypeOK` |
| `TelemetryServerProofs!ServerImplementsTable` | `Spec => TableRefined` |
| `TelemetryServerProofs!AddNeverFails` | `Spec => []AddSucceeds` |
| `TelemetryServerProofs!RefusesAtMostOneEarly` | `Spec => RefusalMissesOneSlot` |
| `TelemetryServerProofs!OnlyTimeoutsLeak` | `Spec => []NoOtherLeak` |
| `TelemetryServerProofs!DescriptorsAreOwn` | `Spec => []TableSound` |
| `TelemetryServerProofs!ListedAreServed` | `Spec => []EveryClientServed` |
| `TelemetryServerProofs!CommandsNeedRights` | `Spec => []OnlyOwnRights` |
| `TelemetryServerProofs!RepliesReachSender` | `Spec => []ReplyToSender` |
| `TelemetryServerProofs!GivenAwayAfterLeaving` | `Spec => ReusedOnlyAfterLeaving` |
| `LifecycleProofs!LifeTypeCorrect` | `Spec => []TypeOK` |
| `LifecycleProofs!NothingTornDownEarly` | `Spec => []RunningIsWhole` |
| `LifecycleProofs!ServerWindsDown` | `Spec => []WindsDown` |
| `LoggerProofs!LogTypeCorrect` | `Spec => []TypeOK` |
| `LoggerProofs!ReturnedSurvives` | `Spec => []ReturnedIsOnDisk` |
| `LoggerProofs!LonelyEntryWhole` | `Spec => []AloneIsWhole` |
| `LoggerProofs!MixingIsLocal` | `Spec => []OnlyOverlapsMix` |
| `JavaClientProofs!ClientTypes` | `Spec => []TypeOK` |
| `JavaClientProofs!RightsAreGranted` | `Spec => []OwnRights` |
| `JavaClientProofs!MessagesAreWhole` | `Spec => []FramesIntact` |
| `PythonClientProofs!ClientTypes` | `Spec => []TypeOK` |
| `PythonClientProofs!RightsAreGranted` | `Spec => []OwnRights` |

*Vehicle.* `DrainBounded` is inductive with `TypeOK` and `Charging`: the speed is
not above `topSpeed` and `lastUpdate` not before `chargedAt`. An update that
charges `dt` adds at most `(10 + topSpeed) * dt / 600` (`DrainOfInterval`), and
moves `lastUpdate` by exactly `dt`; a greater speed only raises the bound
(`GreaterSpeed`); a recharge resets both sides. That the update is skipped for
`dt <= 0` is what makes it hold when the clock is set back.

*Vehicle and its callers.* In the service an update writes what an earlier clock
made of the fields, so the step lemmas are stated of `Moves`, an operation of the
vehicle or an update at any time, and the bounds hold of the fields themselves
(`ServiceDrainIsBounded`, `ServiceGainIsRecharge`). The refinement rests on
`OneUpdate`: the mutex lets one update be under way at a time. Then nothing that
changes a field happens between the read of the clock and the write, so what the
fields are to be (`ToBe`) is fixed at the read: that step is the update of
`Vehicle`, and the write changes nothing there. `AnswerIsOwnResult` needs that an
undisturbed caller at "read" finds its own speed, `TelemetryIsCurrent` that a
caller at "update" has read a clock at or after its `floor`, and one at "get"
finds `lastUpdate` there, which no later update or recharge undoes: each puts
`lastUpdate` at a clock not below it, or at the present one, and `floor` is never
above the clock.

*Table.* `TableTypeOK` is not inductive: that the counter does not go below 0
when a slot is freed follows only from its being exact. `TableInv` is the types
of the arrays and `CountExact`; each operation changes `Registered` by a set
whose size is the change of the counter.

*Server.* `Inv` is `TableInv`, the types of the network and of the locals, which
locals are set at which place (`MainOK`, `PlaceOK`: e.g. a handler about to
remove holds a slot), `RoomLeft`: between main's unlocked check and its addition
the counter stays below the limit, and `CountingOK`: a handler that has a slot to
count off holds the mutex alone, so `owed` is 1 at most. `StepOnTable` shows that
each step is one table operation or none, so `TableInv` is preserved by the
table's own proof (`TP!InvStep`), and the refinement follows. `OthersOnlyFree`
shows that every operation but `AddClient` leaves the counter alone or lowers it,
so `RoomLeft` survives all threads, and with the exact count a free slot exists
(`RoomMeansFreeSlot`). A refusal means that `clientCount + owed` has reached the
limit, so at most `owed` slots are free, which is none or one
(`RefusesAtMostOneEarly`). `NoOtherLeak` is inductive together with
`SlotIsMains`: while `main` starts a thread, the slot it filled holds its
descriptor or, timed out, none, so that the failure of the thread closes what the
slot held. For the handlers nothing of the kind is needed: whatever slot they
clear, they close what it held.

*Server, who owns what.* `TableSound`, `EveryClientServed`, `OnlyOwnRights` and
`ReplyToSender` follow from one invariant, `OwnInv`. `Fresh` holds always: a
connection is not yet open, or waits in the backlog once, or is with `main`, or
has its handler; so a handler is never started twice for one connection. `Own`
holds until `reused`. A live handler finds in its slot its own client or nobody
(`Owns`); in the second case, which a time-out or its own removal brings about,
nothing but `Add` puts a client there, and that sets `reused`. No two handlers
have one slot (`Apart`), the slot that `main` has just filled is no handler's and
has no rights (`MainOwns`), and each registered slot is served and holds its
client's descriptor (`Served`). A handler reads its descriptor, the flag and the
index it looked up at different times without the mutex: `Owns` says of each
place what the value read earlier is still good for (the descriptor kept for the
reply is still its client's, the index is its slot or none, "execute" is reached
with granted rights only). That no other handler can spoil this is where `Apart`
is used: what another closes or removes is in another slot, with another
descriptor (`Unshared`). The condition cannot be dropped, even without time-outs:
between `remove` and the last close of a leaving handler `main` may give its slot
away. `GivenAwayAfterLeaving` says that there is no third way: until then
(`Away`) the slot of a live handler is in the table unless its client was timed
out or the handler is at that last close, and `main` fills free slots only.

*Life cycle.* `LifeInv` adds to the types the teardown that each place of `main`
and of the signal handler allows. `Whole`: while the flag is up, every call of
the signal handler is still at its first statement and `main` is not in
`cleanup_resources`, so nothing has been closed or destroyed. `Stages`: what
`main` has destroyed follows from its place, so it is not done twice. `New`: `main`
has one client at a time, and a client that is new has no handler and was not
served. `Late`: a client that was served after the flag was cleared is past the
test of the flag, and so is `main` after it took in a client; neither comes back
to it. A client taken in then starts, if its thread starts at all, at that test
with the flag cleared, so it is not served once.

*Logger.* `LogInv` follows each entry from the call to the disk. `Named`: an entry
has one call, and no piece of it is in the file twice. `Underway`: what a call
has printed and what it has still to print are disjoint and make up the entry, so
nothing is left to print when it flushes. `Settled`: of an entry whose call has
returned nothing waits in the buffer and no call is left, so that later pieces
are other entries' and the end of the process, which cuts the file at `flushed`,
takes nothing from it. Before the end only: what a call has printed may be lost
with it. `AloneIsWhole` needs more (`WholeInv`): while an entry that nobody has
overlapped is being written, its thread is the only live one, so the stamp it
took is what is in the struct, then in its line (`Stamped`), and what it has
printed is the end of the file, in order (`AtEnd`); when it returns all of that
has been flushed, and the file only grows behind it, or is cut behind it.
`OnlyOverlapsMix` is proved of all entries (`MixInv`). Calls under way at one time
overlap each other (`Meet`). What is printed of an entry is in order, and what
stands between its pieces overlaps it (`Ordered`), since what a call has still to
print comes after what it has printed, and whoever has printed since its first
piece was under way then (`Ahead`). A call that has passed its own conversion
finds in the struct what it, or a call under way beside it, put there
(`Traced`), so the stamps in the file are put together from the times of
overlapping calls (`Stampings`).

*Java client.* Of every session: its lines are the rest of a sequence of messages
(`Messagelike`), a login may be confirmed among them only if the server granted
it (`Received`), and nothing was asked or granted on a session that is not open
(`Unopened`, `Opening`). `Offered` is what lets the rights survive the user's
clicks: while connected, a client that asked for rights or has them is not
offered "Connect", so no session replaces it. Until an overlap (`Apart`): the only
running thread is that of the current session (`Alone`), what it has collected and
what it has still to read fit together at the boundaries of messages
(`Collecting`), and a new thread finds its session at such a boundary
(`Untouched`). `connect` clears the flag, and only that thread sets it, from a
message of its own session.

*Python client.* The same in outline, but a session is made by a thread of its
own that may be anywhere when the next click comes: `Unmade` says that nothing
knows of a socket before its thread makes it, `Begun` that nothing is connected
before the first. Until an overlap the threads at work are those of the current
session and read from it (`Alone`), the rights may be an earlier session's only
while its connect thread is at "clear rights", and a confirmed login that has
arrived, was read or was taken over was granted on it (`Known`).

TLC checked each of these invariants, as an invariant of the runs' instances or of
one larger, before it was proved.

*Only model-checked:* liveness, since fairness and `ENABLED` are out of the
prover's reach: `GoneIsRemoved`, `RequestIsAnswered` and `ConnectionIsAccepted` of
the server, `SignalEnds`, `LinesAreRead` and `ResetIsNoticed` of the Java client,
`FirstSessionHears` and `EndIsTold` of the Python client, and `MayConnectAgain` of
both. The counterexamples of section 3 are TLC's.

## 5. Not modelled

- Text: requests are classes, formatting of replies and telemetry is left out.
- A request split between two `recv` calls; the 1024-byte buffer of the list of
  users; exhaustion of descriptors after many time-outs.
- The clients' requests that change nothing there, a connect of the Java client
  that fails, closing the windows, and the display.
- The copy of the log on the console; build files.

Some divergences from the documents are in the models but stated by no run:

- Text that is no command is answered `AUTH_FAILED` (`Protocol!CommandType`),
  where `protocol.md:162` says `ERROR`.
- The drain for speed is twice the documented one. `vehicle.c:105` computes
  `dt * speed / 600.0`, which is 1 % a minute for every 10 km/h, 11 % a minute at
  100 km/h; its own comment, that of line 103, `README.md:215-221` and
  `docs/protocol.md:229-234` say 0.5 %, and 6 % at 100 km/h. `DrainBounded` bounds
  the drain by the code's rate, and does not hold of the documented one.
- That drain is truncated to whole percents at each update (`BatteryDrain`), so
  updates every 10 s take nothing from a slow vehicle, where `README.md:215` says
  "1% per minute when stationary". `DrainBounded` is the bound from above.
- Rights do not persist. `AddClient` clears the flag for every new connection, and
  nothing is kept by address, where `docs/protocol.md:214` has "Persistent
  credentials by IP" and line 257 "IP-based persistent authentication".
- `logger_log` prints time, type, address, message in this order (`Parts`,
  `client_protocol.c:434-448`), where `docs/protocol.md:219` and
  `README.md:346-348` give `[TIMESTAMP] [IP:PORT] [TYPE]` and the message.
  `AloneIsWhole` and `OnlyOverlapsMix` state the order of the code.
- A client may be refused although a slot is free: `server.c:94` reads the counter
  without the mutex and may read it after a slot was freed and before it is
  counted off (`HasSpace`), where `docs/protocol.md:212` promises 50 clients.
  `RefusalMissesOneSlot` says, and `RefusesAtMostOneEarly` proves, that it is one
  slot at most.
- The Python client may take itself for an administrator between
  `network_manager.py:43` and 45 of a new session, when a late `AUTH_SUCCESS` was
  handled after the disconnect before it (`Connect`); `OwnRights` names it.
- The descriptor of a client that was timed out is never closed (`TimeOut`), where
  `protocol.md:165` says "Close connection". `NoOtherLeak` says, and
  `OnlyTimeoutsLeak` proves, that nothing else is lost.
- A leaving handler closes whatever its slot holds (`CloseLast`), which may be the
  descriptor of the next client in it; hence the `reused` in `TableSound`.
- A broadcast blocks on a client that does not read, with the mutex held
  (`SendNext`), where `protocol.md:158` promises data every 10 seconds; hence
  `ReadersReturn` in the fairness.
- Threads use the table's mutex and the log after `cleanup_resources` has given
  them back (`Lifecycle!Enter`, `UseLog`), until `exit` ends them, where
  `server.c:212` speaks of a clean shutdown.
- Two speed commands at once may both answer the later speed (`ReadSpeed`); the
  time of a log entry may be another's while calls overlap (`FormatMinute`).
- After the server's close the Java client's thread ends (`ReadEnd`) and
  `connected` stays true until the user disconnects; in Python likewise, after a
  message box.

## 6. Plan

1. *Proofs.* The safety parts of the liveness arguments: that a thread which
   waits for the mutex waits for a broadcast only, and that what was cleared is
   not set again, which the liveness runs check as part of the whole.
2. *EndToEnd.* A client composed with the protocol: the client's `is_admin`
   against the server's flag when unknown commands are answered `AUTH_FAILED`,
   when a slot times out, when pipelined requests are dropped; an abstract
   specification for both clients.
3. *Splitting.* Requests that arrive in pieces, and messages in chunks, on both
   sides of the connection; the buffer of the list of users.

-------------------------- MODULE TelemetryServer --------------------------
(***************************************************************************)
(* The threads of server/server.c over the client table: main accepts      *)
(* connections and starts one handler thread per client, the handlers      *)
(* serve requests, the telemetry thread sends to every client with the     *)
(* table's mutex held, the cleanup thread times clients out.               *)
(*                                                                         *)
(* A handler is named by the connection it was started for, but all it     *)
(* holds is a pointer to a SLOT of the table (server.c:124, 140): every    *)
(* client->socket is read again from the slot, mostly without the mutex.   *)
(*                                                                         *)
(* Steps.  A critical section of the table's mutex is one step, with two   *)
(* exceptions during which nobody else enters (TableFree): the broadcast,  *)
(* which sends inside it and may block there, and the sections that free   *)
(* slots, because main reads client_count without the mutex and may read   *)
(* it after a slot was freed and before it is counted off.  The variable   *)
(* clientCount follows the slots; "owed" is what a thread inside such a    *)
(* section still has to take off client_count, so that what stands in      *)
(* memory is their sum.  An unlocked read of client->socket, is_admin or   *)
(* client_count is atomic in the build the Makefile makes, and is a step   *)
(* of its own or joined to a neighbour when the order of the two cannot be *)
(* told apart; the comments say which.  vehicle.c has a mutex of its own   *)
(* and a module of its own, Vehicle.                                       *)
(*                                                                         *)
(* External parts, modelled from the calls in socket_manager.c: TCP and    *)
(* the descriptor table.  accept returns the lowest free descriptor; close *)
(* of a number that is not open fails and does nothing; a thread inside    *)
(* recv keeps the connection it entered with, even if another thread       *)
(* closes the descriptor.  After a reset the error is reported once, by    *)
(* the next send or recv, which fails; a send after that raises SIGPIPE,   *)
(* which the server neither ignores nor handles: the process dies.  A      *)
(* client that has closed is sent to without an error, and answers with a  *)
(* reset, after which the next send raises SIGPIPE at once.                *)
(***************************************************************************)
EXTENDS Integers, Sequences, FiniteSets, Protocol

CONSTANTS
  Conns,        \* connections clients may open, each once
  NoConn,       \* no connection
  MaxClients,   \* slots in the table, 50 in the code
  Sockets,      \* descriptors that accept may return
  Requests,     \* the requests that clients send in this instance
  MaxMsgs,      \* bound of the model: requests sent on one connection
  Faults        \* what the environment may do in this instance

FaultKinds == {"hangup", "timeout", "stall", "no_thread", "slow"}

ASSUME ServerAssumption ==
  /\ NoConn \notin Conns
  /\ MaxClients \in Nat \ {0}
  /\ Sockets \subseteq Nat
  /\ Requests \subseteq AllRequests
  /\ MaxMsgs \in Nat
  /\ Faults \subseteq FaultKinds

VARIABLES
  socket, peer, admin, stale, clientCount,   \* the table, see ClientManager
  phase,     \* of each connection, as TCP and the client leave it
  inbox,     \* requests sent on a connection and not yet received
  sent,      \* number of requests sent on a connection
  backlog,   \* connections that wait for accept
  fd,        \* the connection that a descriptor refers to
  main,      \* main's place in its loop and its locals
  handler,   \* the same for each handler thread
  tpos,      \* the slot the broadcast is at, or NoSlot when none runs
  sweeping,  \* the cleanup thread is in its loop over the slots
  owed,      \* slots freed and not yet counted off in client_count
  crashed,   \* SIGPIPE has killed the process
  granted,   \* history: connections on which valid credentials came
  obeyed,    \* history: connections whose privileged request was carried out
  timedOut,  \* history: connections whose slot was timed out
  reused     \* history: a slot was given away while a handler held it

table == <<socket, peer, admin, stale, clientCount>>
network == <<phase, inbox, sent, backlog, fd>>
mutex == <<tpos, sweeping, owed>>
history == <<granted, obeyed, timedOut, reused>>
vars == <<table, network, main, handler, mutex, crashed, history>>

Mgr == INSTANCE ClientManager WITH Peers <- Conns, NoPeer <- NoConn

NoSocket == Mgr!NoSocket
NoSlot == Mgr!NoSlot
Slots == Mgr!Slots
NoMsg == "none"

(* Nobody holds the table's mutex: no broadcast runs, no sweep of the       *)
(* cleanup thread, and no handler has a slot to count off.                  *)
TableFree == tpos = NoSlot /\ ~ sweeping /\ owed = 0

Idle == [pc |-> "none", slot |-> NoSlot, file |-> NoConn, msg |-> NoMsg,
         sock |-> NoSocket, idx |-> NoSlot, reply |-> NoMsg]

MainIdle == [pc |-> "accept", conn |-> NoConn, sock |-> NoSocket, slot |-> NoSlot]

(* A dead process takes no step, and what its clients do no longer matters. *)
Up == ~ crashed

Live(c) == handler[c].pc # "none"
Queued == {backlog[k] : k \in DOMAIN backlog}

(* The server still has a hold on the connection: it waits for accept, a    *)
(* descriptor refers to it, or a thread is inside recv on it.               *)
Attached(c) ==
  \/ c \in Queued
  \/ \E s \in Sockets : fd[s] = c
  \/ \E d \in Conns : handler[d].pc = "recv" /\ handler[d].file = c

FreeSockets == {s \in Sockets : fd[s] = NoConn}

(* socket_close_connection: negative and unused numbers do nothing. *)
Closed(s) == [t \in Sockets |-> IF t = s THEN NoConn ELSE fd[t]]

(* socket_send_data on descriptor s: it blocks while the client does not    *)
(* read, fails on a number that is not open, and otherwise ends like this.  *)
(* A connection is                                                          *)
(*   gone    when the client has closed it,                                 *)
(*   reset   when a reset has come and no call has reported it yet,         *)
(*   broken  when nothing is left to report, so that a send is a SIGPIPE.   *)
(* (The reset that answers the first send to a closed client may still be   *)
(* under way when the next send is made.)                                   *)
Phase(s) == IF s \in Sockets /\ fd[s] # NoConn THEN phase[fd[s]] ELSE "none"

Over == {"gone", "reset", "broken"}

Blocked(s) == Phase(s) = "stalled"

SendOn(s) ==
  \/ /\ Phase(s) \in {"none", "open", "gone"}
     /\ UNCHANGED <<phase, crashed>>
  \/ /\ Phase(s) \in {"gone", "reset"}
     /\ phase' = [phase EXCEPT ![fd[s]] = "broken"]
     /\ UNCHANGED crashed
  \/ /\ Phase(s) = "broken"
     /\ crashed' = TRUE
     /\ UNCHANGED phase

-----------------------------------------------------------------------------
Init ==
  /\ Mgr!TableInit
  /\ phase = [c \in Conns |-> "idle"]
  /\ inbox = [c \in Conns |-> <<>>]
  /\ sent = [c \in Conns |-> 0]
  /\ backlog = <<>>
  /\ fd = [s \in Sockets |-> NoConn]
  /\ main = MainIdle
  /\ handler = [c \in Conns |-> Idle]
  /\ tpos = NoSlot
  /\ sweeping = FALSE
  /\ owed = 0
  /\ crashed = FALSE
  /\ granted = {}
  /\ obeyed = {}
  /\ timedOut = {}
  /\ reused = FALSE

-----------------------------------------------------------------------------
(* The clients. *)

Connect(c) ==
  /\ Up
  /\ phase[c] = "idle"
  /\ phase' = [phase EXCEPT ![c] = "open"]
  /\ backlog' = Append(backlog, c)
  /\ UNCHANGED <<table, inbox, sent, fd, main, handler, mutex, crashed, history>>

SendRequest(c, r) ==
  /\ Up
  /\ phase[c] \in {"open", "stalled"}
  /\ Attached(c)
  /\ sent[c] < MaxMsgs
  /\ inbox' = [inbox EXCEPT ![c] = Append(@, r)]
  /\ sent' = [sent EXCEPT ![c] = @ + 1]
  /\ UNCHANGED <<table, phase, backlog, fd, main, handler, mutex, crashed, history>>

(* The client closes.  If it had not read all it was sent, TCP resets the   *)
(* connection at once.                                                      *)
Hangup(c) ==
  /\ Up
  /\ "hangup" \in Faults
  /\ phase[c] \in {"open", "stalled"}
  /\ Attached(c)
  /\ \/ phase[c] = "open" /\ phase' = [phase EXCEPT ![c] = "gone"]
     \/ phase' = [phase EXCEPT ![c] = "reset"]
  /\ UNCHANGED <<table, inbox, sent, backlog, fd, main, handler, mutex, crashed, history>>

(* The client stops reading for so long that TCP's buffers are full.       *)
Stall(c) ==
  /\ Up
  /\ "stall" \in Faults
  /\ phase[c] = "open"
  /\ Attached(c)
  /\ phase' = [phase EXCEPT ![c] = "stalled"]
  /\ UNCHANGED <<table, inbox, sent, backlog, fd, main, handler, mutex, crashed, history>>

ReadAgain(c) ==
  /\ Up
  /\ phase[c] = "stalled"
  /\ phase' = [phase EXCEPT ![c] = "open"]
  /\ UNCHANGED <<table, inbox, sent, backlog, fd, main, handler, mutex, crashed, history>>

Client(c) ==
  \/ Connect(c)
  \/ \E r \in Requests : SendRequest(c, r)
  \/ Hangup(c)
  \/ Stall(c)
  \/ ReadAgain(c)

-----------------------------------------------------------------------------
(* main, the accept loop. *)

MainAt(pc) == Up /\ main.pc = pc

(* Mutant: main takes no connection while a handler is at work. *)
AcceptOneByOne ==
  /\ MainAt("accept")
  /\ backlog # <<>>
  /\ FreeSockets # {}
  /\ \A c \in Conns : ~ Live(c)
  /\ LET s == Mgr!Lowest(FreeSockets)
     IN  /\ fd' = [fd EXCEPT ![s] = Head(backlog)]
         /\ main' = [main EXCEPT !.pc = "check", !.conn = Head(backlog), !.sock = s]
  /\ backlog' = Tail(backlog)
  /\ UNCHANGED <<table, phase, inbox, sent, handler, mutex, crashed, history>>

(* socket_manager_accept_client.  Without a free descriptor accept fails    *)
(* and main tries again, with the connection still waiting.                 *)
Accept ==
  /\ MainAt("accept")
  /\ backlog # <<>>
  /\ FreeSockets # {}
  /\ LET s == Mgr!Lowest(FreeSockets)
     IN  /\ fd' = [fd EXCEPT ![s] = Head(backlog)]
         /\ main' = [main EXCEPT !.pc = "check", !.conn = Head(backlog), !.sock = s]
  /\ backlog' = Tail(backlog)
  /\ UNCHANGED <<table, phase, inbox, sent, handler, mutex, crashed, history>>

(* Mutants: the limit is off by one, either way. *)
HasSpaceOneTooMany == clientCount + owed <= MaxClients
HasSpaceOneTooFew == clientCount + owed < MaxClients - 1

(* server.c:94 reads client_count without the mutex: also while a broadcast *)
(* holds it, and while a freed slot is still counted.                       *)
HasSpace == clientCount + owed < MaxClients

CheckSpace ==
  /\ MainAt("check")
  /\ \/ /\ HasSpace
        /\ main' = [main EXCEPT !.pc = "add"]
        /\ UNCHANGED fd
     \/ /\ ~ HasSpace
        /\ main' = MainIdle
        /\ fd' = Closed(main.sock)
  /\ UNCHANGED <<table, phase, inbox, sent, backlog, handler, mutex, crashed, history>>

(* client_manager_add_client.  That it cannot fail here, so that lines      *)
(* 108-115 are dead, is the invariant AddSucceeds.                          *)
Add ==
  /\ MainAt("add")
  /\ TableFree
  /\ Mgr!AddClient(main.sock, main.conn)
  /\ main' = [main EXCEPT !.pc = "spawn", !.slot = Mgr!NewSlot]
  /\ reused' = (reused \/ \E c \in Conns : Live(c) /\ handler[c].slot = Mgr!NewSlot)
  /\ UNCHANGED <<network, handler, mutex, crashed, granted, obeyed, timedOut>>

(* pthread_create succeeds. *)
Spawn ==
  /\ MainAt("spawn")
  /\ handler' = [handler EXCEPT ![main.conn] =
                   [Idle EXCEPT !.pc = "top", !.slot = main.slot]]
  /\ main' = MainIdle
  /\ UNCHANGED <<table, network, mutex, crashed, history>>

(* Mutant: the descriptor is closed and the slot stays in use. *)
SpawnFailsKeepsSlot ==
  /\ "no_thread" \in Faults
  /\ MainAt("spawn")
  /\ fd' = Closed(main.sock)
  /\ main' = MainIdle
  /\ UNCHANGED <<table, phase, inbox, sent, backlog, handler, mutex, crashed, history>>

(* pthread_create fails.  The second close of line 127 is joined to the     *)
(* first, inside client_manager_remove_client: only main opens descriptors. *)
(* So is the counting off: only main reads client_count outside the mutex.  *)
SpawnFails ==
  /\ "no_thread" \in Faults
  /\ MainAt("spawn")
  /\ TableFree
  /\ Mgr!RemoveClient(main.slot)
  /\ fd' = Closed(main.sock)
  /\ main' = MainIdle
  /\ UNCHANGED <<phase, inbox, sent, backlog, handler, mutex, crashed, history>>

MainStep == Accept \/ CheckSpace \/ Add \/ Spawn

-----------------------------------------------------------------------------
(* A handler thread, handle_client(&clients[slot]). *)

At(c, pc) == Up /\ handler[c].pc = pc
MySocket(c) == socket[handler[c].slot]   \* client->socket, read just now

(* find_by_socket returns before it takes the mutex when s < 0. *)
MayFind(s) == s = NoSocket \/ TableFree

(* server.c:145-146.  A socket that is -1, or a number that is not open     *)
(* (recv fails), ends the loop.  The two reads are one step: if the slot    *)
(* is freed between them recv is given -1 and the loop ends as well.        *)
Read(c) ==
  /\ At(c, "top")
  /\ LET s == MySocket(c)
         f == IF s = NoSocket THEN NoConn ELSE fd[s]
     IN  handler' = [handler EXCEPT ![c].pc = IF f = NoConn THEN "leave" ELSE "recv",
                                    ![c].file = f]
  /\ UNCHANGED <<table, network, main, mutex, crashed, history>>

(* recv returns what has arrived: one request or several that TCP has put   *)
(* together.  protocol_parse_command compares the start of the buffer only, *)
(* so the requests after the first are dropped.                             *)
Receive(c) ==
  /\ At(c, "recv")
  /\ LET f == handler[c].file
     IN  \E k \in 1 .. Len(inbox[f]) :
           /\ inbox' = [inbox EXCEPT ![f] = SubSeq(@, k + 1, Len(@))]
           /\ handler' = [handler EXCEPT ![c].pc = "touch", ![c].msg = Head(inbox[f])]
  /\ UNCHANGED <<table, phase, sent, backlog, fd, main, mutex, crashed, history>>

(* recv reports a reset once. *)
Reported(c) == IF phase[c] = "reset" THEN [phase EXCEPT ![c] = "broken"] ELSE phase

(* Mutant: only an error ends the loop, 0 is tried again (< 0 for <= 0). *)
ReceiveEndRetries(c) ==
  /\ At(c, "recv")
  /\ inbox[handler[c].file] = <<>>
  /\ phase[handler[c].file] \in Over
  /\ phase' = Reported(handler[c].file)
  /\ handler' = [handler EXCEPT
       ![c].pc = IF phase[handler[c].file] = "reset" THEN "leave" ELSE "top",
       ![c].file = NoConn]
  /\ UNCHANGED <<table, inbox, sent, backlog, fd, main, mutex, crashed, history>>

(* recv returns -1 when it reports a reset, 0 after the client's close and  *)
(* once the reset has been reported.                                        *)
ReceiveEnd(c) ==
  /\ At(c, "recv")
  /\ inbox[handler[c].file] = <<>>
  /\ phase[handler[c].file] \in Over
  /\ phase' = Reported(handler[c].file)
  /\ handler' = [handler EXCEPT ![c].pc = "leave", ![c].file = NoConn]
  /\ UNCHANGED <<table, inbox, sent, backlog, fd, main, mutex, crashed, history>>

(* server.c:158-161 and the read of client->socket at 168.  A slot freed    *)
(* between the find and the update is left alone by the update, as if it    *)
(* had been freed before the find.                                          *)
Touch(c) ==
  /\ At(c, "touch")
  /\ MayFind(MySocket(c))
  /\ LET i == Mgr!FindBySocket(MySocket(c))
     IN  IF i = NoSlot THEN UNCHANGED table ELSE Mgr!UpdateActivity(i)
  /\ handler' = [handler EXCEPT ![c].pc = "lookup", ![c].sock = MySocket(c)]
  /\ UNCHANGED <<network, main, mutex, crashed, history>>

(* client_protocol.c:275 *)
Lookup(c) ==
  /\ At(c, "lookup")
  /\ MayFind(handler[c].sock)
  /\ handler' = [handler EXCEPT ![c].pc = "dispatch",
                                ![c].idx = Mgr!FindBySocket(handler[c].sock)]
  /\ UNCHANGED <<table, network, main, mutex, crashed, history>>

(* The switch of protocol_handle_command, up to the reply or, for a         *)
(* privileged request that passes the check, up to the command itself.      *)

Reply(c, r) == handler' = [handler EXCEPT ![c].pc = "reply", ![c].reply = r]

IsAuth(c) == CommandType(handler[c].msg) = "CMD_AUTH"
ForMembers(c) == IsAuth(c) \/ NeedsAdmin(handler[c].msg)

ClientNotFound(c) ==
  /\ At(c, "dispatch")
  /\ ForMembers(c) /\ handler[c].idx = NoSlot
  /\ Reply(c, "ERROR")
  /\ UNCHANGED <<table, network, main, mutex, crashed, history>>

(* authenticate_client returns 1 whether or not the slot is still in use.  *)
AuthSucceeds(c) ==
  /\ At(c, "dispatch")
  /\ IsAuth(c) /\ handler[c].idx # NoSlot
  /\ CredentialsMatch(handler[c].msg)
  /\ TableFree
  /\ Mgr!Authenticate(handler[c].idx)
  /\ Reply(c, "AUTH_SUCCESS")
  /\ granted' = granted \cup {handler[c].file}
  /\ UNCHANGED <<network, main, mutex, crashed, obeyed, timedOut, reused>>

AuthFails(c) ==
  /\ At(c, "dispatch")
  /\ IsAuth(c) /\ handler[c].idx # NoSlot
  /\ ~ CredentialsMatch(handler[c].msg)
  /\ Reply(c, "AUTH_FAILED")
  /\ UNCHANGED <<table, network, main, mutex, crashed, history>>

(* get_client takes the mutex only to compute a pointer; is_admin is read   *)
(* after it is released, and the command is carried out later still.        *)
MayCommand(c) == admin[handler[c].idx]

CheckAdmin(c) ==
  /\ At(c, "dispatch")
  /\ NeedsAdmin(handler[c].msg) /\ handler[c].idx # NoSlot
  /\ TableFree
  /\ IF MayCommand(c) THEN handler' = [handler EXCEPT ![c].pc = "execute"]
                      ELSE Reply(c, "ERROR")
  /\ UNCHANGED <<table, network, main, mutex, crashed, history>>

AnswerAnyone(c) ==
  /\ At(c, "dispatch")
  /\ ~ ForMembers(c)
  /\ Reply(c, OpenReply(handler[c].msg))
  /\ UNCHANGED <<table, network, main, mutex, crashed, history>>

(* The vehicle's own step is an action of Vehicle; the list of users is     *)
(* built with the table's mutex held.                                       *)
Execute(c) ==
  /\ At(c, "execute")
  /\ handler[c].msg = "LIST_USERS" => TableFree
  /\ \E r \in AdminReplies(handler[c].msg) : Reply(c, r)
  /\ obeyed' = obeyed \cup {handler[c].file}
  /\ UNCHANGED <<table, network, main, mutex, crashed, granted, timedOut, reused>>

(* protocol_send_response, on the number read before the request was        *)
(* handled; whatever comes of it the loop goes on.                          *)
SendReply(c) ==
  /\ At(c, "reply")
  /\ ~ Blocked(handler[c].sock)
  /\ SendOn(handler[c].sock)
  /\ handler' = [handler EXCEPT ![c] =
                   [Idle EXCEPT !.pc = "top", !.slot = handler[c].slot]]
  /\ UNCHANGED <<table, inbox, sent, backlog, fd, main, mutex, history>>

(* Mutant: the handler closes its socket and does not leave the table. *)
LeaveRegistered(c) ==
  /\ At(c, "leave")
  /\ handler' = [handler EXCEPT ![c].pc = "close"]
  /\ UNCHANGED <<table, network, main, mutex, crashed, history>>

(* server.c:172 *)
Leave(c) ==
  /\ At(c, "leave")
  /\ MayFind(MySocket(c))
  /\ LET i == Mgr!FindBySocket(MySocket(c))
     IN  handler' = [handler EXCEPT ![c].pc = IF i = NoSlot THEN "close" ELSE "remove",
                                    ![c].idx = i]
  /\ UNCHANGED <<table, network, main, mutex, crashed, history>>

(* Mutant: the slot is cleared by hand and never counted off. *)
RemoveUncounted(c) ==
  /\ At(c, "remove")
  /\ TableFree
  /\ socket' = [socket EXCEPT ![handler[c].idx] = NoSocket]
  /\ fd' = Closed(socket[handler[c].idx])
  /\ handler' = [handler EXCEPT ![c].pc = "close", ![c].idx = NoSlot]
  /\ UNCHANGED <<peer, admin, stale, clientCount, phase, inbox, sent, backlog,
                 main, mutex, crashed, history>>

(* Mutant: the descriptor is left to the last close, which finds -1. *)
RemoveKeepsOpen(c) ==
  /\ At(c, "remove")
  /\ TableFree
  /\ Mgr!RemoveClient(handler[c].idx)
  /\ IF handler[c].idx \in Mgr!Registered
     THEN owed' = 1 /\ handler' = [handler EXCEPT ![c].pc = "count", ![c].idx = NoSlot]
     ELSE handler' = [handler EXCEPT ![c].pc = "close", ![c].idx = NoSlot] /\ UNCHANGED owed
  /\ UNCHANGED <<network, main, tpos, sweeping, crashed, history>>

(* Mutant: the loop is not left, and goes on without a slot. *)
RemoveServesOn(c) ==
  /\ At(c, "remove")
  /\ TableFree
  /\ Mgr!RemoveClient(handler[c].idx)
  /\ fd' = Closed(socket[handler[c].idx])
  /\ handler' = [handler EXCEPT ![c].pc = "top", ![c].idx = NoSlot]
  /\ UNCHANGED <<phase, inbox, sent, backlog, main, mutex, crashed, history>>

(* client_manager_remove_client closes what the slot holds NOW and clears   *)
(* it.  A slot that is free already is left alone.                          *)
Remove(c) ==
  /\ At(c, "remove")
  /\ TableFree
  /\ Mgr!RemoveClient(handler[c].idx)
  /\ fd' = Closed(socket[handler[c].idx])
  /\ IF handler[c].idx \in Mgr!Registered
     THEN owed' = 1 /\ handler' = [handler EXCEPT ![c].pc = "count", ![c].idx = NoSlot]
     ELSE handler' = [handler EXCEPT ![c].pc = "close", ![c].idx = NoSlot] /\ UNCHANGED owed
  /\ UNCHANGED <<phase, inbox, sent, backlog, main, tpos, sweeping, crashed, history>>

(* client_count-- (client_protocol.c:116), and the mutex is released. *)
CountOff(c) ==
  /\ At(c, "count")
  /\ owed' = 0
  /\ handler' = [handler EXCEPT ![c].pc = "close"]
  /\ UNCHANGED <<table, network, main, tpos, sweeping, crashed, history>>

(* server.c:177 closes client->socket, read once more: -1, unless main has  *)
(* given the slot to a new client meanwhile.                                *)
CloseLast(c) ==
  /\ At(c, "close")
  /\ fd' = Closed(MySocket(c))
  /\ handler' = [handler EXCEPT ![c] = Idle]
  /\ UNCHANGED <<table, phase, inbox, sent, backlog, main, mutex, crashed, history>>

Handler(c) ==
  \/ Read(c)
  \/ Receive(c)
  \/ ReceiveEnd(c)
  \/ Touch(c)
  \/ Lookup(c)
  \/ ClientNotFound(c)
  \/ AuthSucceeds(c)
  \/ AuthFails(c)
  \/ CheckAdmin(c)
  \/ AnswerAnyone(c)
  \/ Execute(c)
  \/ SendReply(c)
  \/ Leave(c)
  \/ Remove(c)
  \/ CountOff(c)
  \/ CloseLast(c)

-----------------------------------------------------------------------------
(* The telemetry thread: client_manager_send_to_all takes the mutex and     *)
(* sends to every registered slot in turn.                                  *)

StartBroadcast ==
  /\ Up
  /\ TableFree
  /\ tpos' = 0
  /\ UNCHANGED <<table, network, main, handler, sweeping, owed, crashed, history>>

(* Mutant: the mutex is not released after the last slot. *)
SendNextKeepsLock ==
  /\ Up
  /\ tpos # NoSlot
  /\ ~ Blocked(socket[tpos])
  /\ SendOn(socket[tpos])
  /\ tpos' = IF tpos = MaxClients - 1 THEN tpos ELSE tpos + 1
  /\ UNCHANGED <<table, inbox, sent, backlog, fd, main, handler, sweeping, owed, history>>

SendNext ==
  /\ Up
  /\ tpos # NoSlot
  /\ ~ Blocked(socket[tpos])
  /\ SendOn(socket[tpos])
  /\ tpos' = IF tpos = MaxClients - 1 THEN NoSlot ELSE tpos + 1
  /\ UNCHANGED <<table, inbox, sent, backlog, fd, main, handler, sweeping, owed, history>>

Telemetry == StartBroadcast \/ SendNext

(* The cleanup thread.  Its loop frees the slots that are inactive, from    *)
(* the first to the last, and counts each off before it goes on, all with   *)
(* the mutex held.  (The loop of server.c:202-207 has an empty body.)       *)

MaySweep == Up /\ Mgr!Inactive # {} /\ (TableFree \/ (sweeping /\ owed = 0))
NextInactive == Mgr!Lowest(Mgr!Inactive)

(* Mutant: the cleanup thread closes the descriptors it times out, while    *)
(* their handlers still hold the numbers.                                   *)
TimeOutCloses ==
  /\ MaySweep
  /\ Mgr!TimeOut(NextInactive)
  /\ fd' = Closed(socket[NextInactive])
  /\ timedOut' = timedOut \cup {peer[NextInactive]}
  /\ sweeping' = TRUE
  /\ owed' = 1
  /\ UNCHANGED <<phase, inbox, sent, backlog, main, handler, tpos, crashed, granted,
                 obeyed, reused>>

TimeOut ==
  /\ MaySweep
  /\ Mgr!TimeOut(NextInactive)
  /\ timedOut' = timedOut \cup {peer[NextInactive]}
  /\ sweeping' = TRUE
  /\ owed' = 1
  /\ UNCHANGED <<network, main, handler, tpos, crashed, granted, obeyed, reused>>

CountTimedOut ==
  /\ Up
  /\ sweeping /\ owed = 1
  /\ owed' = 0
  /\ sweeping' = (Mgr!Inactive # {})
  /\ UNCHANGED <<table, network, main, handler, tpos, crashed, history>>

Cleanup == TimeOut \/ CountTimedOut

(* Time: a client has been silent for more than CLIENT_TIMEOUT_SECONDS.     *)
(* That long a thread stays at one place only while it waits: for input,    *)
(* for a client to read, or for a broadcast that waits for a client to      *)
(* read.  With the fault "slow" it may be held up anywhere.  A sweep of the *)
(* cleanup thread compares with the time at which it began.                 *)
Waits(c) ==
  \/ /\ At(c, "recv")
     /\ inbox[handler[c].file] = <<>>
     /\ phase[handler[c].file] \in {"open", "stalled"}
  \/ At(c, "reply") /\ Blocked(handler[c].sock)

TimePasses(i) ==
  \/ "slow" \in Faults
  \/ tpos # NoSlot /\ Blocked(socket[tpos])
  \/ /\ main.slot # i
     /\ \A c \in Conns : Live(c) /\ handler[c].slot = i => Waits(c)

GrowStale(i) ==
  /\ Up
  /\ "timeout" \in Faults
  /\ ~ sweeping
  /\ ~ stale[i]
  /\ TimePasses(i)
  /\ Mgr!GrowStale(i)
  /\ UNCHANGED <<network, main, handler, mutex, crashed, history>>

Next ==
  \/ \E c \in Conns : Client(c) \/ Handler(c)
  \/ MainStep
  \/ SpawnFails
  \/ Telemetry
  \/ Cleanup
  \/ \E i \in Slots : GrowStale(i)

Spec == Init /\ [][Next]_vars

(* Fairness.  The kernel runs every thread that can run, and a thread that  *)
(* wants the mutex gets it although others take it again and again: the     *)
(* telemetry thread sleeps 10 s and the cleanup thread 30 s between two     *)
(* rounds.  A client that reads, however seldom, drains TCP's buffers, and  *)
(* a send that waits for room goes through.  Time passes, so a silent       *)
(* client does become stale.                                                *)
ServerFairness ==
  /\ SF_vars(MainStep)
  /\ \A c \in Conns : SF_vars(Handler(c))
  /\ SF_vars(Telemetry)
  /\ SF_vars(Cleanup)
  /\ \A i \in Slots : WF_vars(GrowStale(i))

(* A client that has stopped reading reads again, or closes, some time.     *)
ReadersReturn ==
  \A c \in Conns : WF_vars(ReadAgain(c) \/ Hangup(c))

ServerSpec == Spec /\ ServerFairness
FairSpec == ServerSpec /\ ReadersReturn

-----------------------------------------------------------------------------
HandlerPlaces ==
  {"none", "top", "recv", "touch", "lookup", "dispatch", "execute", "reply",
   "leave", "remove", "count", "close"}

(* The type invariant. *)
TypeOK ==
  /\ Mgr!TableTypeOK
  /\ phase \in [Conns -> {"idle", "open", "stalled", "gone", "reset", "broken"}]
  /\ inbox \in [Conns -> Seq(Requests)]
  /\ sent \in [Conns -> 0 .. MaxMsgs]
  /\ backlog \in Seq(Conns)
  /\ fd \in [Sockets -> Conns \cup {NoConn}]
  /\ main \in [pc : {"accept", "check", "add", "spawn"}, conn : Conns \cup {NoConn},
                sock : Sockets \cup {NoSocket}, slot : Slots \cup {NoSlot}]
  /\ handler \in [Conns -> [pc : HandlerPlaces, slot : Slots \cup {NoSlot},
                            file : Conns \cup {NoConn}, msg : Requests \cup {NoMsg},
                            sock : Sockets \cup {NoSocket}, idx : Slots \cup {NoSlot},
                            reply : Replies \cup {NoMsg}]]
  /\ tpos \in Slots \cup {NoSlot} /\ sweeping \in BOOLEAN /\ owed \in {0, 1}
  /\ crashed \in BOOLEAN /\ reused \in BOOLEAN
  /\ granted \subseteq Conns /\ obeyed \subseteq Conns
  /\ timedOut \subseteq Conns \cup {NoConn}

(* The server implements the client table: whatever the threads do, each    *)
(* step is one operation of the table or leaves it alone, so what           *)
(* ClientManagerProofs proves of the table holds in the server.             *)
TableRefined == Mgr!TableSpec

(* main reads the counter without the mutex and adds later.  A slot seen    *)
(* free is still free then: everyone else only frees slots.                 *)
AddSucceeds == main.pc = "add" => Mgr!CanAdd

(* As long as no slot was given away under a live handler, a registered     *)
(* descriptor is the client's own and no two slots share one.               *)
TableSound ==
  ~ reused => \A i \in Mgr!Registered :
                /\ fd[socket[i]] = peer[i]
                /\ \A j \in Mgr!Registered \ {i} : socket[j] # socket[i]

(* Under the same condition every client in the table has its thread, or    *)
(* main is about to start it: no client is listed that nobody serves.       *)
EveryClientServed ==
  ~ reused => \A i \in Mgr!Registered :
                \/ Live(peer[i]) /\ handler[peer[i]].slot = i
                \/ main.pc = "spawn" /\ main.slot = i

(* Under the same condition a privileged command is carried out only for a  *)
(* connection on which valid credentials came, although the flag is read    *)
(* without the mutex and stays in a slot that timed out.                    *)
OnlyOwnRights == ~ reused => obeyed \subseteq granted

(* Under the same condition a reply goes to the client that asked, or to    *)
(* nobody, although the descriptor was read before the request was handled. *)
ReplyToSender ==
  ~ reused => \A c \in Conns :
                At(c, "reply") /\ handler[c].sock # NoSocket
                  => fd[handler[c].sock] = handler[c].file

(* Every path that gives up a connection closes its descriptor, whoever     *)
(* holds its slot meanwhile: what is open is with main on its way into the  *)
(* table, or in the table as the client's own, or was lost by a time-out.   *)
NoOtherLeak ==
  \A s \in Sockets :
    fd[s] # NoConn =>
      \/ main.pc \in {"check", "add"} /\ main.sock = s /\ main.conn = fd[s]
      \/ \E i \in Mgr!Registered : socket[i] = s /\ peer[i] = fd[s]
      \/ fd[s] \in timedOut

(* What makes a slot free under a live handler, the condition above, is a   *)
(* time-out of its client, or that the handler has left the table and has   *)
(* only the last close of server.c:177 to do.                               *)
ReusedOnlyAfterLeaving ==
  [][~ reused /\ reused' =>
       \E c \in Conns : /\ Live(c) /\ handler[c].slot = main'.slot
                        /\ At(c, "close") \/ c \in timedOut]_vars

(* The unlocked read of the counter overlooks one slot at most: when main   *)
(* turns a connection away every slot is taken, or all but one that a       *)
(* thread, with the mutex held, has just freed and not yet counted off.     *)
RefusalMissesOneSlot ==
  [][main.pc = "check" /\ main'.pc = "accept" =>
       \/ Mgr!Free = {}
       \/ owed = 1 /\ Cardinality(Mgr!Free) = 1]_vars

-----------------------------------------------------------------------------
(* Liveness, unless SIGPIPE ends the process. *)

(* A client that has gone leaves the table (protocol.md:163), also when it  *)
(* sends a reset, left requests unread or stopped reading first.            *)
GoneIsRemoved ==
  \A c \in Conns :
    (phase[c] \in Over /\ \E i \in Mgr!Registered : peer[i] = c)
      ~> (crashed \/ \A i \in Mgr!Registered : peer[i] # c)

(* A request that a handler has received is answered. *)
RequestIsAnswered ==
  \A c \in Conns : At(c, "touch") ~> (crashed \/ At(c, "top"))

(* Every connection is accepted or refused in the end. *)
ConnectionIsAccepted == \A c \in Conns : c \in Queued ~> (crashed \/ c \notin Queued)

-----------------------------------------------------------------------------
(* What the documents say and the code does not do. *)

(* protocol.md:247, "Only authenticated administrators", without the        *)
(* condition of OnlyOwnRights.                                              *)
OnlyAdministratorsCommand == obeyed \subseteq granted

(* protocol.md:163, "Client disconnected: Remove from user list": that a    *)
(* client goes must not end the server.                                     *)
SurvivesHangup == ~ crashed
=============================================================================

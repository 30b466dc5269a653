----------------------- MODULE TelemetryServerProofs -----------------------
(***************************************************************************)
(* Theorems of the server, for every number of connections, slots,         *)
(* descriptors and requests, and every set of faults.                      *)
(*                                                                         *)
(* The argument: each step of the server is an operation of the client     *)
(* table or leaves it alone (ServerImplementsTable), so the invariant      *)
(* proved of the table holds here; what the server adds is the typing of   *)
(* its threads' locals, and the bound on the counter that main relies on.  *)
(***************************************************************************)
EXTENDS TelemetryServer, FiniteSetTheorems, TLAPS

(* The table's theorems, about the same variables. *)
TP == INSTANCE ClientManagerProofs WITH Peers <- Conns, NoPeer <- NoConn

LEMMA TableAssumption == TP!ManagerAssumption
  BY ServerAssumption DEF TP!ManagerAssumption

(* Mgr and TP are two instances of one module: their operators agree. *)
LEMMA SameOperators ==
  /\ Mgr!NoSocket = TP!NoSocket /\ Mgr!NoSlot = TP!NoSlot
  /\ Mgr!Slots = TP!Slots /\ Mgr!table = TP!table
  /\ Mgr!Registered = TP!Registered /\ Mgr!Free = TP!Free
  /\ Mgr!Inactive = TP!Inactive
  /\ Mgr!NewSlot = TP!NewSlot
  /\ Mgr!CanAdd <=> TP!CanAdd
<1>1. /\ Mgr!NoSocket = TP!NoSocket /\ Mgr!NoSlot = TP!NoSlot
      /\ Mgr!Slots = TP!Slots /\ Mgr!table = TP!table
  BY DEF Mgr!NoSocket, TP!NoSocket, Mgr!NoSlot, TP!NoSlot, Mgr!Slots, TP!Slots,
         Mgr!table, TP!table
<1>2. Mgr!Registered = TP!Registered /\ Mgr!Free = TP!Free
  BY <1>1 DEF Mgr!Registered, TP!Registered, Mgr!Free, TP!Free
<1>3. Mgr!Inactive = TP!Inactive
  BY <1>2 DEF Mgr!Inactive, TP!Inactive
<1>4. Mgr!NewSlot = TP!NewSlot
  BY <1>2 DEF Mgr!NewSlot, TP!NewSlot, Mgr!Lowest, TP!Lowest
<1>5. Mgr!CanAdd <=> TP!CanAdd
  BY <1>2 DEF Mgr!CanAdd, TP!CanAdd
<1> QED
  BY <1>1, <1>2, <1>3, <1>4, <1>5

LEMMA SameCardinality ==
  ASSUME NEW S
  PROVE  Mgr!Cardinality(S) = TP!Cardinality(S) /\ TP!Cardinality(S) = Cardinality(S)
  BY DEF Mgr!Cardinality, TP!Cardinality, Cardinality

LEMMA SameInit == Mgr!TableInit <=> TP!TableInit
  BY SameOperators DEF Mgr!TableInit, TP!TableInit

LEMMA SameNext == Mgr!TableNext <=> TP!TableNext
<1>1. \A s \in Sockets, p \in Conns : Mgr!AddClient(s, p) <=> TP!AddClient(s, p)
  BY SameOperators DEF Mgr!AddClient, TP!AddClient
<1>2. \A i \in Mgr!Slots : Mgr!RemoveClient(i) <=> TP!RemoveClient(i)
  BY SameOperators DEF Mgr!RemoveClient, TP!RemoveClient, Mgr!table, TP!table
<1>3. \A i \in Mgr!Slots : Mgr!UpdateActivity(i) <=> TP!UpdateActivity(i)
  BY SameOperators DEF Mgr!UpdateActivity, TP!UpdateActivity
<1>4. \A i \in Mgr!Slots : Mgr!Authenticate(i) <=> TP!Authenticate(i)
  BY SameOperators DEF Mgr!Authenticate, TP!Authenticate
<1>5. \A i \in Mgr!Slots : Mgr!GrowStale(i) <=> TP!GrowStale(i)
  BY SameOperators DEF Mgr!GrowStale, TP!GrowStale
<1>6. \A i \in Mgr!Slots : Mgr!TimeOut(i) <=> TP!TimeOut(i)
  BY SameOperators DEF Mgr!TimeOut, TP!TimeOut
<1>7. (\E s \in Sockets, p \in Conns : Mgr!AddClient(s, p))
        <=> (\E s \in Sockets, p \in Conns : TP!AddClient(s, p))
  BY <1>1
<1>8. (\E i \in Mgr!Slots : \/ Mgr!RemoveClient(i)
                           \/ Mgr!UpdateActivity(i)
                           \/ Mgr!Authenticate(i)
                           \/ Mgr!TimeOut(i)
                           \/ Mgr!GrowStale(i))
        <=> (\E i \in TP!Slots : \/ TP!RemoveClient(i)
                                \/ TP!UpdateActivity(i)
                                \/ TP!Authenticate(i)
                                \/ TP!TimeOut(i)
                                \/ TP!GrowStale(i))
  BY <1>2, <1>3, <1>4, <1>5, <1>6, SameOperators
<1> QED
  BY <1>7, <1>8 DEF Mgr!TableNext, TP!TableNext

-----------------------------------------------------------------------------
(* What the server adds to the table's invariant: the types of the network  *)
(* and of the threads' locals, with the locals that are set at each place.  *)

NetOK ==
  /\ phase \in [Conns -> {"idle", "open", "stalled", "gone", "reset", "broken"}]
  /\ inbox \in [Conns -> Seq(Requests)]
  /\ sent \in [Conns -> 0 .. MaxMsgs]
  /\ backlog \in Seq(Conns)
  /\ fd \in [Sockets -> Conns \cup {NoConn}]

MainRecords ==
  [pc : {"accept", "check", "add", "spawn"}, conn : Conns \cup {NoConn},
   sock : Sockets \cup {NoSocket}, slot : Slots \cup {NoSlot}]

MainOK ==
  /\ main \in MainRecords
  /\ main.pc # "accept" => main.sock \in Sockets /\ main.conn \in Conns
  /\ main.pc = "spawn" => main.slot \in Slots

HandlerRecords ==
  [pc : HandlerPlaces, slot : Slots \cup {NoSlot}, file : Conns \cup {NoConn},
   msg : Requests \cup {NoMsg}, sock : Sockets \cup {NoSocket},
   idx : Slots \cup {NoSlot}, reply : Replies \cup {NoMsg}]

Serving == {"touch", "lookup", "dispatch", "execute", "reply"}

PlaceOK(h) ==
  /\ h \in HandlerRecords
  /\ h.pc # "none" => h.slot \in Slots
  /\ h.pc = "recv" \/ h.pc \in Serving => h.file \in Conns
  /\ h.pc \in Serving => h.msg \in Requests
  /\ h.pc = "execute" => NeedsAdmin(h.msg)
  /\ h.pc = "remove" => h.idx \in Slots

HandlersOK ==
  /\ handler \in [Conns -> HandlerRecords]
  /\ \A c \in Conns : PlaceOK(handler[c])

RestOK ==
  /\ tpos \in Slots \cup {NoSlot} /\ sweeping \in BOOLEAN /\ owed \in {0, 1}
  /\ crashed \in BOOLEAN /\ reused \in BOOLEAN
  /\ granted \subseteq Conns /\ obeyed \subseteq Conns
  /\ timedOut \subseteq Conns \cup {NoConn}

(* main has seen room and nobody has taken it. *)
RoomLeft == main.pc = "add" => clientCount < MaxClients

(* A handler that has a slot to count off holds the mutex, alone. *)
CountingOK ==
  /\ \A c \in Conns : handler[c].pc = "count" => owed = 1 /\ ~ sweeping
  /\ \A c, d \in Conns : handler[c].pc = "count" /\ handler[d].pc = "count" => c = d

Inv ==
  TP!TableInv /\ NetOK /\ MainOK /\ HandlersOK /\ RestOK /\ RoomLeft /\ CountingOK

-----------------------------------------------------------------------------
LEMMA SlotsAreNumbers ==
  /\ Slots \subseteq Nat /\ NoSlot \notin Slots /\ 0 \in Slots
  /\ Sockets \subseteq Nat /\ NoSocket \notin Sockets
  BY ServerAssumption DEF Slots, Mgr!Slots, NoSlot, Mgr!NoSlot, NoSocket, Mgr!NoSocket

LEMMA TableTypes ==
  ASSUME TP!TableInv
  PROVE  /\ socket \in [Slots -> Sockets \cup {NoSocket}]
         /\ clientCount \in 0 .. MaxClients
         /\ clientCount = Cardinality(Mgr!Registered)
         /\ Mgr!TableTypeOK
<1>1. TP!TableTypeOK /\ TP!CountExact
  BY TP!InvImpliesType, TableAssumption
<1>2. Mgr!TableTypeOK
  BY <1>1, SameOperators DEF TP!TableTypeOK, Mgr!TableTypeOK
<1> QED
  BY <1>1, <1>2, SameOperators, SameCardinality
     DEF Mgr!TableTypeOK, TP!CountExact, Slots, NoSocket

(* find_by_socket returns a slot or NoSlot. *)
LEMMA FoundSlot ==
  ASSUME NEW s
  PROVE  Mgr!FindBySocket(s) \in Slots \cup {NoSlot}
<1>1. TP!FindBySocket(s) = TP!NoSlot \/ TP!FindBySocket(s) \in TP!Registered
  BY TP!FoundSlot, TableAssumption
<1>2. Mgr!FindBySocket(s) = TP!FindBySocket(s)
  BY SameOperators DEF Mgr!FindBySocket, TP!FindBySocket, Mgr!Lowest, TP!Lowest
<1> QED
  BY <1>1, <1>2, SameOperators DEF Mgr!Registered, Slots, NoSlot

LEMMA NewSlotIsSlot == Mgr!CanAdd => Mgr!NewSlot \in Slots
  BY SameOperators, TP!NewSlotIsFree, TableAssumption DEF Slots

(* accept's choice is a free descriptor. *)
LEMMA LowestFree ==
  ASSUME FreeSockets # {}
  PROVE  Mgr!Lowest(FreeSockets) \in Sockets
<1>1. FreeSockets \in SUBSET Nat
  BY ServerAssumption DEF FreeSockets
<1>2. TP!Lowest(FreeSockets) \in FreeSockets
  BY <1>1, TP!LowestIsMember, TableAssumption
<1> QED
  BY <1>2 DEF FreeSockets, Mgr!Lowest, TP!Lowest

(* A table with room has a free slot, so the search of add_client succeeds. *)
LEMMA RoomMeansFreeSlot ==
  ASSUME TP!TableInv, clientCount < MaxClients
  PROVE  Mgr!CanAdd
<1>1. Cardinality(Mgr!Slots) = MaxClients
  BY ServerAssumption, FS_Interval DEF Mgr!Slots
<1>2. Mgr!Registered # Mgr!Slots
  BY <1>1, TableTypes, ServerAssumption
<1>3. Mgr!Free # {}
  BY <1>2 DEF Mgr!Free, Mgr!Registered
<1> QED
  BY <1>3 DEF Mgr!CanAdd

-----------------------------------------------------------------------------
(* What a handler step does to the client table is an operation of it. *)
LEMMA HandlerOnTable ==
  ASSUME Inv, NEW c \in Conns, Handler(c)
  PROVE  Mgr!TableNext \/ UNCHANGED table
<1>1. /\ handler[c].pc # "none" => handler[c].slot \in Slots
      /\ handler[c].pc = "remove" => handler[c].idx \in Slots
      /\ handler[c].idx \in Slots \cup {NoSlot}
  BY DEF Inv, HandlersOK, PlaceOK, HandlerRecords
<1>2. CASE Touch(c)
  <2> DEFINE i == Mgr!FindBySocket(MySocket(c))
  <2>1. i \in Slots \cup {NoSlot}
    BY FoundSlot
  <2>2. i = NoSlot => UNCHANGED table
    BY <1>2 DEF Touch
  <2>3. i # NoSlot => Mgr!UpdateActivity(i)
    BY <1>2 DEF Touch
  <2> QED
    BY <2>1, <2>2, <2>3 DEF Mgr!TableNext, Slots
<1>3. CASE AuthSucceeds(c)
  BY <1>1, <1>3 DEF AuthSucceeds, Mgr!TableNext, Slots
<1>4. CASE Remove(c)
  BY <1>1, <1>4 DEF Remove, At, Mgr!TableNext, Slots
<1>5. CASE \/ Read(c) \/ Receive(c) \/ ReceiveEnd(c) \/ Lookup(c) \/ ClientNotFound(c)
           \/ AuthFails(c) \/ CheckAdmin(c) \/ AnswerAnyone(c) \/ Execute(c)
           \/ SendReply(c) \/ Leave(c) \/ CountOff(c) \/ CloseLast(c)
  BY <1>5 DEF Read, Receive, ReceiveEnd, Lookup, ClientNotFound, AuthFails, CheckAdmin,
              AnswerAnyone, Execute, SendReply, Leave, CountOff, CloseLast, table
<1> QED
  BY <1>2, <1>3, <1>4, <1>5 DEF Handler

(* The same of every step of the server. *)
LEMMA StepOnTable ==
  ASSUME Inv, [Next]_vars
  PROVE  Mgr!TableNext \/ UNCHANGED table
<1>1. ASSUME NEW c \in Conns, Client(c) PROVE UNCHANGED table
  BY <1>1 DEF Client, Connect, SendRequest, Hangup, Stall, ReadAgain, table
<1>2. CASE Add
  BY <1>2 DEF Add, MainAt, Inv, MainOK, Mgr!TableNext
<1>3. CASE Accept \/ CheckSpace \/ Spawn \/ Telemetry
  BY <1>3 DEF Accept, CheckSpace, Spawn, Telemetry, StartBroadcast, SendNext, table
<1>4. CASE SpawnFails
  BY <1>4 DEF SpawnFails, MainAt, Inv, MainOK, Mgr!TableNext, Slots
<1>5. CASE Cleanup
  <2>1. CASE TimeOut
    BY <2>1, SameOperators DEF TimeOut, Mgr!TimeOut, Mgr!Inactive, Mgr!Registered, Mgr!TableNext
  <2>2. CASE CountTimedOut
    BY <2>2 DEF CountTimedOut, table
  <2> QED
    BY <1>5, <2>1, <2>2 DEF Cleanup
<1>6. ASSUME NEW i \in Slots, GrowStale(i) PROVE Mgr!TableNext
  BY <1>6 DEF GrowStale, Mgr!TableNext, Slots
<1>7. CASE UNCHANGED vars
  BY <1>7 DEF vars
<1> QED
  BY <1>1, <1>2, <1>3, <1>4, <1>5, <1>6, <1>7, HandlerOnTable DEF Next, MainStep

LEMMA TableStep ==
  ASSUME Inv, [Next]_vars
  PROVE  [TP!TableNext]_(TP!table) /\ TP!TableInv'
<1>1. [TP!TableNext]_(TP!table)
  BY StepOnTable, SameNext, SameOperators DEF table, TP!table
<1> QED
  BY <1>1, TP!InvStep, TableAssumption DEF Inv

-----------------------------------------------------------------------------
(* The network. *)

LEMMA ClosedTypes ==
  ASSUME NetOK, NEW s
  PROVE  Closed(s) \in [Sockets -> Conns \cup {NoConn}]
  BY DEF NetOK, Closed

LEMMA SendOnTypes ==
  ASSUME NetOK, NEW s, SendOn(s)
  PROVE  phase' \in [Conns -> {"idle", "open", "stalled", "gone", "reset", "broken"}]
  BY DEF NetOK, SendOn, Phase

LEMMA NetStep ==
  ASSUME Inv, [Next]_vars
  PROVE  NetOK'
<1>0. NetOK
  BY DEF Inv
<1>1. ASSUME NEW c \in Conns, Connect(c) PROVE NetOK'
  BY <1>0, <1>1 DEF NetOK, Connect
<1>2. ASSUME NEW c \in Conns, NEW r \in Requests, SendRequest(c, r) PROVE NetOK'
  BY <1>0, <1>2, ServerAssumption DEF NetOK, SendRequest
<1>3. ASSUME NEW c \in Conns, Hangup(c) \/ Stall(c) \/ ReadAgain(c) PROVE NetOK'
  BY <1>0, <1>3 DEF NetOK, Hangup, Stall, ReadAgain
<1>4. CASE Accept
  <2>1. Mgr!Lowest(FreeSockets) \in Sockets
    BY <1>4, LowestFree DEF Accept
  <2>2. Head(backlog) \in Conns /\ Tail(backlog) \in Seq(Conns)
    BY <1>0, <1>4 DEF NetOK, Accept
  <2> QED
    BY <1>0, <1>4, <2>1, <2>2 DEF NetOK, Accept
<1>5. CASE CheckSpace
  BY <1>0, <1>5, ClosedTypes DEF NetOK, CheckSpace
<1>6. CASE SpawnFails
  BY <1>0, <1>6, ClosedTypes DEF NetOK, SpawnFails
<1>7. ASSUME NEW c \in Conns, Receive(c) PROVE NetOK'
  <2>1. handler[c].file \in Conns
    BY <1>7 DEF Inv, HandlersOK, PlaceOK, Receive, At
  <2>2. inbox[handler[c].file] \in Seq(Requests)
    BY <1>0, <2>1 DEF NetOK
  <2>3. PICK k \in 1 .. Len(inbox[handler[c].file]) :
          inbox' = [inbox EXCEPT ![handler[c].file] = SubSeq(@, k + 1, Len(@))]
    BY <1>7 DEF Receive
  <2>4. inbox' \in [Conns -> Seq(Requests)]
    BY <1>0, <2>1, <2>2, <2>3 DEF NetOK
  <2> QED
    BY <1>0, <1>7, <2>4 DEF NetOK, Receive
<1>8. ASSUME NEW c \in Conns, SendReply(c) PROVE NetOK'
  BY <1>0, <1>8, SendOnTypes DEF NetOK, SendReply
<1>9. ASSUME NEW c \in Conns, Remove(c) \/ CloseLast(c) PROVE NetOK'
  BY <1>0, <1>9, ClosedTypes DEF NetOK, Remove, CloseLast
<1>14. ASSUME NEW c \in Conns, ReceiveEnd(c) PROVE NetOK'
  BY <1>0, <1>14 DEF NetOK, ReceiveEnd, Reported
<1>10. CASE SendNext
  BY <1>0, <1>10, SendOnTypes DEF NetOK, SendNext
<1>11. ASSUME NEW c \in Conns,
              \/ Read(c) \/ Touch(c) \/ Lookup(c) \/ ClientNotFound(c)
              \/ AuthSucceeds(c) \/ AuthFails(c) \/ CheckAdmin(c) \/ AnswerAnyone(c)
              \/ Execute(c) \/ Leave(c) \/ CountOff(c)
       PROVE  NetOK'
  BY <1>0, <1>11
     DEF NetOK, network, Read, Touch, Lookup, ClientNotFound,
         AuthSucceeds, AuthFails, CheckAdmin, AnswerAnyone, Execute, Leave, CountOff
<1>12. CASE Add \/ Spawn \/ StartBroadcast \/ Cleanup \/ UNCHANGED vars
  BY <1>0, <1>12
     DEF NetOK, network, Add, Spawn, StartBroadcast, Cleanup, TimeOut, CountTimedOut, vars
<1>13. ASSUME NEW i \in Slots, GrowStale(i) PROVE NetOK'
  BY <1>0, <1>13 DEF NetOK, network, GrowStale
<1> QED
  BY <1>1, <1>2, <1>3, <1>4, <1>5, <1>6, <1>7, <1>8, <1>9, <1>10, <1>11, <1>12, <1>13,
     <1>14
     DEF Next, Client, Handler, MainStep, Telemetry

-----------------------------------------------------------------------------
(* The locals of main. *)
LEMMA MainLocals ==
  ASSUME Inv, [Next]_vars
  PROVE  MainOK'
<1>0. MainOK
  BY DEF Inv
<1>1. CASE Accept
  <2>1. Mgr!Lowest(FreeSockets) \in Sockets
    BY <1>1, LowestFree DEF Accept
  <2>2. Head(backlog) \in Conns
    BY <1>1 DEF Inv, NetOK, Accept
  <2> QED
    BY <1>0, <1>1, <2>1, <2>2 DEF MainOK, MainRecords, Accept
<1>2. CASE CheckSpace
  BY <1>0, <1>2 DEF MainOK, MainRecords, CheckSpace, MainAt, MainIdle
<1>3. CASE Add
  <2>1. Mgr!NewSlot \in Slots
    BY <1>3, NewSlotIsSlot DEF Add, Mgr!AddClient
  <2> QED
    BY <1>0, <1>3, <2>1 DEF MainOK, MainRecords, Add, MainAt
<1>4. CASE Spawn \/ SpawnFails
  BY <1>0, <1>4 DEF MainOK, MainRecords, Spawn, SpawnFails, MainIdle
<1>5. ASSUME NEW c \in Conns, Client(c) PROVE MainOK'
  BY <1>0, <1>5 DEF MainOK, Client, Connect, SendRequest, Hangup, Stall, ReadAgain
<1>6. ASSUME NEW c \in Conns, Handler(c) PROVE MainOK'
  BY <1>0, <1>6
     DEF MainOK, Handler, Read, Receive, ReceiveEnd, Touch, Lookup, ClientNotFound,
         AuthSucceeds, AuthFails, CheckAdmin, AnswerAnyone, Execute, SendReply,
         Leave, Remove, CountOff, CloseLast
<1>7. CASE Telemetry \/ Cleanup \/ UNCHANGED vars
  BY <1>0, <1>7 DEF MainOK, Telemetry, StartBroadcast, SendNext, Cleanup, TimeOut,
                         CountTimedOut, vars
<1>8. ASSUME NEW i \in Slots, GrowStale(i) PROVE MainOK'
  BY <1>0, <1>8 DEF MainOK, GrowStale
<1> QED
  BY <1>1, <1>2, <1>3, <1>4, <1>5, <1>6, <1>7, <1>8 DEF Next, MainStep

-----------------------------------------------------------------------------
(* The locals of the handlers. *)

LEMMA IdleIsOK == PlaceOK(Idle)
  BY DEF PlaceOK, Idle, HandlerRecords, HandlerPlaces, Serving

(* One handler moves, the others stay as they are. *)
LEMMA OneHandler ==
  ASSUME HandlersOK, NEW c \in Conns, NEW h, PlaceOK(h),
         handler' = [handler EXCEPT ![c] = h]
  PROVE  HandlersOK'
<1>1. h \in HandlerRecords
  BY DEF PlaceOK
<1>2. handler' \in [Conns -> HandlerRecords]
  BY <1>1 DEF HandlersOK
<1>3. \A d \in Conns : PlaceOK(handler'[d])
  BY DEF HandlersOK
<1> QED
  BY <1>2, <1>3 DEF HandlersOK, PlaceOK

LEMMA HandlerLocals ==
  ASSUME Inv, NEW c \in Conns, Handler(c)
  PROVE  HandlersOK'
<1> DEFINE h == handler[c]
<1>0. /\ HandlersOK /\ PlaceOK(h) /\ h \in HandlerRecords
      /\ inbox \in [Conns -> Seq(Requests)]
      /\ fd \in [Sockets -> Conns \cup {NoConn}]
      /\ socket \in [Slots -> Sockets \cup {NoSocket}]
  BY TableTypes DEF Inv, HandlersOK, PlaceOK, NetOK
<1>1. CASE Read(c)
  <2> DEFINE s == MySocket(c)
             f == IF s = NoSocket THEN NoConn ELSE fd[s]
             new == [h EXCEPT !.pc = IF f = NoConn THEN "leave" ELSE "recv", !.file = f]
  <2>1. h.slot \in Slots
    BY <1>0, <1>1 DEF Read, At, PlaceOK
  <2>2. f \in Conns \cup {NoConn}
    BY <1>0, <2>1 DEF MySocket
  <2>3. PlaceOK(new)
    BY <1>0, <2>1, <2>2 DEF PlaceOK, HandlerRecords, HandlerPlaces, Serving
  <2>4. handler' = [handler EXCEPT ![c] = new]
    BY <1>0, <1>1 DEF Read, HandlersOK, HandlerRecords
  <2> QED
    BY <1>0, <2>3, <2>4, OneHandler
<1>2. CASE Receive(c)
  <2> DEFINE new == [h EXCEPT !.pc = "touch", !.msg = Head(inbox[h.file])]
  <2>1. h.file \in Conns /\ h.slot \in Slots
    BY <1>0, <1>2 DEF Receive, At, PlaceOK
  <2>2. PICK k \in 1 .. Len(inbox[h.file]) : handler' = [handler EXCEPT
                ![c].pc = "touch", ![c].msg = Head(inbox[h.file])]
    BY <1>2 DEF Receive
  <2>3. Head(inbox[h.file]) \in Requests
    <3>1. inbox[h.file] \in Seq(Requests) /\ Len(inbox[h.file]) >= 1
      BY <1>0, <2>1, <2>2
    <3> QED
      BY <3>1
  <2>4. PlaceOK(new)
    BY <1>0, <2>1, <2>3 DEF PlaceOK, HandlerRecords, HandlerPlaces, Serving
  <2>5. handler' = [handler EXCEPT ![c] = new]
    BY <1>0, <2>2 DEF HandlersOK, HandlerRecords
  <2> QED
    BY <1>0, <2>4, <2>5, OneHandler
<1>3. CASE ReceiveEnd(c)
  <2> DEFINE new == [h EXCEPT !.pc = "leave", !.file = NoConn]
  <2>1. PlaceOK(new)
    BY <1>0, <1>3 DEF ReceiveEnd, At, PlaceOK, HandlerRecords, HandlerPlaces, Serving
  <2>2. handler' = [handler EXCEPT ![c] = new]
    BY <1>0, <1>3 DEF ReceiveEnd, HandlersOK, HandlerRecords
  <2> QED
    BY <1>0, <2>1, <2>2, OneHandler
<1>4. CASE Touch(c)
  <2> DEFINE new == [h EXCEPT !.pc = "lookup", !.sock = MySocket(c)]
  <2>1. h.slot \in Slots
    BY <1>0, <1>4 DEF Touch, At, PlaceOK
  <2>2. MySocket(c) \in Sockets \cup {NoSocket}
    BY <1>0, <2>1 DEF MySocket
  <2>3. PlaceOK(new)
    BY <1>0, <1>4, <2>2
       DEF Touch, At, PlaceOK, HandlerRecords, HandlerPlaces, Serving
  <2>4. handler' = [handler EXCEPT ![c] = new]
    BY <1>0, <1>4 DEF Touch, HandlersOK, HandlerRecords
  <2> QED
    BY <1>0, <2>3, <2>4, OneHandler
<1>5. CASE Lookup(c)
  <2> DEFINE new == [h EXCEPT !.pc = "dispatch", !.idx = Mgr!FindBySocket(h.sock)]
  <2>1. Mgr!FindBySocket(h.sock) \in Slots \cup {NoSlot}
    BY FoundSlot
  <2>2. PlaceOK(new)
    BY <1>0, <1>5, <2>1
       DEF Lookup, At, PlaceOK, HandlerRecords, HandlerPlaces, Serving
  <2>3. handler' = [handler EXCEPT ![c] = new]
    BY <1>0, <1>5 DEF Lookup, HandlersOK, HandlerRecords
  <2> QED
    BY <1>0, <2>2, <2>3, OneHandler
<1>6. ASSUME NEW r \in Replies, Reply(c, r), h.pc \in {"dispatch", "execute"}
      PROVE  HandlersOK'
  <2> DEFINE new == [h EXCEPT !.pc = "reply", !.reply = r]
  <2>1. PlaceOK(new)
    BY <1>0, <1>6 DEF PlaceOK, HandlerRecords, HandlerPlaces, Serving
  <2>2. handler' = [handler EXCEPT ![c] = new]
    BY <1>0, <1>6 DEF Reply, HandlersOK, HandlerRecords
  <2> QED
    BY <1>0, <2>1, <2>2, OneHandler
<1>7. CASE ClientNotFound(c) \/ AuthSucceeds(c) \/ AuthFails(c) \/ AnswerAnyone(c)
  BY <1>6, <1>7
     DEF ClientNotFound, AuthSucceeds, AuthFails, AnswerAnyone, At, Replies, OpenReply
<1>8. CASE CheckAdmin(c)
  <2>1. CASE Reply(c, "ERROR")
    BY <1>6, <1>8, <2>1 DEF CheckAdmin, At, Replies
  <2>2. CASE handler' = [handler EXCEPT ![c].pc = "execute"]
    <3> DEFINE new == [h EXCEPT !.pc = "execute"]
    <3>1. PlaceOK(new)
      BY <1>0, <1>8
         DEF CheckAdmin, At, PlaceOK, HandlerRecords, HandlerPlaces, Serving
    <3>2. handler' = [handler EXCEPT ![c] = new]
      BY <1>0, <2>2 DEF HandlersOK, HandlerRecords
    <3> QED
      BY <1>0, <3>1, <3>2, OneHandler
  <2> QED
    BY <1>8, <2>1, <2>2 DEF CheckAdmin
<1>9. CASE Execute(c)
  <2>1. h.msg \in {"SEND_CMD:valid", "SEND_CMD:invalid", "LIST_USERS", "RECHARGE"}
    <3>1. h.msg \in Requests /\ NeedsAdmin(h.msg)
      BY <1>0, <1>9 DEF Execute, At, PlaceOK, Serving
    <3> QED
      BY <3>1, ServerAssumption DEF NeedsAdmin, CommandType, AllRequests
  <2>2. AdminReplies(h.msg) \subseteq Replies
    BY <2>1 DEF AdminReplies, Replies
  <2> QED
    BY <1>6, <1>9, <2>2 DEF Execute, At
<1>10. CASE SendReply(c)
  <2> DEFINE new == [Idle EXCEPT !.pc = "top", !.slot = h.slot]
  <2>1. h.slot \in Slots
    BY <1>0, <1>10 DEF SendReply, At, PlaceOK
  <2>2. PlaceOK(new)
    BY <2>1 DEF Idle, PlaceOK, HandlerRecords, HandlerPlaces, Serving
  <2>3. handler' = [handler EXCEPT ![c] = new]
    BY <1>10 DEF SendReply
  <2> QED
    BY <1>0, <2>2, <2>3, OneHandler
<1>11. CASE Leave(c)
  <2> DEFINE i == Mgr!FindBySocket(MySocket(c))
             new == [h EXCEPT !.pc = IF i = NoSlot THEN "close" ELSE "remove", !.idx = i]
  <2>1. i \in Slots \cup {NoSlot}
    BY FoundSlot
  <2>2. PlaceOK(new)
    BY <1>0, <1>11, <2>1
       DEF Leave, At, PlaceOK, HandlerRecords, HandlerPlaces, Serving
  <2>3. handler' = [handler EXCEPT ![c] = new]
    BY <1>0, <1>11 DEF Leave, HandlersOK, HandlerRecords
  <2> QED
    BY <1>0, <2>2, <2>3, OneHandler
<1>12. CASE Remove(c)
  <2>1. PICK p \in {"count", "close"} :
          handler' = [handler EXCEPT ![c].pc = p, ![c].idx = NoSlot]
    BY <1>12 DEF Remove
  <2> DEFINE new == [h EXCEPT !.pc = p, !.idx = NoSlot]
  <2>2. PlaceOK(new)
    BY <1>0, <1>12, <2>1
       DEF Remove, At, PlaceOK, HandlerRecords, HandlerPlaces, Serving
  <2>3. handler' = [handler EXCEPT ![c] = new]
    BY <1>0, <2>1 DEF HandlersOK, HandlerRecords
  <2> QED
    BY <1>0, <2>2, <2>3, OneHandler
<1>14. CASE CountOff(c)
  <2> DEFINE new == [h EXCEPT !.pc = "close"]
  <2>1. PlaceOK(new)
    BY <1>0, <1>14 DEF CountOff, At, PlaceOK, HandlerRecords, HandlerPlaces, Serving
  <2>2. handler' = [handler EXCEPT ![c] = new]
    BY <1>0, <1>14 DEF CountOff, HandlersOK, HandlerRecords
  <2> QED
    BY <1>0, <2>1, <2>2, OneHandler
<1>13. CASE CloseLast(c)
  BY <1>0, <1>13, IdleIsOK, OneHandler DEF CountOff, CloseLast
<1> QED
  BY <1>1, <1>2, <1>3, <1>4, <1>5, <1>7, <1>8, <1>9, <1>10, <1>11, <1>12, <1>13, <1>14
     DEF Handler

LEMMA HandlersStep ==
  ASSUME Inv, [Next]_vars
  PROVE  HandlersOK'
<1>0. HandlersOK
  BY DEF Inv
<1>1. CASE Spawn
  <2> DEFINE new == [Idle EXCEPT !.pc = "top", !.slot = main.slot]
  <2>1. main.slot \in Slots /\ main.conn \in Conns
    BY <1>1 DEF Spawn, MainAt, Inv, MainOK
  <2>2. PlaceOK(new)
    BY <2>1 DEF Idle, PlaceOK, HandlerRecords, HandlerPlaces, Serving
  <2>3. handler' = [handler EXCEPT ![main.conn] = new]
    BY <1>1 DEF Spawn
  <2> QED
    BY <1>0, <2>1, <2>2, <2>3, OneHandler
<1>2. CASE handler' = handler
  BY <1>0, <1>2 DEF HandlersOK, PlaceOK
<1>3. ASSUME NEW c \in Conns, Client(c) PROVE handler' = handler
  BY <1>3 DEF Client, Connect, SendRequest, Hangup, Stall, ReadAgain
<1>4. CASE Accept \/ CheckSpace \/ Add \/ SpawnFails \/ Telemetry \/ Cleanup \/ UNCHANGED vars
  BY <1>2, <1>4
     DEF Accept, CheckSpace, Add, SpawnFails, Telemetry, StartBroadcast, SendNext,
         Cleanup, TimeOut, CountTimedOut, vars
<1>5. ASSUME NEW i \in Slots, GrowStale(i) PROVE handler' = handler
  BY <1>5 DEF GrowStale
<1> QED
  BY <1>1, <1>2, <1>3, <1>4, <1>5, HandlerLocals DEF Next, MainStep

-----------------------------------------------------------------------------
(* The position of the broadcast, and the histories. *)
LEMMA RestStep ==
  ASSUME Inv, [Next]_vars
  PROVE  RestOK'
<1>0. RestOK
  BY DEF Inv
<1>1. ASSUME NEW c \in Conns, Client(c) PROVE RestOK'
  BY <1>0, <1>1
     DEF RestOK, mutex, history, Client, Connect, SendRequest, Hangup, Stall, ReadAgain
<1>2. CASE Accept \/ CheckSpace \/ Spawn \/ SpawnFails \/ UNCHANGED vars
  BY <1>0, <1>2
     DEF RestOK, mutex, history, Accept, CheckSpace, Spawn, SpawnFails, vars
<1>3. CASE Add
  <2>1. reused' \in BOOLEAN
    BY <1>3 DEF Add
  <2> QED
    BY <1>0, <1>3, <2>1 DEF RestOK, mutex, Add
<1>4. CASE StartBroadcast
  BY <1>0, <1>4, SlotsAreNumbers DEF RestOK, mutex, history, StartBroadcast
<1>5. CASE SendNext
  <2>1. tpos' \in Slots \cup {NoSlot}
    BY <1>0, <1>5, ServerAssumption
       DEF RestOK, SendNext, TableFree, Slots, Mgr!Slots, NoSlot, Mgr!NoSlot
  <2>2. crashed' \in BOOLEAN
    BY <1>0, <1>5 DEF RestOK, SendNext, SendOn
  <2> QED
    BY <1>0, <1>5, <2>1, <2>2 DEF RestOK, mutex, history, SendNext
<1>6. ASSUME NEW c \in Conns, AuthSucceeds(c) \/ Execute(c) PROVE RestOK'
  <2>1. handler[c].file \in Conns
    BY <1>6 DEF Inv, HandlersOK, PlaceOK, Serving, AuthSucceeds, Execute, At
  <2> QED
    BY <1>0, <1>6, <2>1 DEF RestOK, mutex, AuthSucceeds, Execute
<1>7. ASSUME NEW c \in Conns, SendReply(c) PROVE RestOK'
  <2>1. crashed' \in BOOLEAN
    BY <1>0, <1>7 DEF RestOK, SendReply, SendOn
  <2> QED
    BY <1>0, <1>7, <2>1 DEF RestOK, mutex, history, SendReply
<1>8. ASSUME NEW c \in Conns,
             \/ Read(c) \/ Receive(c) \/ ReceiveEnd(c) \/ Touch(c) \/ Lookup(c)
             \/ ClientNotFound(c) \/ AuthFails(c) \/ CheckAdmin(c) \/ AnswerAnyone(c)
             \/ Leave(c) \/ Remove(c) \/ CountOff(c) \/ CloseLast(c)
      PROVE  RestOK'
  BY <1>0, <1>8
     DEF RestOK, mutex, history, Read, Receive, ReceiveEnd, Touch, Lookup, ClientNotFound,
         AuthFails, CheckAdmin, AnswerAnyone, Leave, Remove, CountOff, CloseLast
<1>9. ASSUME NEW i \in Slots, GrowStale(i) PROVE RestOK'
  BY <1>0, <1>9 DEF RestOK, mutex, history, GrowStale
<1>10. CASE TimeOut
  <2> DEFINE i == Mgr!Lowest(Mgr!Inactive)
  <2>1. i \in Mgr!Inactive
    BY <1>10 DEF TimeOut, NextInactive, Mgr!TimeOut
  <2>2. peer[i] \in Conns \cup {NoConn}
    BY <2>1, TableTypes DEF Inv, Mgr!TableTypeOK, Mgr!Inactive, Mgr!Registered
  <2> QED
    BY <1>0, <1>10, <2>2 DEF RestOK, TimeOut, NextInactive
<1>11. CASE CountTimedOut
  BY <1>0, <1>11 DEF RestOK, CountTimedOut, history
<1> QED
  BY <1>1, <1>2, <1>3, <1>4, <1>5, <1>6, <1>7, <1>8, <1>9, <1>10,
     <1>11
     DEF Next, Handler, MainStep, Telemetry, Cleanup

-----------------------------------------------------------------------------
(* The check of server.c:94 and the addition of line 105 are two steps, and *)
(* between them only main could take a slot.                                *)

(* Every operation of the table but AddClient leaves the counter alone or   *)
(* lowers it.                                                               *)
LEMMA OthersOnlyFree ==
  ASSUME Inv,
         \/ UNCHANGED table
         \/ \E i \in Slots : \/ Mgr!RemoveClient(i)
                             \/ Mgr!UpdateActivity(i)
                             \/ Mgr!Authenticate(i)
                             \/ Mgr!TimeOut(i)
                             \/ Mgr!GrowStale(i)
  PROVE  clientCount' <= clientCount
<1>0. clientCount \in Nat
  BY TableTypes, ServerAssumption DEF Inv
<1>1. CASE UNCHANGED table
  BY <1>0, <1>1 DEF table
<1>2. ASSUME NEW i \in Slots,
             \/ Mgr!RemoveClient(i) \/ Mgr!UpdateActivity(i) \/ Mgr!Authenticate(i)
             \/ Mgr!TimeOut(i) \/ Mgr!GrowStale(i)
      PROVE  clientCount' <= clientCount
  BY <1>0, <1>2
     DEF Mgr!RemoveClient, Mgr!UpdateActivity, Mgr!Authenticate, Mgr!TimeOut,
         Mgr!GrowStale, Mgr!table
<1> QED
  BY <1>1, <1>2

LEMMA RoomStep ==
  ASSUME Inv, [Next]_vars
  PROVE  RoomLeft'
<1>0. /\ RoomLeft
      /\ clientCount \in Nat /\ clientCount' \in Nat
      /\ MaxClients \in Nat
  <2>1. TP!TableInv /\ TP!TableInv'
    BY TableStep DEF Inv
  <2>2. clientCount' = TP!Cardinality(TP!Registered')
    BY <2>1 DEF TP!TableInv, TP!CountExact
  <2>3. TP!Registered' \in SUBSET TP!Slots
    BY DEF TP!Registered
  <2>4. TP!Cardinality(TP!Registered') \in 0 .. MaxClients
    BY <2>3, TP!SlotSetsAreSmall, TableAssumption
  <2> QED
    BY <2>1, <2>2, <2>4, TableTypes, ServerAssumption DEF Inv
<1>1. CASE main' = main /\ clientCount' <= clientCount
  BY <1>0, <1>1 DEF RoomLeft
<1>2. CASE CheckSpace
  <2>1. owed \in {0, 1}
    BY DEF Inv, RestOK
  <2> QED
    BY <1>0, <1>2, <2>1 DEF CheckSpace, HasSpace, RoomLeft, MainIdle, table
<1>3. CASE Accept \/ Add \/ Spawn \/ SpawnFails
  <2>1. main \in MainRecords
    BY DEF Inv, MainOK
  <2>2. CASE Accept
    BY <2>1, <2>2 DEF Accept, MainRecords, RoomLeft
  <2>3. CASE Add
    BY <2>1, <2>3 DEF Add, MainRecords, RoomLeft
  <2>4. CASE Spawn \/ SpawnFails
    BY <2>4 DEF Spawn, SpawnFails, MainIdle, RoomLeft
  <2> QED
    BY <1>3, <2>2, <2>3, <2>4
<1>4. ASSUME NEW c \in Conns, Client(c)
      PROVE  main' = main /\ clientCount' <= clientCount
  BY <1>0, <1>4 DEF Client, Connect, SendRequest, Hangup, Stall, ReadAgain, table
<1>5. ASSUME NEW c \in Conns, Handler(c)
      PROVE  main' = main /\ clientCount' <= clientCount
  <2>1. main' = main
    BY <1>5
       DEF Handler, Read, Receive, ReceiveEnd, Touch, Lookup, ClientNotFound,
           AuthSucceeds, AuthFails, CheckAdmin, AnswerAnyone, Execute, SendReply,
           Leave, Remove, CountOff, CloseLast
  <2>2. \/ UNCHANGED table
        \/ \E i \in Slots : \/ Mgr!RemoveClient(i)
                            \/ Mgr!UpdateActivity(i)
                            \/ Mgr!Authenticate(i)
    <3>1. /\ handler[c].pc = "remove" => handler[c].idx \in Slots
          /\ handler[c].idx \in Slots \cup {NoSlot}
      BY DEF Inv, HandlersOK, PlaceOK, HandlerRecords
    <3>2. CASE Touch(c)
      BY <3>2, FoundSlot DEF Touch
    <3>3. CASE AuthSucceeds(c) \/ Remove(c)
      BY <3>1, <3>3 DEF AuthSucceeds, Remove, At
    <3>4. CASE ~ (Touch(c) \/ AuthSucceeds(c) \/ Remove(c))
      BY <1>5, <3>4
         DEF Handler, Read, Receive, ReceiveEnd, Lookup, ClientNotFound, AuthFails,
             CheckAdmin, AnswerAnyone, Execute, SendReply, Leave, CountOff, CloseLast, table
    <3> QED
      BY <3>2, <3>3, <3>4
  <2> QED
    BY <2>1, <2>2, OthersOnlyFree
<1>6. CASE Telemetry \/ UNCHANGED vars
  <2>1. main' = main /\ UNCHANGED table
    BY <1>6 DEF Telemetry, StartBroadcast, SendNext, table, vars
  <2> QED
    BY <1>1, <2>1, OthersOnlyFree
<1>7. CASE Cleanup
  <2>1. main' = main
    BY <1>7 DEF Cleanup, TimeOut, CountTimedOut
  <2>2. CASE TimeOut
    <3>1. \E i \in Slots : Mgr!TimeOut(i)
      BY <2>2 DEF TimeOut, Mgr!TimeOut, Mgr!Inactive, Mgr!Registered, Slots
    <3> QED
      BY <1>1, <2>1, <3>1, OthersOnlyFree
  <2>3. CASE CountTimedOut
    BY <1>1, <2>1, <2>3, OthersOnlyFree DEF CountTimedOut, table
  <2> QED
    BY <1>7, <2>2, <2>3 DEF Cleanup
<1>8. ASSUME NEW i \in Slots, GrowStale(i)
      PROVE  main' = main /\ clientCount' <= clientCount
  BY <1>8, OthersOnlyFree DEF GrowStale
<1> QED
  BY <1>1, <1>2, <1>3, <1>4, <1>5, <1>6, <1>7, <1>8 DEF Next, MainStep

-----------------------------------------------------------------------------
(* Only one thread at a time has something to count off. *)
LEMMA CountingStep ==
  ASSUME Inv, [Next]_vars
  PROVE  CountingOK'
<1>0. CountingOK /\ handler \in [Conns -> HandlerRecords]
  BY DEF Inv, HandlersOK
<1>1. ASSUME UNCHANGED <<sweeping, owed>>,
             \A d \in Conns : handler'[d].pc = "count" => handler[d].pc = "count"
      PROVE  CountingOK'
  BY <1>0, <1>1 DEF CountingOK
<1>2. ASSUME \A d \in Conns : handler'[d].pc # "count" PROVE CountingOK'
  BY <1>2 DEF CountingOK
<1>3. ASSUME owed = 0 PROVE \A d \in Conns : handler[d].pc # "count"
  BY <1>0, <1>3 DEF CountingOK
<1>4. ASSUME NEW c \in Conns, Client(c) PROVE CountingOK'
  BY <1>1, <1>4 DEF Client, Connect, SendRequest, Hangup, Stall, ReadAgain, mutex
<1>5. ASSUME NEW c \in Conns, Remove(c) PROVE CountingOK'
  <2>1. \A d \in Conns : handler[d].pc # "count"
    BY <1>3, <1>5 DEF Remove, TableFree
  <2>2. \A d \in Conns : d # c => handler'[d] = handler[d]
    BY <1>0, <1>5 DEF Remove
  <2>3. CASE handler[c].idx \in Mgr!Registered
    BY <1>5, <2>1, <2>2, <2>3 DEF Remove, CountingOK, TableFree
  <2>4. CASE handler[c].idx \notin Mgr!Registered
    <3>1. handler'[c].pc = "close"
      BY <1>0, <1>5, <2>4 DEF Remove, HandlerRecords
    <3> QED
      BY <1>2, <2>1, <2>2, <3>1
  <2> QED
    BY <2>3, <2>4
<1>6. ASSUME NEW c \in Conns, CountOff(c) PROVE CountingOK'
  <2>1. \A d \in Conns : d # c => handler[d].pc # "count"
    BY <1>0, <1>6 DEF CountOff, At, CountingOK
  <2>2. handler'[c].pc = "close" /\ \A d \in Conns : d # c => handler'[d] = handler[d]
    BY <1>0, <1>6 DEF CountOff, HandlerRecords
  <2> QED
    BY <1>2, <2>1, <2>2
<1>7. ASSUME NEW c \in Conns, NEW r, Reply(c, r)
      PROVE  \A d \in Conns : handler'[d].pc = "count" => handler[d].pc = "count"
  BY <1>0, <1>7 DEF Reply, HandlerRecords
<1>8. ASSUME NEW c \in Conns,
             \/ ClientNotFound(c) \/ AuthSucceeds(c) \/ AuthFails(c) \/ AnswerAnyone(c)
             \/ Execute(c)
      PROVE  CountingOK'
  <2>1. PICK r : Reply(c, r)
    BY <1>8 DEF ClientNotFound, AuthSucceeds, AuthFails, AnswerAnyone, Execute
  <2>2. UNCHANGED <<sweeping, owed>>
    BY <1>8 DEF ClientNotFound, AuthSucceeds, AuthFails, AnswerAnyone, Execute, mutex
  <2> QED
    BY <1>1, <1>7, <2>1, <2>2
<1>9. ASSUME NEW c \in Conns, CheckAdmin(c) PROVE CountingOK'
  <2>1. UNCHANGED <<sweeping, owed>>
    BY <1>9 DEF CheckAdmin, mutex
  <2>2. CASE Reply(c, "ERROR")
    BY <1>1, <1>7, <2>1, <2>2
  <2>3. CASE handler' = [handler EXCEPT ![c].pc = "execute"]
    <3>1. \A d \in Conns : handler'[d].pc = "count" => handler[d].pc = "count"
      BY <1>0, <2>3 DEF HandlerRecords
    <3> QED
      BY <1>1, <2>1, <3>1
  <2> QED
    BY <1>9, <2>2, <2>3 DEF CheckAdmin
<1>10. ASSUME NEW c \in Conns,
              \/ Read(c) \/ Receive(c) \/ ReceiveEnd(c) \/ Touch(c) \/ Lookup(c)
              \/ SendReply(c) \/ Leave(c) \/ CloseLast(c)
       PROVE  CountingOK'
  <2>1. UNCHANGED <<sweeping, owed>>
    BY <1>10 DEF Read, Receive, ReceiveEnd, Touch, Lookup, SendReply, Leave, CloseLast, mutex
  <2>2. \A d \in Conns : d # c => handler'[d] = handler[d]
    BY <1>0, <1>10 DEF Read, Receive, ReceiveEnd, Touch, Lookup, SendReply, Leave, CloseLast
  <2>3. handler'[c].pc # "count"
    <3>1. CASE Read(c)
      BY <1>0, <3>1 DEF Read, HandlerRecords
    <3>2. CASE Receive(c)
      BY <1>0, <3>2 DEF Receive, HandlerRecords
    <3>3. CASE ReceiveEnd(c) \/ Touch(c) \/ Lookup(c)
      BY <1>0, <3>3 DEF ReceiveEnd, Touch, Lookup, HandlerRecords
    <3>4. CASE SendReply(c)
      <4>1. handler'[c].pc = "top"
        BY <1>0, <3>4 DEF SendReply, Idle
      <4> QED
        BY <4>1
    <3>6. CASE CloseLast(c)
      <4>1. handler'[c].pc = "none"
        BY <1>0, <3>6 DEF CloseLast, Idle
      <4> QED
        BY <4>1
    <3>5. CASE Leave(c)
      BY <1>0, <3>5 DEF Leave, HandlerRecords
    <3> QED
      BY <1>10, <3>1, <3>2, <3>3, <3>4, <3>5, <3>6
  <2> QED
    BY <1>1, <2>1, <2>2, <2>3
<1>11. CASE Spawn
  <2>1. UNCHANGED <<sweeping, owed>>
    BY <1>11 DEF Spawn, mutex
  <2>2. \A d \in Conns : handler'[d].pc = "count" => handler[d].pc = "count"
    BY <1>0, <1>11 DEF Spawn, Idle
  <2> QED
    BY <1>1, <2>1, <2>2
<1>12. CASE TimeOut
  <2>1. owed = 0 /\ handler' = handler
    BY <1>12 DEF TimeOut, MaySweep, TableFree
  <2> QED
    BY <1>2, <1>3, <2>1
<1>13. CASE CountTimedOut
  <2>1. sweeping /\ handler' = handler
    BY <1>13 DEF CountTimedOut
  <2> QED
    BY <1>0, <1>2, <2>1 DEF CountingOK
<1>14. CASE Accept \/ CheckSpace \/ Add \/ SpawnFails \/ UNCHANGED vars
  BY <1>1, <1>14 DEF Accept, CheckSpace, Add, SpawnFails, vars, mutex
<1>15. CASE Telemetry
  BY <1>1, <1>15 DEF Telemetry, StartBroadcast, SendNext
<1>16. ASSUME NEW i \in Slots, GrowStale(i) PROVE CountingOK'
  BY <1>1, <1>16 DEF GrowStale, mutex
<1> QED
  BY <1>4, <1>5, <1>6, <1>8, <1>9, <1>10, <1>11, <1>12, <1>13, <1>14, <1>15, <1>16
     DEF Next, MainStep, Handler, Cleanup

-----------------------------------------------------------------------------
LEMMA ServerInit == Init => Inv
<1> SUFFICES ASSUME Init PROVE Inv
  OBVIOUS
<1>1. TP!TableInv
  BY SameInit, TP!InvInit, TableAssumption DEF Init
<1>2. NetOK
  <2>1. <<>> \in Seq(Requests) /\ <<>> \in Seq(Conns)
    OBVIOUS
  <2> QED
    BY <2>1, ServerAssumption DEF Init, NetOK
<1>3. MainOK /\ RoomLeft
  BY DEF Init, MainOK, MainRecords, MainIdle, RoomLeft
<1>4. RestOK
  BY DEF Init, RestOK
<1>5. HandlersOK
  BY IdleIsOK DEF Init, HandlersOK, PlaceOK
<1>6. CountingOK
  BY DEF Init, CountingOK, Idle
<1> QED
  BY <1>1, <1>2, <1>3, <1>4, <1>5, <1>6 DEF Inv

LEMMA ServerStep == Inv /\ [Next]_vars => Inv'
  BY TableStep, NetStep, MainLocals, HandlersStep, RestStep, RoomStep,
     CountingStep DEF Inv

LEMMA ServerInv == Spec => []Inv
  BY ServerInit, ServerStep, PTL DEF Spec

-----------------------------------------------------------------------------
(* The type invariant of the server. *)
THEOREM ServerTypeCorrect == Spec => []TypeOK
<1>1. Inv => TypeOK
  BY TableTypes
     DEF Inv, TypeOK, NetOK, MainOK, MainRecords, HandlersOK, HandlerRecords, RestOK
<1> QED
  BY <1>1, ServerInv, PTL

(* Each step of each thread is one operation of the client table or leaves  *)
(* the table alone: the server implements the specification of the table,   *)
(* whose theorems therefore hold of it.                                     *)
THEOREM ServerImplementsTable == Spec => TableRefined
<1>1. Init => Mgr!TableInit
  BY DEF Init
<1>2. Inv /\ [Next]_vars => [Mgr!TableNext]_(Mgr!table)
  BY StepOnTable DEF table, Mgr!table
<1> QED
  BY <1>1, <1>2, ServerInv, PTL DEF Spec, TableRefined, Mgr!TableSpec

(* When main adds the client that it has checked for, without the mutex,    *)
(* there still is a slot: the branch of server.c:108-115 is never taken.    *)
THEOREM AddNeverFails == Spec => []AddSucceeds
<1>1. Inv => AddSucceeds
  BY RoomMeansFreeSlot DEF Inv, RoomLeft, AddSucceeds
<1> QED
  BY <1>1, ServerInv, PTL

(* main turns a connection away only when every slot is in use, or all but  *)
(* the one that another thread has freed and not yet counted off, although  *)
(* it reads the counter without the mutex while the threads free slots.     *)
THEOREM RefusesAtMostOneEarly == Spec => RefusalMissesOneSlot
<1> DEFINE Refuses == main.pc = "check" /\ main'.pc = "accept"
           NoRoom == Mgr!Free = {} \/ (owed = 1 /\ Cardinality(Mgr!Free) = 1)
<1>1. Inv /\ [Next]_vars => [Refuses => NoRoom]_vars
  <2> SUFFICES ASSUME Inv, Next, Refuses PROVE NoRoom
    OBVIOUS
  <2>1. main \in MainRecords
    BY DEF Inv, MainOK
  <2>2. CASE main' = main
    BY <2>2
  <2>3. CASE CheckSpace
    <3>1. ~ HasSpace
      BY <2>1, <2>3 DEF CheckSpace, MainRecords
    <3>2. owed \in {0, 1} /\ clientCount \in 0 .. MaxClients
          /\ clientCount = Cardinality(Mgr!Registered)
      BY TableTypes DEF Inv, RestOK
    <3>3. IsFiniteSet(Mgr!Slots) /\ Cardinality(Mgr!Slots) = MaxClients
      BY ServerAssumption, FS_Interval DEF Mgr!Slots
    <3>4. IsFiniteSet(Mgr!Free) /\ Cardinality(Mgr!Free) = MaxClients - clientCount
      <4>1. Mgr!Registered \in SUBSET Mgr!Slots /\ Mgr!Free \in SUBSET Mgr!Slots
        BY DEF Mgr!Registered, Mgr!Free
      <4>2. Mgr!Free = Mgr!Slots \ Mgr!Registered
        BY DEF Mgr!Registered, Mgr!Free
      <4>3. Mgr!Slots \cap Mgr!Registered = Mgr!Registered
        BY <4>1
      <4>4. IsFiniteSet(Mgr!Free)
        BY <3>3, <4>1, FS_Subset
      <4>5. Cardinality(Mgr!Free)
            = Cardinality(Mgr!Slots) - Cardinality(Mgr!Slots \cap Mgr!Registered)
        <5>1. IsFiniteSet(Mgr!Slots)
          BY <3>3
        <5>2. IsFiniteSet(Mgr!Registered)
          BY <4>1, <5>1, FS_Subset
        <5> QED
          BY <4>2, <5>1, <5>2, FS_Difference
      <4> QED
        BY <3>2, <3>3, <4>3, <4>4, <4>5
    <3>5. Cardinality(Mgr!Free) <= owed
      BY <3>1, <3>2, <3>4, ServerAssumption DEF HasSpace
    <3>6. CASE owed = 0
      BY <3>2, <3>4, <3>5, <3>6, ServerAssumption, FS_EmptySet
    <3>7. CASE owed = 1
      <4>1. Cardinality(Mgr!Free) \in {0, 1}
        BY <3>2, <3>4, <3>5, <3>7, ServerAssumption
      <4> QED
        BY <3>4, <3>7, <4>1, FS_EmptySet
    <3> QED
      BY <3>2, <3>6, <3>7
  <2>4. ASSUME NEW c \in Conns, Client(c) \/ Handler(c)
        PROVE  main' = main
    BY <2>4
       DEF Client, Connect, SendRequest, Hangup, Stall, ReadAgain,
           Handler, Read, Receive, ReceiveEnd, Touch, Lookup, ClientNotFound,
           AuthSucceeds, AuthFails, CheckAdmin, AnswerAnyone, Execute, SendReply,
           Leave, Remove, CountOff, CloseLast
  <2>5. CASE Telemetry \/ Cleanup \/ \E i \in Slots : GrowStale(i)
    BY <2>2, <2>5
       DEF Telemetry, StartBroadcast, SendNext, Cleanup, TimeOut, CountTimedOut, GrowStale
  <2>6. ~ (Accept \/ Add \/ Spawn \/ SpawnFails)
    BY <2>1 DEF Accept, Add, Spawn, SpawnFails, MainAt
  <2> QED
    BY <2>2, <2>3, <2>4, <2>5, <2>6 DEF Next, MainStep
<1> QED
  BY <1>1, ServerInv, PTL DEF Spec, RefusalMissesOneSlot

-----------------------------------------------------------------------------
(* The descriptors.  Only accept opens one, only AddClient overwrites a     *)
(* slot, which was free, and whoever clears a slot closes what it held or   *)
(* has timed it out.  For the thread that cannot be started this takes that *)
(* main still finds its own descriptor in the slot it fills, or none.       *)

SlotIsMains ==
  main.pc = "spawn" => socket[main.slot] \in {main.sock, Mgr!NoSocket}

LEMMA SlotIsMainsStep ==
  ASSUME Inv, SlotIsMains, [Next]_vars
  PROVE  SlotIsMains'
<1>0. /\ main \in MainRecords /\ MainOK
      /\ socket \in [Mgr!Slots -> Sockets \cup {Mgr!NoSocket}]
      /\ peer \in [Mgr!Slots -> Conns \cup {NoConn}]
  BY TableTypes DEF Inv, MainOK, Mgr!TableTypeOK
<1>1. ASSUME main' = main, \A i \in Mgr!Slots : socket'[i] \in {socket[i], Mgr!NoSocket}
      PROVE  SlotIsMains'
  <2>1. main.pc = "spawn" => main.slot \in Mgr!Slots
    BY <1>0 DEF MainOK, Slots
  <2> QED
    BY <1>1, <2>1 DEF SlotIsMains
<1>2. ASSUME main'.pc # "spawn" PROVE SlotIsMains'
  BY <1>2 DEF SlotIsMains
<1>3. ASSUME NEW i \in Slots, Mgr!RemoveClient(i)
      PROVE  \A j \in Mgr!Slots : socket'[j] \in {socket[j], Mgr!NoSocket}
  BY <1>0, <1>3 DEF Mgr!RemoveClient, Mgr!table
<1>4. CASE Add
  <2> DEFINE k == Mgr!NewSlot
  <2>1. /\ socket' = [socket EXCEPT ![k] = main.sock]
        /\ main' = [main EXCEPT !.pc = "spawn", !.slot = k]
    BY <1>4 DEF Add, Mgr!AddClient
  <2>2. k \in Mgr!Slots
    <3>1. TP!CanAdd
      BY <1>4, SameOperators DEF Add, Mgr!AddClient
    <3> QED
      BY <3>1, SameOperators, TP!NewSlotIsFree, TableAssumption, NewSlotIsSlot DEF Slots
  <2>3. main'.slot = k /\ main'.sock = main.sock /\ socket'[k] = main.sock
    BY <1>0, <2>1, <2>2 DEF MainRecords
  <2> QED
    BY <2>3 DEF SlotIsMains
<1>5. CASE Accept \/ CheckSpace \/ Spawn \/ SpawnFails
  <2>1. CASE Accept
    BY <1>0, <1>2, <2>1 DEF Accept, MainRecords
  <2>2. CASE CheckSpace
    BY <1>0, <1>2, <2>2 DEF CheckSpace, MainIdle, MainRecords
  <2>3. CASE Spawn \/ SpawnFails
    BY <1>2, <2>3 DEF Spawn, SpawnFails, MainIdle
  <2> QED
    BY <1>5, <2>1, <2>2, <2>3
<1>6. ASSUME NEW c \in Conns, Remove(c) PROVE SlotIsMains'
  <2>1. handler[c].idx \in Slots
    BY <1>6 DEF Remove, At, Inv, HandlersOK, PlaceOK
  <2> QED
    BY <1>1, <1>3, <1>6, <2>1 DEF Remove
<1>7. CASE TimeOut
  BY <1>0, <1>1, <1>7 DEF TimeOut, Mgr!TimeOut
<1>8. CASE UNCHANGED <<main, socket>>
  BY <1>8 DEF SlotIsMains
<1>9. ASSUME NEW c \in Conns,
             \/ Client(c) \/ CountOff(c) \/ CloseLast(c)
             \/ Read(c) \/ Receive(c) \/ ReceiveEnd(c) \/ Touch(c) \/ Lookup(c)
             \/ ClientNotFound(c) \/ AuthSucceeds(c) \/ AuthFails(c) \/ CheckAdmin(c)
             \/ AnswerAnyone(c) \/ Execute(c) \/ SendReply(c) \/ Leave(c)
      PROVE  UNCHANGED <<main, socket>>
  BY <1>9
     DEF Client, Connect, SendRequest, Hangup, Stall, ReadAgain, CountOff, CloseLast, Read, Receive,
         ReceiveEnd, Touch, Lookup, ClientNotFound, AuthSucceeds, AuthFails, CheckAdmin,
         AnswerAnyone, Execute, SendReply, Leave, table, network, Mgr!UpdateActivity,
         Mgr!Authenticate
<1>10. ASSUME NEW i \in Slots, GrowStale(i) PROVE UNCHANGED <<main, socket>>
  BY <1>10 DEF GrowStale, Mgr!GrowStale, network
<1>11. CASE Telemetry \/ CountTimedOut \/ UNCHANGED vars
  BY <1>8, <1>11
     DEF Telemetry, StartBroadcast, SendNext, CountTimedOut, vars, table, network
<1> QED
  BY <1>4, <1>5, <1>6, <1>7, <1>8, <1>9, <1>10, <1>11 DEF Next, MainStep, Handler, Cleanup

(* A step that closes some descriptors at most, and leaves main and the     *)
(* table as they are, loses none.                                           *)
LEMMA ClosingLosesNone ==
  ASSUME NoOtherLeak,
         UNCHANGED <<main, socket, peer>>, timedOut \subseteq timedOut',
         \A s \in Sockets : fd'[s] \in {fd[s], NoConn}
  PROVE  NoOtherLeak'
  BY DEF NoOtherLeak, Mgr!Registered

(* The same for a slot that is cleared while its descriptor is closed.      *)
LEMMA ClearingLosesNone ==
  ASSUME Inv, NoOtherLeak, NEW i \in Slots, Mgr!RemoveClient(i),
         UNCHANGED timedOut, main' = main \/ (main.pc = "spawn" /\ main' = MainIdle),
         \A s \in Sockets : fd'[s] \in {fd[s], NoConn},
         socket[i] \in Sockets => fd'[socket[i]] = NoConn
  PROVE  NoOtherLeak'
<1>1. socket \in [Mgr!Slots -> Sockets \cup {Mgr!NoSocket}]
  BY TableTypes DEF Inv, Mgr!TableTypeOK
<1>2. CASE i \notin Mgr!Registered
  <2>1. UNCHANGED <<socket, peer>>
    BY <1>2 DEF Mgr!RemoveClient, Mgr!table
  <2> QED
    BY <2>1 DEF NoOtherLeak, Mgr!Registered, MainIdle
<1>3. CASE i \in Mgr!Registered
  <2>1. socket' = [socket EXCEPT ![i] = Mgr!NoSocket] /\ peer' = peer
    BY <1>3 DEF Mgr!RemoveClient
  <2>2. socket[i] \in Sockets
    BY <1>1, <1>3 DEF Mgr!Registered
  <2>3. \A j \in Mgr!Registered : j # i => j \in Mgr!Registered' /\ socket'[j] = socket[j]
    BY <1>1, <2>1 DEF Mgr!Registered
  <2>4. \A s \in Sockets : fd'[s] # NoConn => s # socket[i] /\ fd[s] = fd'[s]
    BY <2>2
  <2>5. \A s \in Sockets : fd'[s] # NoConn => fd[s] # NoConn
    OBVIOUS
  <2> QED
    BY <2>1, <2>3, <2>4, <2>5 DEF NoOtherLeak, MainIdle
<1> QED
  BY <1>2, <1>3

LEMMA LeakStep ==
  ASSUME Inv, SlotIsMains, NoOtherLeak, [Next]_vars
  PROVE  NoOtherLeak'
<1>0. /\ fd \in [Sockets -> Conns \cup {NoConn}]
      /\ main \in MainRecords /\ MainOK
      /\ socket \in [Mgr!Slots -> Sockets \cup {Mgr!NoSocket}]
      /\ peer \in [Mgr!Slots -> Conns \cup {NoConn}]
  BY TableTypes DEF Inv, NetOK, MainOK, Mgr!TableTypeOK
<1>1. ASSUME NEW s PROVE \A t \in Sockets : Closed(s)[t] \in {fd[t], NoConn}
  BY <1>0 DEF Closed
<1>2. CASE Accept
  <2> DEFINE new == Mgr!Lowest(FreeSockets)
  <2>1. new \in Sockets /\ fd[new] = NoConn
    <3>1. FreeSockets \in SUBSET Nat
      BY ServerAssumption DEF FreeSockets
    <3>2. TP!Lowest(FreeSockets) \in FreeSockets
      BY <1>2, <3>1, TP!LowestIsMember, TableAssumption DEF Accept
    <3> QED
      BY <3>2 DEF FreeSockets, Mgr!Lowest, TP!Lowest
  <2>2. /\ fd' = [fd EXCEPT ![new] = Head(backlog)]
        /\ main' = [main EXCEPT !.pc = "check", !.conn = Head(backlog), !.sock = new]
        /\ UNCHANGED <<socket, peer, timedOut>> /\ main.pc = "accept"
    BY <1>2 DEF Accept, MainAt, table, history
  <2>3. main'.pc = "check" /\ main'.sock = new /\ main'.conn = fd'[new]
    BY <1>0, <2>1, <2>2 DEF MainRecords
  <2>4. \A s \in Sockets : s # new => fd'[s] = fd[s]
    BY <1>0, <2>2
  <2> QED
    BY <2>2, <2>3, <2>4 DEF NoOtherLeak, Mgr!Registered
<1>3. CASE CheckSpace
  <2>1. UNCHANGED <<socket, peer, timedOut>> /\ main.pc = "check"
    BY <1>3 DEF CheckSpace, MainAt, table, history
  <2>2. CASE main' = [main EXCEPT !.pc = "add"] /\ UNCHANGED fd
    BY <1>0, <2>1, <2>2 DEF NoOtherLeak, Mgr!Registered, MainRecords
  <2>3. CASE main' = MainIdle /\ fd' = Closed(main.sock)
    <3>1. \A s \in Sockets : fd'[s] # NoConn => fd[s] = fd'[s] /\ main.sock # s
      BY <1>0, <2>3 DEF Closed
    <3> QED
      BY <2>1, <2>3, <3>1 DEF NoOtherLeak, Mgr!Registered
  <2> QED
    BY <1>3, <2>2, <2>3 DEF CheckSpace
<1>4. CASE Add
  <2> DEFINE k == Mgr!NewSlot
  <2>1. /\ socket' = [socket EXCEPT ![k] = main.sock]
        /\ peer' = [peer EXCEPT ![k] = main.conn]
        /\ main' = [main EXCEPT !.pc = "spawn", !.slot = k]
        /\ UNCHANGED <<fd, timedOut>> /\ main.pc = "add"
    BY <1>4 DEF Add, MainAt, Mgr!AddClient, network
  <2>2. k \in Mgr!Free /\ k \in Mgr!Slots
    <3>1. TP!CanAdd
      BY <1>4, SameOperators DEF Add, Mgr!AddClient
    <3> QED
      BY <3>1, SameOperators, TP!NewSlotIsFree, TableAssumption, NewSlotIsSlot DEF Slots
  <2>3. k \notin Mgr!Registered
    BY <2>2 DEF Mgr!Free, Mgr!Registered
  <2>4. main.sock \in Sockets /\ main.sock # Mgr!NoSocket
    BY <1>0, <2>1, SlotsAreNumbers DEF MainOK, NoSocket
  <2>5. k \in Mgr!Registered' /\ socket'[k] = main.sock /\ peer'[k] = main.conn
    BY <1>0, <2>1, <2>2, <2>4 DEF Mgr!Registered
  <2>6. \A i \in Mgr!Registered :
          i \in Mgr!Registered' /\ socket'[i] = socket[i] /\ peer'[i] = peer[i]
    BY <1>0, <2>1, <2>3 DEF Mgr!Registered
  <2> QED
    BY <2>1, <2>5, <2>6 DEF NoOtherLeak
<1>5. CASE Spawn
  BY <1>0, <1>5
     DEF Spawn, MainAt, NoOtherLeak, Mgr!Registered, MainIdle, table, network, history
<1>6. CASE SpawnFails
  <2>1. main.slot \in Slots /\ main.pc = "spawn" /\ main.sock \in Sockets
    BY <1>0, <1>6 DEF SpawnFails, MainAt, MainOK
  <2>2. /\ Mgr!RemoveClient(main.slot) /\ fd' = Closed(main.sock)
        /\ main' = MainIdle /\ UNCHANGED timedOut
    BY <1>6 DEF SpawnFails, history
  <2>3. socket[main.slot] \in Sockets => socket[main.slot] = main.sock
    BY <2>1, SlotsAreNumbers DEF SlotIsMains, NoSocket
  <2>4. socket[main.slot] \in Sockets => fd'[socket[main.slot]] = NoConn
    BY <2>1, <2>2, <2>3 DEF Closed
  <2> QED
    BY <1>1, <2>1, <2>2, <2>4, ClearingLosesNone
<1>7. ASSUME NEW c \in Conns, Remove(c) PROVE NoOtherLeak'
  <2> DEFINE i == handler[c].idx
  <2>1. i \in Slots
    BY <1>7 DEF Remove, At, Inv, HandlersOK, PlaceOK
  <2>2. Mgr!RemoveClient(i) /\ fd' = Closed(socket[i]) /\ UNCHANGED <<main, timedOut>>
    BY <1>7 DEF Remove, history
  <2>3. socket[i] \in Sockets => fd'[socket[i]] = NoConn
    BY <2>2 DEF Closed
  <2> QED
    BY <1>1, <2>1, <2>2, <2>3, ClearingLosesNone
<1>8. ASSUME NEW c \in Conns, CloseLast(c) PROVE NoOtherLeak'
  BY <1>1, <1>8, ClosingLosesNone DEF CloseLast, table, history
<1>9. CASE TimeOut
  <2> DEFINE i == Mgr!Lowest(Mgr!Inactive)
  <2>1. /\ UNCHANGED <<fd, main, peer>>
        /\ socket' = [socket EXCEPT ![i] = Mgr!NoSocket]
        /\ timedOut' = timedOut \cup {peer[i]}
    BY <1>9 DEF TimeOut, NextInactive, Mgr!TimeOut, network
  <2>2. \A j \in Mgr!Registered :
          \/ peer[j] \in timedOut'
          \/ j \in Mgr!Registered' /\ socket'[j] = socket[j]
    BY <1>0, <2>1 DEF Mgr!Registered
  <2> QED
    BY <2>1, <2>2 DEF NoOtherLeak
<1>10. CASE UNCHANGED <<main, socket, peer, timedOut, fd>>
  BY <1>10 DEF NoOtherLeak, Mgr!Registered
<1>11. ASSUME NEW c \in Conns, Client(c) PROVE UNCHANGED <<main, socket, peer, timedOut, fd>>
  BY <1>11 DEF Client, Connect, SendRequest, Hangup, Stall, ReadAgain, table, history
<1>12. ASSUME NEW c \in Conns,
              \/ Read(c) \/ Receive(c) \/ ReceiveEnd(c) \/ Touch(c) \/ Lookup(c)
              \/ ClientNotFound(c) \/ AuthSucceeds(c) \/ AuthFails(c) \/ CheckAdmin(c)
              \/ AnswerAnyone(c) \/ Execute(c) \/ SendReply(c) \/ Leave(c)
              \/ CountOff(c)
       PROVE  UNCHANGED <<main, socket, peer, timedOut, fd>>
  BY <1>12
     DEF Read, Receive, ReceiveEnd, Touch, Lookup, ClientNotFound, AuthSucceeds,
         AuthFails, CheckAdmin, AnswerAnyone, Execute, SendReply, Leave, CountOff, table, network,
         history, Mgr!UpdateActivity, Mgr!Authenticate
<1>13. ASSUME NEW i \in Slots, GrowStale(i)
       PROVE  UNCHANGED <<main, socket, peer, timedOut, fd>>
  BY <1>13 DEF GrowStale, Mgr!GrowStale, network, history
<1>14. CASE Telemetry \/ CountTimedOut \/ UNCHANGED vars
  BY <1>10, <1>14
     DEF Telemetry, StartBroadcast, SendNext, CountTimedOut, vars, table, network, history
<1> QED
  BY <1>2, <1>3, <1>4, <1>5, <1>6, <1>7, <1>8, <1>9, <1>10, <1>11, <1>12, <1>13, <1>14
     DEF Next, MainStep, Handler, Cleanup

(* No path of the server but the time-out loses an open descriptor: not the *)
(* refusal, not the thread that cannot be started, not the handler whose    *)
(* slot was timed out and given away, in whatever order they come.          *)
THEOREM OnlyTimeoutsLeak == Spec => []NoOtherLeak
<1>1. Init => NoOtherLeak /\ SlotIsMains
  BY DEF Init, NoOtherLeak, SlotIsMains, MainIdle
<1>2. Inv /\ NoOtherLeak /\ SlotIsMains /\ [Next]_vars => NoOtherLeak' /\ SlotIsMains'
  BY LeakStep, SlotIsMainsStep
<1> QED
  BY <1>1, <1>2, ServerInv, PTL DEF Spec

-----------------------------------------------------------------------------
(* Who owns what.  A connection is in one place at a time: not yet opened,  *)
(* in the backlog, with main, or with the handler that was started for it.  *)

Distinct(s) == \A j, k \in DOMAIN s : s[j] = s[k] => j = k

Waiting ==
  /\ Distinct(backlog)
  /\ \A c \in Conns : phase[c] = "idle" => c \notin Queued
  /\ \A c \in Conns : phase[c] = "idle" \/ c \in Queued => ~ Live(c)

WithMain ==
  main.pc # "accept" =>
    phase[main.conn] # "idle" /\ main.conn \notin Queued /\ ~ Live(main.conn)

Fresh == Waiting /\ WithMain

(* A step that opens no connection, takes none from the backlog and starts  *)
(* no handler.                                                              *)
LEMMA FreshFrame ==
  ASSUME Inv, Fresh, backlog' = backlog,
         \A c \in Conns : phase'[c] = "idle" => phase[c] = "idle",
         \A c \in Conns : Live(c)' => Live(c),
         main'.pc # "accept" => main.pc # "accept" /\ main'.conn = main.conn
  PROVE  Fresh'
<1>1. Queued' = Queued
  BY DEF Queued
<1>2. main.pc # "accept" => main.conn \in Conns
  BY DEF Inv, MainOK
<1> QED
  BY <1>1, <1>2 DEF Fresh, Waiting, WithMain, Distinct

(* A send may reset a connection, but does not make it unused. *)
LEMMA SendKeepsOpen ==
  ASSUME Inv, NEW s, SendOn(s)
  PROVE  \A c \in Conns : phase'[c] = "idle" => phase[c] = "idle"
<1>1. phase \in [Conns -> {"idle", "open", "stalled", "gone", "reset", "broken"}]
  BY DEF Inv, NetOK
<1> QED
  BY <1>1 DEF SendOn

LEMMA QueueGrows ==
  ASSUME backlog \in Seq(Conns), NEW c \in Conns, c \notin Queued, Distinct(backlog),
         backlog' = Append(backlog, c)
  PROVE  Queued' = Queued \cup {c} /\ Distinct(backlog)'
<1> DEFINE n == Len(backlog)
<1>1. /\ n \in Nat /\ DOMAIN backlog = 1 .. n /\ DOMAIN backlog' = 1 .. n + 1
      /\ backlog'[n + 1] = c
      /\ \A k \in 1 .. n : backlog'[k] = backlog[k]
  OBVIOUS
<1>2. \A k \in 1 .. n + 1 : k \in 1 .. n \/ k = n + 1
  BY <1>1
<1>3. \A k \in 1 .. n : k \in 1 .. n + 1
  BY <1>1
<1>4. n + 1 \in 1 .. n + 1
  BY <1>1
<1> HIDE DEF n
<1>5. Queued = {backlog[k] : k \in 1 .. n} /\ Queued' = {backlog'[k] : k \in 1 .. n + 1}
  BY <1>1 DEF Queued
<1>6. Queued' = Queued \cup {c}
  BY <1>1, <1>2, <1>3, <1>4, <1>5
<1>7. \A k \in 1 .. n : backlog[k] # c
  BY <1>5
<1>8. Distinct(backlog)'
  <2> SUFFICES ASSUME NEW j \in 1 .. n + 1, NEW k \in 1 .. n + 1, backlog'[j] = backlog'[k]
               PROVE  j = k
    BY <1>1 DEF Distinct
  <2> QED
    BY <1>1, <1>2, <1>7 DEF Distinct
<1> QED
  BY <1>6, <1>8

LEMMA QueueShrinks ==
  ASSUME backlog \in Seq(Conns), backlog # <<>>, Distinct(backlog),
         backlog' = Tail(backlog)
  PROVE  /\ Head(backlog) \in Queued /\ Head(backlog) \in Conns
         /\ Queued' \subseteq Queued /\ Head(backlog) \notin Queued'
         /\ Distinct(backlog)'
<1> DEFINE n == Len(backlog)
<1>1. /\ n \in Nat \ {0} /\ DOMAIN backlog = 1 .. n /\ DOMAIN backlog' = 1 .. n - 1
      /\ Head(backlog) = backlog[1]
      /\ \A k \in 1 .. n - 1 : backlog'[k] = backlog[k + 1]
  OBVIOUS
<1>2. 1 \in 1 .. n /\ \A k \in 1 .. n - 1 : k + 1 \in 1 .. n /\ k + 1 # 1
  BY <1>1
<1> HIDE DEF n
<1>3. Queued = {backlog[k] : k \in 1 .. n} /\ Queued' = {backlog'[k] : k \in 1 .. n - 1}
  BY <1>1 DEF Queued
<1>4. Head(backlog) \in Queued /\ Head(backlog) \in Conns /\ Queued' \subseteq Queued
  BY <1>1, <1>2, <1>3
<1>5. Head(backlog) \notin Queued'
  BY <1>1, <1>2, <1>3 DEF Distinct
<1>6. Distinct(backlog)'
  <2> SUFFICES ASSUME NEW j \in 1 .. n - 1, NEW k \in 1 .. n - 1, backlog'[j] = backlog'[k]
               PROVE  j = k
    BY <1>1 DEF Distinct
  <2>1. j + 1 = k + 1
    BY <1>1, <1>2 DEF Distinct
  <2> QED
    BY <1>1, <2>1
<1> QED
  BY <1>4, <1>5, <1>6

(* A step of one handler leaves the locals of the others alone. *)
LEMMA OthersStay ==
  ASSUME Inv, NEW c \in Conns, Handler(c)
  PROVE  Live(c) /\ \A d \in Conns : d # c => handler'[d] = handler[d]
<1>0. handler \in [Conns -> HandlerRecords]
  BY DEF Inv, HandlersOK
<1>1. Live(c)
  BY DEF Handler, Read, Receive, ReceiveEnd, Touch, Lookup, ClientNotFound,
         AuthSucceeds, AuthFails, CheckAdmin, AnswerAnyone, Execute, SendReply,
         Leave, Remove, CountOff, CloseLast, At, Live
<1> SUFFICES ASSUME NEW d \in Conns, d # c PROVE handler'[d] = handler[d]
  BY <1>1
<1>2. ASSUME NEW r, Reply(c, r) PROVE handler'[d] = handler[d]
  BY <1>0, <1>2 DEF Reply
<1>3. CASE \/ ClientNotFound(c) \/ AuthSucceeds(c) \/ AuthFails(c) \/ AnswerAnyone(c)
           \/ Execute(c)
  BY <1>2, <1>3 DEF ClientNotFound, AuthSucceeds, AuthFails, AnswerAnyone, Execute
<1>4. CASE CheckAdmin(c)
  BY <1>0, <1>2, <1>4 DEF CheckAdmin
<1>5. CASE Read(c)
  BY <1>0, <1>5 DEF Read
<1>6. CASE Receive(c)
  BY <1>0, <1>6 DEF Receive
<1>7. CASE ReceiveEnd(c)
  BY <1>0, <1>7 DEF ReceiveEnd
<1>8. CASE Touch(c)
  BY <1>0, <1>8 DEF Touch
<1>9. CASE Lookup(c)
  BY <1>0, <1>9 DEF Lookup
<1>10. CASE SendReply(c)
  BY <1>0, <1>10 DEF SendReply
<1>11. CASE Leave(c)
  BY <1>0, <1>11 DEF Leave
<1>12. CASE Remove(c)
  BY <1>0, <1>12 DEF Remove
<1>13. CASE CountOff(c) \/ CloseLast(c)
  BY <1>0, <1>13 DEF CountOff, CloseLast
<1> QED
  BY <1>3, <1>4, <1>5, <1>6, <1>7, <1>8, <1>9, <1>10, <1>11, <1>12, <1>13 DEF Handler

LEMMA FreshStep ==
  ASSUME Inv, Fresh, [Next]_vars
  PROVE  Fresh'
<1>0. /\ phase \in [Conns -> {"idle", "open", "stalled", "gone", "reset", "broken"}]
      /\ handler \in [Conns -> HandlerRecords]
      /\ backlog \in Seq(Conns) /\ main \in MainRecords
      /\ main.pc # "accept" => main.conn \in Conns
  BY DEF Inv, NetOK, HandlersOK, MainOK
<1>1. ASSUME NEW c \in Conns, Connect(c) PROVE Fresh'
  <2>1. /\ phase[c] = "idle" /\ phase' = [phase EXCEPT ![c] = "open"]
        /\ backlog' = Append(backlog, c) /\ UNCHANGED <<main, handler>>
    BY <1>1 DEF Connect
  <2>2. c \notin Queued /\ ~ Live(c) /\ Distinct(backlog)
    BY <2>1 DEF Fresh, Waiting
  <2>3. Queued' = Queued \cup {c} /\ Distinct(backlog)'
    BY <1>0, <2>1, <2>2, QueueGrows
  <2>4. main.pc # "accept" => main.conn # c
    BY <2>1 DEF Fresh, WithMain
  <2> QED
    BY <1>0, <2>1, <2>2, <2>3, <2>4 DEF Fresh, Waiting, WithMain, Live
<1>2. CASE Accept
  <2>1. /\ main.pc = "accept" /\ backlog # <<>> /\ backlog' = Tail(backlog)
        /\ main'.conn = Head(backlog) /\ UNCHANGED <<phase, handler>>
    BY <1>0, <1>2 DEF Accept, MainAt, MainRecords
  <2>2. /\ Head(backlog) \in Queued /\ Head(backlog) \in Conns
        /\ Queued' \subseteq Queued /\ Head(backlog) \notin Queued'
        /\ Distinct(backlog)'
    BY <1>0, <2>1, QueueShrinks DEF Fresh, Waiting
  <2> QED
    BY <2>1, <2>2 DEF Fresh, Waiting, WithMain, Live
<1>3. CASE CheckSpace \/ Add \/ SpawnFails
  <2>1. main.pc # "accept" /\ UNCHANGED <<backlog, phase, handler>>
    BY <1>3 DEF CheckSpace, Add, SpawnFails, MainAt, network
  <2>2. main'.pc # "accept" => main'.conn = main.conn
    <3>1. CASE CheckSpace
      BY <1>0, <3>1 DEF CheckSpace, MainIdle, MainRecords
    <3>2. CASE Add
      BY <1>0, <3>2 DEF Add, MainRecords
    <3>3. CASE SpawnFails
      BY <3>3 DEF SpawnFails, MainIdle
    <3> QED
      BY <1>3, <3>1, <3>2, <3>3
  <2> QED
    BY <2>1, <2>2, FreshFrame DEF Live
<1>4. CASE Spawn
  <2>1. /\ main.pc = "spawn" /\ main' = MainIdle /\ UNCHANGED <<backlog, phase>>
        /\ \A c \in Conns : c # main.conn => handler'[c] = handler[c]
    BY <1>0, <1>4 DEF Spawn, MainAt, network
  <2>2. main.conn \notin Queued /\ phase[main.conn] # "idle"
    BY <2>1 DEF Fresh, WithMain
  <2> QED
    BY <2>1, <2>2 DEF Fresh, Waiting, WithMain, Live, MainIdle, Queued
<1>5. ASSUME NEW c \in Conns, \/ \E r \in Requests : SendRequest(c, r)
                              \/ Hangup(c) \/ Stall(c) \/ ReadAgain(c)
      PROVE  Fresh'
  <2>1. \A d \in Conns : phase'[d] = "idle" => phase[d] = "idle"
    BY <1>0, <1>5 DEF SendRequest, Hangup, Stall, ReadAgain
  <2>2. UNCHANGED <<backlog, handler, main>>
    BY <1>5 DEF SendRequest, Hangup, Stall, ReadAgain
  <2> QED
    BY <2>1, <2>2, FreshFrame DEF Live
<1>6. ASSUME NEW c \in Conns, Handler(c) PROVE Fresh'
  <2>1. backlog' = backlog /\ main' = main
    BY <1>6
       DEF Handler, Read, Receive, ReceiveEnd, Touch, Lookup, ClientNotFound, network,
           AuthSucceeds, AuthFails, CheckAdmin, AnswerAnyone, Execute, SendReply,
           Leave, Remove, CountOff, CloseLast
  <2>2. Live(c) /\ \A d \in Conns : d # c => handler'[d] = handler[d]
    BY <1>6, OthersStay
  <2>3. \A d \in Conns : phase'[d] = "idle" => phase[d] = "idle"
    <3>1. CASE SendReply(c)
      BY <3>1, SendKeepsOpen DEF SendReply
    <3>2. CASE ReceiveEnd(c)
      BY <1>0, <3>2 DEF ReceiveEnd, Reported
    <3>3. CASE ~ (SendReply(c) \/ ReceiveEnd(c))
      BY <1>6, <3>3
         DEF Handler, Read, Receive, Touch, Lookup, ClientNotFound, network,
             AuthSucceeds, AuthFails, CheckAdmin, AnswerAnyone, Execute,
             Leave, Remove, CountOff, CloseLast
    <3> QED
      BY <3>1, <3>2, <3>3
  <2> QED
    BY <2>1, <2>2, <2>3, FreshFrame DEF Live
<1>7. CASE SendNext
  BY <1>7, SendKeepsOpen, FreshFrame DEF SendNext, Live
<1>8. CASE \/ StartBroadcast \/ Cleanup \/ UNCHANGED vars
           \/ \E i \in Slots : GrowStale(i)
  <2>1. UNCHANGED <<backlog, phase, handler, main>>
    BY <1>8 DEF StartBroadcast, Cleanup, TimeOut, CountTimedOut, vars, GrowStale, network
  <2> QED
    BY <2>1, FreshFrame DEF Live
<1> QED
  BY <1>1, <1>2, <1>3, <1>4, <1>5, <1>6, <1>7, <1>8
     DEF Next, Client, MainStep, Telemetry
-----------------------------------------------------------------------------
(* As long as no slot was given away under its handler, a handler finds in  *)
(* its slot its own client or nobody, serves the connection it was started  *)
(* for, sends to it, and finds itself in the table.                         *)
Owns(c, h) ==
  /\ h.slot \in Mgr!Registered => peer[h.slot] = c /\ h.pc \notin {"count", "close"}
  /\ h.pc = "recv" \/ h.pc \in Serving => h.file = c
  /\ h.pc \in Serving \ {"touch"} /\ h.sock # NoSocket => fd[h.sock] = c
  /\ h.pc \in {"dispatch", "remove"} => h.idx \in {h.slot, NoSlot}
  /\ admin[h.slot] \/ h.pc = "execute" => c \in granted

HandlersOwn == \A c \in Conns : Live(c) => Owns(c, handler[c])

Apart ==
  \A c, d \in Conns : Live(c) /\ Live(d) /\ handler[c].slot = handler[d].slot => c = d

(* The slot that main has just filled is its own as well. *)
MainOwns ==
  /\ main.pc # "accept" => fd[main.sock] = main.conn
  /\ main.pc = "spawn" =>
       /\ main.slot \in Mgr!Registered => peer[main.slot] = main.conn
       /\ ~ admin[main.slot]
       /\ \A c \in Conns : Live(c) => handler[c].slot # main.slot

Serves(i) ==
  \/ Live(peer[i]) /\ handler[peer[i]].slot = i
  \/ main.pc = "spawn" /\ main.slot = i

Served ==
  \A i \in Mgr!Registered :
    peer[i] \in Conns /\ fd[socket[i]] = peer[i] /\ Serves(i)

Own == HandlersOwn /\ Apart /\ MainOwns /\ Served /\ obeyed \subseteq granted

OwnInv == Fresh /\ SlotIsMains /\ (~ reused => Own)

-----------------------------------------------------------------------------
LEMMA Types ==
  ASSUME Inv
  PROVE  /\ socket \in [Slots -> Sockets \cup {NoSocket}]
         /\ peer \in [Slots -> Conns \cup {NoConn}]
         /\ admin \in [Slots -> BOOLEAN]
         /\ fd \in [Sockets -> Conns \cup {NoConn}]
         /\ handler \in [Conns -> HandlerRecords]
         /\ main \in MainRecords /\ MainOK
         /\ \A c \in Conns : PlaceOK(handler[c])
         /\ NoConn \notin Conns /\ NoSocket \notin Sockets /\ NoSlot \notin Slots
         /\ \A i \in Slots : i \in Mgr!Registered <=> socket[i] # NoSocket
         /\ Mgr!Registered \subseteq Slots
         /\ \A i \in Mgr!Registered : socket[i] \in Sockets
<1>1. /\ Slots = Mgr!Slots /\ NoSocket = Mgr!NoSocket
      /\ NoConn \notin Conns /\ NoSocket \notin Sockets /\ NoSlot \notin Slots
  BY SlotsAreNumbers, ServerAssumption DEF Slots, NoSocket
<1>2. /\ socket \in [Slots -> Sockets \cup {NoSocket}]
      /\ peer \in [Slots -> Conns \cup {NoConn}]
      /\ admin \in [Slots -> BOOLEAN]
  BY <1>1, TableTypes DEF Inv, Mgr!TableTypeOK
<1>3. /\ \A i \in Slots : i \in Mgr!Registered <=> socket[i] # NoSocket
      /\ Mgr!Registered \subseteq Slots
  BY <1>1 DEF Mgr!Registered
<1>4. \A i \in Mgr!Registered : socket[i] \in Sockets
  BY <1>1, <1>2, <1>3
<1> QED
  BY <1>1, <1>2, <1>3, <1>4 DEF Inv, NetOK, HandlersOK, MainOK

(* find_by_socket returns a registered slot with that socket, if there is   *)
(* one.                                                                     *)
LEMMA Found ==
  ASSUME Inv, NEW s
  PROVE  \/ /\ Mgr!FindBySocket(s) = NoSlot
            /\ \A i \in Mgr!Registered : socket[i] # s
         \/ /\ Mgr!FindBySocket(s) \in Mgr!Registered
            /\ socket[Mgr!FindBySocket(s)] = s
<1> DEFINE holders == {i \in Mgr!Registered : socket[i] = s}
<1>1. holders \in SUBSET Nat
  BY Types, SlotsAreNumbers
<1>2. holders # {} => TP!Lowest(holders) \in holders
  BY <1>1, TP!LowestIsMember, TableAssumption
<1>3. Mgr!FindBySocket(s) = IF holders = {} THEN NoSlot ELSE TP!Lowest(holders)
  BY DEF Mgr!FindBySocket, Mgr!Lowest, TP!Lowest, NoSlot
<1> QED
  BY <1>2, <1>3

(* No two slots share a descriptor, and none is shared with what main has   *)
(* not yet put into the table.                                              *)
LEMMA Unshared ==
  ASSUME Inv, Fresh, Own
  PROVE  /\ \A i, j \in Mgr!Registered : socket[i] = socket[j] => i = j
         /\ main.pc \in {"check", "add"} =>
              \A i \in Mgr!Registered : socket[i] # main.sock
<1>1. ASSUME NEW i \in Mgr!Registered, NEW j \in Mgr!Registered, socket[i] = socket[j]
      PROVE  i = j
  <2>1. peer[i] = peer[j] /\ Serves(i) /\ Serves(j) /\ peer[i] \in Conns
    BY <1>1 DEF Own, Served
  <2>2. CASE main.pc = "spawn" /\ (main.slot = i \/ main.slot = j)
    <3>1. peer[i] = main.conn
      BY <1>1, <2>1, <2>2 DEF Own, MainOwns
    <3>2. ~ Live(main.conn)
      BY <2>2 DEF Fresh, WithMain
    <3> QED
      BY <2>1, <3>1, <3>2 DEF Serves
  <2>3. CASE ~ (main.pc = "spawn" /\ (main.slot = i \/ main.slot = j))
    BY <2>1, <2>3 DEF Serves
  <2> QED
    BY <2>2, <2>3
<1>2. ASSUME NEW i \in Mgr!Registered, main.pc \in {"check", "add"}, socket[i] = main.sock
      PROVE  FALSE
  <2>1. peer[i] = main.conn /\ Serves(i)
    BY <1>2 DEF Own, Served, MainOwns
  <2>2. ~ Live(main.conn)
    BY <1>2 DEF Fresh, WithMain
  <2> QED
    BY <1>2, <2>1, <2>2 DEF Serves
<1> QED
  BY <1>1, <1>2

(* A handler that looks for its own descriptor finds its own slot. *)
LEMMA FindsItself ==
  ASSUME Inv, Fresh, Own, NEW c \in Conns, Live(c)
  PROVE  /\ \A s \in Sockets : fd[s] = c =>
              Mgr!FindBySocket(s) \in {handler[c].slot, NoSlot}
         /\ Mgr!FindBySocket(NoSocket) = NoSlot
         /\ Mgr!FindBySocket(MySocket(c)) \in {handler[c].slot, NoSlot}
         /\ Mgr!FindBySocket(MySocket(c)) = NoSlot => handler[c].slot \notin Mgr!Registered
         /\ MySocket(c) # NoSocket =>
              MySocket(c) \in Sockets /\ fd[MySocket(c)] = c
<1> DEFINE i == handler[c].slot
<1>1. i \in Slots /\ (i \in Mgr!Registered <=> MySocket(c) # NoSocket)
      /\ (i \in Mgr!Registered => MySocket(c) \in Sockets)
  BY Types DEF PlaceOK, Live, MySocket
<1>2. ASSUME NEW s \in Sockets, fd[s] = c
      PROVE  Mgr!FindBySocket(s) \in {i, NoSlot}
  <2> SUFFICES ASSUME NEW j \in Mgr!Registered, socket[j] = s PROVE j = i
    BY Found
  <2>1. peer[j] = c /\ Serves(j)
    BY <1>2 DEF Own, Served
  <2>2. CASE main.pc = "spawn" /\ main.slot = j
    <3>1. main.conn = c
      BY <2>1, <2>2 DEF Own, MainOwns
    <3> QED
      BY <2>2, <3>1 DEF Fresh, WithMain
  <2> QED
    BY <2>1, <2>2 DEF Serves
<1>3. Mgr!FindBySocket(NoSocket) = NoSlot
  BY Found, Types
<1>4. i \in Mgr!Registered => fd[MySocket(c)] = c
  BY DEF Own, Served, HandlersOwn, Owns, MySocket
<1>5. Mgr!FindBySocket(MySocket(c)) = NoSlot => i \notin Mgr!Registered
  BY Found, Types DEF MySocket
<1> QED
  BY <1>1, <1>2, <1>3, <1>4, <1>5
-----------------------------------------------------------------------------
(* A handler goes on.  It may clear its own slot, closing what it held, and *)
(* set the rights of its own slot.                                          *)
LEMMA HandlerGoesOn ==
  ASSUME Inv, Inv', Fresh, Own, NEW c \in Conns, NEW h, Live(c), h.pc # "none",
         h = handler'[c], \A d \in Conns : d # c => handler'[d] = handler[d],
         h.slot = handler[c].slot, Owns(c, h)',
         peer' = peer, main' = main,
         \A j \in Slots : j # h.slot => socket'[j] = socket[j] /\ admin'[j] = admin[j],
         socket'[h.slot] \in {socket[h.slot], NoSocket},
         \A s \in Sockets : fd[s] # c => fd'[s] = fd[s],
         h.slot \in Mgr!Registered' => fd' = fd,
         granted \subseteq granted', obeyed' \subseteq granted'
  PROVE  Own'
<1> DEFINE i == h.slot
<1>0. /\ i \in Slots
      /\ \A d \in Conns : Live(d) => handler[d].slot \in Slots
      /\ \A d \in Conns : handler[d].sock \in Sockets \cup {NoSocket}
      /\ main.pc # "accept" => main.sock \in Sockets
      /\ main.pc = "spawn" => main.slot \in Slots
  BY Types DEF PlaceOK, Live, MainOK, HandlerRecords
<1>1. /\ \A j \in Slots : j # i => (j \in Mgr!Registered' <=> j \in Mgr!Registered)
      /\ Mgr!Registered' \subseteq Mgr!Registered
      /\ Mgr!Registered \subseteq Slots
  <2>1. \A j \in Slots : j \in Mgr!Registered' <=> socket'[j] # NoSocket
    BY DEF Mgr!Registered, Slots, NoSocket
  <2>2. Mgr!Registered' \subseteq Slots
    BY DEF Mgr!Registered, Slots
  <2>3. /\ \A j \in Slots : j \in Mgr!Registered <=> socket[j] # NoSocket
        /\ Mgr!Registered \subseteq Slots
    BY Types
  <2>4. i \in Mgr!Registered' => i \in Mgr!Registered
    BY <1>0, <2>1, <2>3
  <2> QED
    BY <1>0, <2>1, <2>2, <2>3, <2>4
<1>2. \A d \in Conns : (Live(d)' <=> Live(d)) /\ (Live(d) => handler'[d].slot = handler[d].slot)
  BY DEF Live
<1>3. ASSUME NEW d \in Conns, Live(d), d # c PROVE Owns(d, handler[d])'
  <2>1. Owns(d, handler[d]) /\ handler'[d] = handler[d] /\ handler[d].slot # i
        /\ handler[d].slot \in Slots
    BY <1>0, <1>3 DEF Own, HandlersOwn, Apart
  <2>2. \A s \in Sockets : fd[s] = d => fd'[s] = d
    BY <1>3
  <2> QED
    BY <1>0, <1>1, <2>1, <2>2 DEF Owns
<1>4. HandlersOwn'
  BY <1>2, <1>3 DEF HandlersOwn
<1>5. Apart'
  BY <1>2 DEF Own, Apart
<1>6. main.pc # "accept" => main.conn # c
  BY DEF Fresh, WithMain
<1>7. MainOwns'
  <2>1. main.pc # "accept" => fd'[main.sock] = main.conn
    BY <1>0, <1>6 DEF Own, MainOwns
  <2>2. main.pc = "spawn" => main.slot # i /\ main.slot \in Slots
    BY <1>0 DEF Own, MainOwns
  <2> QED
    BY <1>1, <1>2, <2>1, <2>2 DEF Own, MainOwns
<1>8. Served'
  <2> SUFFICES ASSUME NEW j \in Mgr!Registered'
               PROVE  peer'[j] \in Conns /\ fd'[socket'[j]] = peer'[j] /\ Serves(j)'
    BY DEF Served
  <2>1. j \in Mgr!Registered /\ j \in Slots
    BY <1>1
  <2>2. peer[j] \in Conns /\ fd[socket[j]] = peer[j] /\ Serves(j)
    BY <2>1 DEF Own, Served
  <2>3. Serves(j)'
    BY <1>2, <2>2 DEF Serves
  <2>4. socket'[j] = socket[j] /\ socket[j] \in Sockets
    <3>1. socket[j] \in Sockets
      BY <2>1, Types
    <3>2. j = i => socket'[j] # NoSocket
      BY <1>0 DEF Mgr!Registered, NoSocket
    <3> QED
      BY <2>1, <3>1, <3>2
  <2>5. CASE j # i
    <3>1. peer[j] # c
      <4>1. main.pc = "spawn" /\ main.slot = j => peer[j] = main.conn
        BY <2>1 DEF Own, MainOwns
      <4> QED
        BY <1>6, <2>2, <2>5, <4>1 DEF Serves
    <3> QED
      BY <2>2, <2>3, <2>4, <3>1
  <2>6. CASE j = i
    BY <2>2, <2>3, <2>4, <2>6
  <2> QED
    BY <2>5, <2>6
<1> QED
  BY <1>4, <1>5, <1>7, <1>8 DEF Own

(* A handler that has ended has nothing left in the table. *)
LEMMA HandlerEnds ==
  ASSUME Inv, Inv', Fresh, Own, NEW c \in Conns, CloseLast(c)
  PROVE  Own'
<1>1. /\ handler[c].pc = "close" /\ fd' = Closed(MySocket(c)) /\ Live(c)
      /\ handler' = [handler EXCEPT ![c] = Idle]
      /\ UNCHANGED <<socket, peer, admin, main, granted, obeyed>>
  BY DEF CloseLast, At, table, history, Live
<1>2. handler[c].slot \notin Mgr!Registered /\ handler[c].slot \in Slots
  BY <1>1, Types DEF Own, HandlersOwn, Owns, PlaceOK
<1>3. fd' = fd
  <2>1. MySocket(c) \notin Sockets
    BY <1>2, Types DEF MySocket
  <2> QED
    BY <1>1, <2>1, Types DEF Closed
<1>4. ~ Live(c)' /\ \A d \in Conns : d # c => handler'[d] = handler[d]
  BY <1>1, Types DEF Idle, Live
<1>5. Mgr!Registered' = Mgr!Registered
  BY <1>1 DEF Mgr!Registered
<1>6. HandlersOwn'
  <2> SUFFICES ASSUME NEW d \in Conns, Live(d)' PROVE Owns(d, handler[d])'
    BY DEF HandlersOwn
  <2>1. d # c /\ Live(d) /\ handler'[d] = handler[d]
    BY <1>4 DEF Live
  <2> QED
    BY <1>1, <1>3, <1>5, <2>1 DEF Own, HandlersOwn, Owns
<1>7. Apart' /\ MainOwns'
  BY <1>1, <1>3, <1>4, <1>5 DEF Own, Apart, MainOwns, Live
<1>8. Served'
  <2> SUFFICES ASSUME NEW j \in Mgr!Registered
               PROVE  peer[j] \in Conns /\ fd[socket[j]] = peer[j] /\ Serves(j)'
    BY <1>1, <1>3, <1>5 DEF Served
  <2>1. peer[j] \in Conns /\ fd[socket[j]] = peer[j] /\ Serves(j)
    BY DEF Own, Served
  <2>2. peer[j] = c => handler[c].slot # j
    BY <1>2
  <2> QED
    BY <1>1, <1>4, <2>1, <2>2 DEF Serves, Live
<1> QED
  BY <1>1, <1>6, <1>7, <1>8 DEF Own
LEMMA HandlerOwn ==
  ASSUME Inv, Inv', Fresh, Own, NEW c \in Conns, Handler(c)
  PROVE  Own'
<1> DEFINE g == handler[c]
<1>0. PICK h : h = handler'[c]
  OBVIOUS
<1>1. Live(c) /\ \A d \in Conns : d # c => handler'[d] = handler[d]
  BY OthersStay
<1>2. /\ g \in HandlerRecords /\ handler \in [Conns -> HandlerRecords] /\ PlaceOK(g)
      /\ g.slot \in Slots /\ NoSocket \notin Sockets /\ NoSlot \notin Slots
      /\ fd \in [Sockets -> Conns \cup {NoConn}] /\ NoConn \notin Conns
      /\ socket \in [Slots -> Sockets \cup {NoSocket}]
      /\ admin \in [Slots -> BOOLEAN]
  BY <1>1, Types DEF PlaceOK, Live
<1>3. Owns(c, g)
  BY <1>1 DEF Own, HandlersOwn
<1>4. ASSUME h.pc # "none", h.slot = g.slot, Owns(c, h),
             UNCHANGED <<socket, peer, admin, fd, main, granted, obeyed>>
      PROVE  Own'
  <2>1. Mgr!Registered' = Mgr!Registered
    BY <1>4 DEF Mgr!Registered
  <2>2. Owns(c, h)'
    BY <1>4, <2>1 DEF Owns
  <2>3. obeyed \subseteq granted
    BY DEF Own
  <2> QED
    BY <1>0, <1>1, <1>2, <1>4, <2>2, <2>3, HandlerGoesOn
<1>5. /\ \A s \in Sockets : fd[s] = c => Mgr!FindBySocket(s) \in {g.slot, NoSlot}
      /\ Mgr!FindBySocket(NoSocket) = NoSlot
      /\ Mgr!FindBySocket(MySocket(c)) \in {g.slot, NoSlot}
      /\ Mgr!FindBySocket(MySocket(c)) = NoSlot => g.slot \notin Mgr!Registered
      /\ MySocket(c) # NoSocket => MySocket(c) \in Sockets /\ fd[MySocket(c)] = c
  BY <1>1, FindsItself
<1>6. CASE Read(c)
  <2>1. h.pc \in {"leave", "recv"} /\ h.slot = g.slot
        /\ h.file = (IF MySocket(c) = NoSocket THEN NoConn ELSE fd[MySocket(c)])
        /\ (h.pc = "recv" => h.file # NoConn)
    BY <1>0, <1>2, <1>6 DEF Read, HandlerRecords
  <2>2. h.pc = "recv" => h.file = c
    BY <1>5, <2>1
  <2>3. Owns(c, h)
    BY <1>3, <2>1, <2>2, <1>6 DEF Owns, Serving, Read, At
  <2> QED
    BY <1>4, <1>6, <2>1, <2>3 DEF Read, table, network, history
<1>7. CASE Receive(c)
  <2>1. g.pc = "recv" /\ UNCHANGED <<table, fd, main, history>>
        /\ handler' = [handler EXCEPT ![c].pc = "touch", ![c].msg = Head(inbox[g.file])]
    BY <1>7 DEF Receive, At
  <2>2. h.pc = "touch" /\ h.slot = g.slot /\ h.file = g.file
    BY <1>0, <1>2, <2>1 DEF HandlerRecords
  <2>3. Owns(c, h)
    BY <1>3, <2>1, <2>2 DEF Owns, Serving
  <2> QED
    BY <1>4, <2>1, <2>2, <2>3 DEF table, history
<1>8. CASE ReceiveEnd(c)
  <2>1. g.pc = "recv" /\ h.pc = "leave" /\ h.slot = g.slot
    BY <1>0, <1>2, <1>8 DEF ReceiveEnd, At, HandlerRecords
  <2>2. Owns(c, h)
    BY <1>3, <2>1 DEF Owns, Serving
  <2> QED
    BY <1>4, <1>8, <2>1, <2>2 DEF ReceiveEnd, table, network, history
<1>9. CASE Touch(c)
  <2>1. g.pc = "touch" /\ h.pc = "lookup" /\ h.slot = g.slot /\ h.file = g.file
        /\ h.sock = MySocket(c)
    BY <1>0, <1>2, <1>9 DEF Touch, At, HandlerRecords
  <2>2. UNCHANGED <<socket, peer, admin, fd, main, granted, obeyed>>
    BY <1>9 DEF Touch, Mgr!UpdateActivity, table, network, history
  <2>3. Owns(c, h)
    BY <1>3, <1>5, <2>1 DEF Owns, Serving
  <2> QED
    BY <1>4, <2>1, <2>2, <2>3
<1>10. CASE Lookup(c)
  <2>1. g.pc = "lookup" /\ h.pc = "dispatch" /\ h.slot = g.slot /\ h.file = g.file
        /\ h.sock = g.sock /\ h.idx = Mgr!FindBySocket(g.sock)
    BY <1>0, <1>2, <1>10 DEF Lookup, At, HandlerRecords
  <2>2. g.sock \in Sockets \cup {NoSocket} /\ (g.sock # NoSocket => fd[g.sock] = c)
    BY <1>2, <1>3, <2>1 DEF Owns, Serving, HandlerRecords
  <2>3. h.idx \in {g.slot, NoSlot}
    BY <1>5, <2>1, <2>2
  <2>4. Owns(c, h)
    BY <1>3, <2>1, <2>2, <2>3 DEF Owns, Serving
  <2> QED
    BY <1>4, <1>10, <2>1, <2>4 DEF Lookup, table, network, history
<1>11. ASSUME NEW r, Reply(c, r), g.pc \in {"dispatch", "execute"}
       PROVE  /\ h.pc = "reply" /\ h.slot = g.slot /\ h.file = g.file /\ h.sock = g.sock
              /\ Owns(c, h)
  <2>1. h.pc = "reply" /\ h.slot = g.slot /\ h.file = g.file /\ h.sock = g.sock
    BY <1>0, <1>2, <1>11 DEF Reply, HandlerRecords
  <2> QED
    BY <1>3, <1>11, <2>1 DEF Owns, Serving
<1>12. CASE ClientNotFound(c) \/ AuthFails(c) \/ AnswerAnyone(c)
  <2>1. PICK r : Reply(c, r) /\ g.pc = "dispatch"
    BY <1>12 DEF ClientNotFound, AuthFails, AnswerAnyone, At
  <2>2. h.pc # "none" /\ h.slot = g.slot /\ Owns(c, h)
    BY <1>11, <2>1
  <2>3. UNCHANGED <<socket, peer, admin, fd, main, granted, obeyed>>
    BY <1>12 DEF ClientNotFound, AuthFails, AnswerAnyone, table, network, history
  <2> QED
    BY <1>4, <2>2, <2>3
<1>13. CASE AuthSucceeds(c)
  <2>1. /\ g.pc = "dispatch" /\ g.idx # NoSlot /\ Reply(c, "AUTH_SUCCESS")
        /\ granted' = granted \cup {g.file} /\ Mgr!Authenticate(g.idx)
        /\ UNCHANGED <<fd, main, obeyed>>
    BY <1>13 DEF AuthSucceeds, At, network
  <2>2. g.idx = g.slot /\ g.file = c
    BY <1>3, <2>1 DEF Owns, Serving
  <2>3. /\ \A j \in Slots : j # g.slot => admin'[j] = admin[j]
        /\ UNCHANGED <<socket, peer>> /\ Mgr!Registered' = Mgr!Registered
    BY <1>2, <2>1, <2>2 DEF Mgr!Authenticate, Mgr!Registered
  <2>4. h.pc = "reply" /\ h.slot = g.slot /\ h.file = g.file /\ h.sock = g.sock
    BY <1>11, <2>1
  <2>5. Owns(c, h)'
    BY <1>3, <2>1, <2>2, <2>3, <2>4 DEF Owns, Serving
  <2>6. obeyed \subseteq granted
    BY DEF Own
  <2> QED
    BY <1>0, <1>1, <1>2, <2>1, <2>3, <2>4, <2>5, <2>6, HandlerGoesOn
<1>14. CASE CheckAdmin(c)
  <2>1. g.pc = "dispatch" /\ g.idx # NoSlot
        /\ UNCHANGED <<socket, peer, admin, fd, main, granted, obeyed>>
    BY <1>14 DEF CheckAdmin, At, table, network, history
  <2>2. CASE Reply(c, "ERROR")
    BY <1>4, <1>11, <2>1, <2>2
  <2>3. CASE admin[g.idx] /\ handler' = [handler EXCEPT ![c].pc = "execute"]
    <3>1. h.pc = "execute" /\ h.slot = g.slot /\ h.file = g.file /\ h.sock = g.sock
      BY <1>0, <1>2, <2>3 DEF HandlerRecords
    <3>2. g.idx = g.slot
      BY <1>3, <2>1 DEF Owns, Serving
    <3>3. Owns(c, h)
      BY <1>3, <2>1, <2>3, <3>1, <3>2 DEF Owns, Serving
    <3> QED
      BY <1>4, <2>1, <3>1, <3>3
  <2> QED
    BY <1>14, <2>2, <2>3 DEF CheckAdmin, MayCommand
<1>15. CASE Execute(c)
  <2>1. PICK r : Reply(c, r)
    BY <1>15 DEF Execute
  <2>2. /\ g.pc = "execute" /\ obeyed' = obeyed \cup {g.file}
        /\ UNCHANGED <<socket, peer, admin, fd, main, granted>>
    BY <1>15 DEF Execute, At, table, network
  <2>3. g.file = c /\ c \in granted /\ obeyed \subseteq granted
    BY <1>3, <2>2 DEF Owns, Serving, Own
  <2>4. h.pc = "reply" /\ h.slot = g.slot /\ Owns(c, h)
    BY <1>11, <2>1, <2>2
  <2>5. Owns(c, h)'
    BY <2>2, <2>4 DEF Owns, Mgr!Registered
  <2> QED
    BY <1>0, <1>1, <1>2, <2>2, <2>3, <2>4, <2>5, HandlerGoesOn
<1>16. CASE SendReply(c)
  <2>1. h.pc = "top" /\ h.slot = g.slot
    BY <1>0, <1>2, <1>16 DEF SendReply, Idle
  <2>2. Owns(c, h)
    BY <1>3, <2>1 DEF Owns, Serving
  <2> QED
    BY <1>4, <1>16, <2>1, <2>2 DEF SendReply, table, history
<1>17. CASE Leave(c)
  <2> DEFINE i == Mgr!FindBySocket(MySocket(c))
  <2>1. h.pc = (IF i = NoSlot THEN "close" ELSE "remove") /\ h.slot = g.slot /\ h.idx = i
        /\ g.pc = "leave"
    BY <1>0, <1>2, <1>17 DEF Leave, At, HandlerRecords
  <2>2. Owns(c, h)
    BY <1>3, <1>5, <2>1 DEF Owns, Serving
  <2> QED
    BY <1>4, <1>17, <2>1, <2>2 DEF Leave, table, network, history
<1>18. CASE Remove(c)
  <2>1. /\ g.pc = "remove" /\ Mgr!RemoveClient(g.idx) /\ fd' = Closed(socket[g.idx])
        /\ UNCHANGED <<main, granted, obeyed>>
    BY <1>18 DEF Remove, At, history
  <2>2. g.idx = g.slot
    BY <1>2, <1>3, <2>1 DEF Owns, PlaceOK
  <2>3. h.pc \in {"count", "close"} /\ h.slot = g.slot
    <3>1. PICK p \in {"count", "close"} :
            handler' = [handler EXCEPT ![c].pc = p, ![c].idx = NoSlot]
      BY <1>18 DEF Remove
    <3> QED
      BY <1>0, <1>2, <3>1 DEF HandlerRecords
  <2>4. /\ socket' = [socket EXCEPT ![g.slot] = NoSocket] /\ peer' = peer
        /\ \A j \in Slots : j # g.slot => admin'[j] = admin[j]
        /\ admin'[g.slot] => admin[g.slot]
    <3>1. g.slot \in Mgr!Registered <=> socket[g.slot] # NoSocket
      BY <1>2, Types
    <3> QED
      BY <1>2, <2>1, <2>2, <3>1 DEF Mgr!RemoveClient, Mgr!table, NoSocket
  <2>5. g.slot \notin Mgr!Registered'
    BY <1>2, <2>4 DEF Mgr!Registered, NoSocket
  <2>6. \A s \in Sockets : fd[s] # c => fd'[s] = fd[s]
    <3>1. socket[g.slot] = MySocket(c)
      BY DEF MySocket
    <3> QED
      BY <1>2, <1>5, <2>1, <2>2, <3>1 DEF Closed
  <2>7. Owns(c, h)'
    BY <1>3, <2>1, <2>3, <2>4, <2>5 DEF Owns, Serving
  <2>8. obeyed \subseteq granted
    BY DEF Own
  <2> QED
    BY <1>0, <1>1, <1>2, <2>1, <2>3, <2>4, <2>5, <2>6, <2>7, <2>8, HandlerGoesOn
<1>19. CASE CloseLast(c)
  BY <1>19, HandlerEnds
<1>20. CASE CountOff(c)
  <2>1. g.pc = "count" /\ h.pc = "close" /\ h.slot = g.slot
    BY <1>0, <1>2, <1>20 DEF CountOff, At, HandlerRecords
  <2>2. Owns(c, h)
    BY <1>3, <2>1 DEF Owns, Serving
  <2> QED
    BY <1>4, <1>20, <2>1, <2>2 DEF CountOff, table, network, history
<1> QED
  BY <1>6, <1>7, <1>8, <1>9, <1>10, <1>12, <1>13, <1>14, <1>15, <1>16, <1>17, <1>18, <1>19,
     <1>20
     DEF Handler
-----------------------------------------------------------------------------
(* A step of another thread, or of a client.  It may clear slots and close  *)
(* descriptors that no slot and no handler refers to.                       *)
LEMMA OthersKeep ==
  ASSUME Inv, Inv', Fresh, Own, UNCHANGED <<handler, granted, obeyed>>,
         \A j \in Mgr!Registered' : /\ j \in Mgr!Registered /\ socket'[j] = socket[j]
                                    /\ peer'[j] = peer[j] /\ fd'[socket[j]] = fd[socket[j]]
                                    /\ main.pc = "spawn" /\ main.slot = j => main' = main,
         \A c \in Conns : Live(c) => admin'[handler[c].slot] = admin[handler[c].slot],
         \A s \in Sockets, c \in Conns : Live(c) /\ fd[s] = c => fd'[s] = c,
         MainOwns'
  PROVE  Own'
<1>0. \A c \in Conns : handler[c].sock \in Sockets \cup {NoSocket}
  BY Types DEF HandlerRecords
<1>1. HandlersOwn'
  <2> SUFFICES ASSUME NEW c \in Conns, Live(c) PROVE Owns(c, handler[c])'
    BY DEF HandlersOwn, Live
  <2>1. Owns(c, handler[c])
    BY DEF Own, HandlersOwn
  <2> QED
    BY <1>0, <2>1 DEF Owns
<1>2. Apart'
  BY DEF Own, Apart, Live
<1>3. Served'
  BY DEF Own, Served, Serves, Live
<1> QED
  BY <1>1, <1>2, <1>3 DEF Own

LEMMA AcceptOwn ==
  ASSUME Inv, Inv', Fresh, Own, Accept
  PROVE  Own'
<1> DEFINE new == Mgr!Lowest(FreeSockets)
<1>1. new \in Sockets /\ fd[new] = NoConn
  <2>1. FreeSockets \in SUBSET Nat
    BY ServerAssumption DEF FreeSockets
  <2>2. TP!Lowest(FreeSockets) \in FreeSockets
    BY <2>1, TP!LowestIsMember, TableAssumption DEF Accept
  <2> QED
    BY <2>2 DEF FreeSockets, Mgr!Lowest, TP!Lowest
<1>2. /\ fd' = [fd EXCEPT ![new] = Head(backlog)] /\ main.pc = "accept"
      /\ main' = [main EXCEPT !.pc = "check", !.conn = Head(backlog), !.sock = new]
      /\ UNCHANGED <<socket, peer, admin, handler, granted, obeyed>>
  BY DEF Accept, MainAt, table, history
<1>3. main'.pc = "check" /\ main'.conn = Head(backlog) /\ main'.sock = new
  BY <1>2, Types DEF MainRecords
<1>4. \A s \in Sockets : fd[s] # NoConn => fd'[s] = fd[s]
  BY <1>1, <1>2, Types
<1>5. MainOwns'
  BY <1>1, <1>2, <1>3, Types DEF MainOwns
<1>6. \A j \in Mgr!Registered : socket[j] \in Sockets /\ fd[socket[j]] # NoConn
  BY Types DEF Own, Served
<1>7. Mgr!Registered' = Mgr!Registered
  BY <1>2 DEF Mgr!Registered
<1> QED
  BY <1>2, <1>4, <1>5, <1>6, <1>7, OthersKeep, ServerAssumption

LEMMA CheckOwn ==
  ASSUME Inv, Inv', Fresh, Own, CheckSpace
  PROVE  Own'
<1>1. main.pc = "check" /\ UNCHANGED <<socket, peer, admin, handler, granted, obeyed>>
  BY DEF CheckSpace, MainAt, table, history
<1>2. Mgr!Registered' = Mgr!Registered
  BY <1>1 DEF Mgr!Registered
<1>3. CASE main' = [main EXCEPT !.pc = "add"] /\ UNCHANGED fd
  <2>1. main'.pc = "add" /\ main'.sock = main.sock /\ main'.conn = main.conn
    BY <1>3, Types DEF MainRecords
  <2>2. MainOwns'
    BY <1>1, <1>3, <2>1 DEF Own, MainOwns
  <2> QED
    BY <1>1, <1>2, <1>3, <2>2, OthersKeep
<1>4. CASE main' = MainIdle /\ fd' = Closed(main.sock)
  <2>1. MainOwns'
    BY <1>4 DEF MainOwns, MainIdle
  <2>2. \A s \in Sockets : s # main.sock => fd'[s] = fd[s]
    BY <1>4 DEF Closed
  <2>3. fd[main.sock] = main.conn /\ ~ Live(main.conn)
    BY <1>1 DEF Own, MainOwns, Fresh, WithMain
  <2>4. \A j \in Mgr!Registered : socket[j] \in Sockets /\ socket[j] # main.sock
    BY <1>1, Types, Unshared
  <2> QED
    BY <1>1, <1>2, <2>1, <2>2, <2>3, <2>4, OthersKeep
<1> QED
  BY <1>3, <1>4 DEF CheckSpace

LEMMA AddOwn ==
  ASSUME Inv, Inv', Fresh, Own, Add, ~ reused'
  PROVE  Own'
<1> DEFINE k == Mgr!NewSlot
<1>0. k \in Slots /\ k \notin Mgr!Registered
  BY SameOperators, TP!NewSlotIsFree, TableAssumption, NewSlotIsSlot
     DEF Add, Mgr!AddClient
<1>1. /\ main.pc = "add" /\ main' = [main EXCEPT !.pc = "spawn", !.slot = k]
      /\ socket' = [socket EXCEPT ![k] = main.sock]
      /\ peer' = [peer EXCEPT ![k] = main.conn]
      /\ admin' = [admin EXCEPT ![k] = FALSE]
      /\ UNCHANGED <<fd, handler, granted, obeyed>>
      /\ \A c \in Conns : Live(c) => handler[c].slot # k
  BY DEF Add, MainAt, Mgr!AddClient, network
<1>2. /\ main'.pc = "spawn" /\ main'.slot = k
      /\ main'.sock = main.sock /\ main'.conn = main.conn
      /\ main.sock \in Sockets /\ main.conn \in Conns /\ NoSocket \notin Sockets
  BY <1>1, Types DEF MainRecords, MainOK
<1>3. /\ socket'[k] = main.sock /\ peer'[k] = main.conn /\ ~ admin'[k]
      /\ \A j \in Slots : j # k => /\ socket'[j] = socket[j] /\ peer'[j] = peer[j]
                                   /\ admin'[j] = admin[j]
  BY <1>0, <1>1, Types
<1>4. /\ \A j \in Slots : j # k => (j \in Mgr!Registered' <=> j \in Mgr!Registered)
      /\ Mgr!Registered' \subseteq Slots
  BY <1>3 DEF Mgr!Registered, Slots
<1>5. HandlersOwn'
  <2> SUFFICES ASSUME NEW c \in Conns, Live(c) PROVE Owns(c, handler[c])'
    BY <1>1 DEF HandlersOwn, Live
  <2>1. Owns(c, handler[c]) /\ handler[c].slot \in Slots /\ handler[c].slot # k
    BY <1>1, Types DEF Own, HandlersOwn, PlaceOK, Live
  <2> QED
    BY <1>1, <1>3, <1>4, <2>1 DEF Owns
<1>6. Apart'
  BY <1>1 DEF Own, Apart, Live
<1>7. MainOwns'
  BY <1>1, <1>2, <1>3 DEF Own, MainOwns, Live
<1>8. Served'
  <2> SUFFICES ASSUME NEW j \in Mgr!Registered'
               PROVE  peer'[j] \in Conns /\ fd'[socket'[j]] = peer'[j] /\ Serves(j)'
    BY DEF Served
  <2>1. CASE j = k
    BY <1>1, <1>2, <1>3, <2>1 DEF Own, MainOwns, Serves
  <2>2. CASE j # k
    <3>1. j \in Mgr!Registered /\ j \in Slots
      BY <1>4, <2>2
    <3> QED
      BY <1>1, <1>3, <2>2, <3>1 DEF Own, Served, Serves, Live
  <2> QED
    BY <2>1, <2>2
<1> QED
  BY <1>1, <1>5, <1>6, <1>7, <1>8 DEF Own

LEMMA SpawnOwn ==
  ASSUME Inv, Inv', Fresh, Own, Spawn
  PROVE  Own'
<1> DEFINE new == [Idle EXCEPT !.pc = "top", !.slot = main.slot]
<1>1. /\ main.pc = "spawn" /\ main' = MainIdle
      /\ handler' = [handler EXCEPT ![main.conn] = new]
      /\ UNCHANGED <<socket, peer, admin, fd, granted, obeyed>>
  BY DEF Spawn, MainAt, table, network, history
<1>2. PICK m : m = main.conn
  OBVIOUS
<1>3. /\ m \in Conns /\ main.slot \in Slots /\ ~ Live(m)
      /\ handler'[m] = new /\ \A d \in Conns : d # m => handler'[d] = handler[d]
  BY <1>1, <1>2, Types DEF MainOK, Fresh, WithMain
<1>4. /\ handler'[m].pc = "top" /\ handler'[m].slot = main.slot
      /\ Live(m)' /\ \A d \in Conns : d # m => (Live(d)' <=> Live(d))
  BY <1>3 DEF Idle, Live
<1>5. Mgr!Registered' = Mgr!Registered
  BY <1>1 DEF Mgr!Registered
<1>6. HandlersOwn'
  <2> SUFFICES ASSUME NEW c \in Conns, Live(c)' PROVE Owns(c, handler[c])'
    BY DEF HandlersOwn
  <2>1. CASE c = m
    BY <1>1, <1>2, <1>4, <1>5, <2>1 DEF Own, MainOwns, Owns, Serving
  <2>2. CASE c # m
    <3>1. Live(c) /\ handler'[c] = handler[c]
      BY <1>3, <1>4, <2>2
    <3>2. PICK h : h = handler[c]
      OBVIOUS
    <3>3. Owns(c, h)
      BY <3>1, <3>2 DEF Own, HandlersOwn
    <3>4. Owns(c, h)'
      BY <1>1, <1>5, <3>3 DEF Owns
    <3> QED
      BY <3>1, <3>2, <3>4 DEF Owns
  <2> QED
    BY <2>1, <2>2
<1>7. Apart'
  BY <1>1, <1>3, <1>4 DEF Own, Apart, MainOwns
<1>8. MainOwns'
  BY <1>1 DEF MainOwns, MainIdle
<1>9. Served'
  <2> SUFFICES ASSUME NEW j \in Mgr!Registered
               PROVE  peer[j] \in Conns /\ fd[socket[j]] = peer[j] /\ Serves(j)'
    BY <1>1, <1>5 DEF Served
  <2>1. peer[j] \in Conns /\ fd[socket[j]] = peer[j] /\ Serves(j)
    BY DEF Own, Served
  <2>2. main.slot = j => peer[j] = m
    BY <1>1, <1>2 DEF Own, MainOwns
  <2> QED
    BY <1>1, <1>3, <1>4, <2>1, <2>2 DEF Serves
<1> QED
  BY <1>1, <1>6, <1>7, <1>8, <1>9 DEF Own

LEMMA SpawnFailsOwn ==
  ASSUME Inv, Inv', Fresh, Own, SpawnFails
  PROVE  Own'
<1>1. /\ main.pc = "spawn" /\ main' = MainIdle /\ fd' = Closed(main.sock)
      /\ Mgr!RemoveClient(main.slot) /\ UNCHANGED <<handler, granted, obeyed>>
  BY DEF SpawnFails, MainAt, history
<1>2. main.slot \in Slots /\ main.sock \in Sockets /\ main.conn \in Conns
  BY <1>1, Types DEF MainOK
<1>3. /\ socket' = [socket EXCEPT ![main.slot] = NoSocket] /\ peer' = peer
      /\ \A j \in Slots : j # main.slot => admin'[j] = admin[j]
  <2>1. main.slot \in Mgr!Registered <=> socket[main.slot] # NoSocket
    BY <1>2, Types
  <2> QED
    BY <1>1, <1>2, <2>1, Types DEF Mgr!RemoveClient, Mgr!table, NoSocket
<1>4. \A j \in Mgr!Registered' :
        j \in Slots /\ j # main.slot /\ j \in Mgr!Registered /\ socket'[j] = socket[j]
  BY <1>2, <1>3, Types DEF Mgr!Registered, Slots, NoSocket
<1>5. fd[main.sock] = main.conn /\ ~ Live(main.conn)
  BY <1>1 DEF Own, MainOwns, Fresh, WithMain
<1>6. \A s \in Sockets : s # main.sock => fd'[s] = fd[s]
  BY <1>1 DEF Closed
<1>7. \A j \in Mgr!Registered' : socket[j] \in Sockets /\ socket[j] # main.sock
  BY <1>4, <1>5, Types DEF Own, Served, Serves
<1>8. \A c \in Conns : Live(c) => handler[c].slot \in Slots /\ handler[c].slot # main.slot
  BY <1>1, Types DEF Own, MainOwns, PlaceOK, Live
<1>9. MainOwns'
  BY <1>1 DEF MainOwns, MainIdle
<1> QED
  BY <1>1, <1>3, <1>4, <1>5, <1>6, <1>7, <1>8, <1>9, OthersKeep

LEMMA CleanupOwn ==
  ASSUME Inv, Inv', Fresh, Own, TimeOut
  PROVE  Own'
<1> DEFINE i == Mgr!Lowest(Mgr!Inactive)
<1>1. /\ socket' = [socket EXCEPT ![i] = NoSocket]
      /\ UNCHANGED <<peer, admin, fd, main, handler, granted, obeyed>>
  BY DEF TimeOut, NextInactive, Mgr!TimeOut, network, NoSocket
<1>2. \A j \in Mgr!Registered' : j \in Mgr!Registered /\ socket'[j] = socket[j]
  BY <1>1, Types DEF Mgr!Registered, Slots, NoSocket
<1>3. MainOwns'
  BY <1>1, <1>2 DEF Own, MainOwns, Live
<1> QED
  BY <1>1, <1>2, <1>3, OthersKeep

LEMMA OwnStep ==
  ASSUME Inv, Inv', Fresh, ~ reused => Own, [Next]_vars, ~ reused'
  PROVE  Own'
<1>1. ASSUME NEW c \in Conns, Handler(c) PROVE reused' = reused
  BY <1>1
     DEF Handler, Read, Receive, ReceiveEnd, Touch, Lookup, ClientNotFound, history,
         AuthSucceeds, AuthFails, CheckAdmin, AnswerAnyone, Execute, SendReply,
         Leave, Remove, CountOff, CloseLast
<1>2. CASE Accept \/ CheckSpace \/ Add \/ Spawn \/ SpawnFails \/ TimeOut
  <2>1. ~ reused
    BY <1>2 DEF Accept, CheckSpace, Add, Spawn, SpawnFails, TimeOut, history
  <2> QED
    BY <1>2, <2>1, AcceptOwn, CheckOwn, AddOwn, SpawnOwn, SpawnFailsOwn, CleanupOwn
<1>3. CASE UNCHANGED <<socket, peer, admin, fd, handler, main, granted, obeyed, reused>>
  <2>1. Mgr!Registered' = Mgr!Registered
    BY <1>3 DEF Mgr!Registered
  <2> QED
    BY <1>3, <2>1
       DEF Own, HandlersOwn, Owns, Apart, MainOwns, Served, Serves, Live
<1>4. ASSUME NEW c \in Conns, Client(c)
      PROVE  UNCHANGED <<socket, peer, admin, fd, handler, main, granted, obeyed, reused>>
  BY <1>4 DEF Client, Connect, SendRequest, Hangup, Stall, ReadAgain, table, history
<1>5. CASE Telemetry \/ CountTimedOut \/ UNCHANGED vars \/ \E i \in Slots : GrowStale(i)
  BY <1>3, <1>5
     DEF Telemetry, StartBroadcast, SendNext, CountTimedOut, vars, GrowStale, Mgr!GrowStale, table,
         network, history
<1> QED
  BY <1>1, <1>2, <1>3, <1>4, <1>5, HandlerOwn DEF Next, MainStep, Cleanup

LEMMA OwnInvHolds == Spec => []OwnInv
<1>1. Init => OwnInv
  <2> SUFFICES ASSUME Init PROVE OwnInv
    OBVIOUS
  <2>1. DOMAIN backlog = {} /\ Queued = {} /\ \A c \in Conns : ~ Live(c)
    BY DEF Init, Queued, Live, Idle
  <2>2. Fresh /\ SlotIsMains
    BY <2>1 DEF Init, MainIdle, Fresh, Waiting, WithMain, Distinct, SlotIsMains
  <2>3. Mgr!Registered = {}
    BY DEF Init, Mgr!TableInit, Mgr!Registered
  <2>4. Own
    BY <2>1, <2>3
       DEF Init, MainIdle, Own, HandlersOwn, Apart, MainOwns, Served
  <2> QED
    BY <2>2, <2>4 DEF OwnInv
<1>2. Inv /\ Inv' /\ OwnInv /\ [Next]_vars => OwnInv'
  BY FreshStep, SlotIsMainsStep, OwnStep DEF OwnInv
<1> QED
  BY <1>1, <1>2, ServerInv, PTL DEF Spec

(* As long as no slot was given away under a live handler, a registered     *)
(* descriptor is the client's own and no two slots share one.               *)
THEOREM DescriptorsAreOwn == Spec => []TableSound
<1>1. Inv /\ OwnInv => TableSound
  BY Unshared DEF OwnInv, Own, Served, TableSound
<1> QED
  BY <1>1, ServerInv, OwnInvHolds, PTL

(* Under the same condition no client is listed that no thread serves.      *)
THEOREM ListedAreServed == Spec => []EveryClientServed
<1>1. OwnInv => EveryClientServed
  BY DEF OwnInv, Own, Served, Serves, EveryClientServed
<1> QED
  BY <1>1, OwnInvHolds, PTL

(* Under the same condition only a connection on which valid credentials    *)
(* came has a privileged command carried out, however the unlocked reads of *)
(* the flag fall between logins, time-outs and new clients.                 *)
THEOREM CommandsNeedRights == Spec => []OnlyOwnRights
<1>1. OwnInv => OnlyOwnRights
  BY DEF OwnInv, Own, OnlyOwnRights
<1> QED
  BY <1>1, OwnInvHolds, PTL

(* Under the same condition a reply goes to the client that asked.          *)
THEOREM RepliesReachSender == Spec => []ReplyToSender
<1>1. OwnInv => ReplyToSender
  BY DEF OwnInv, Own, HandlersOwn, Owns, Serving, ReplyToSender, At, Live
<1> QED
  BY <1>1, OwnInvHolds, PTL

-----------------------------------------------------------------------------
(* How a slot comes to be free under a live handler. *)

Excused(c, h) ==
  h.slot \in Mgr!Registered \/ h.pc \in {"count", "close"} \/ c \in timedOut

Away ==
  /\ \A c \in Conns : Live(c) => Excused(c, handler[c])
  /\ main.pc = "spawn" => main.slot \in Mgr!Registered \/ main.conn \in timedOut

(* A step that frees no slot and leaves the threads alone, or moves main to *)
(* another place than "spawn".                                              *)
LEMMA AwayFrame ==
  ASSUME Away, Mgr!Registered \subseteq Mgr!Registered', UNCHANGED <<handler, timedOut>>,
         main' = main \/ main'.pc # "spawn"
  PROVE  Away'
  BY DEF Away, Excused, Live

LEMMA AwayHandler ==
  ASSUME Inv, Inv', Fresh, Own, Away, NEW c \in Conns, Handler(c)
  PROVE  Away'
<1> DEFINE g == handler[c]
<1>0. PICK h : h = handler'[c]
  OBVIOUS
<1>1. Live(c) /\ \A d \in Conns : d # c => handler'[d] = handler[d]
  BY OthersStay
<1>2. /\ g \in HandlerRecords /\ handler \in [Conns -> HandlerRecords] /\ PlaceOK(g)
      /\ g.slot \in Slots /\ NoSlot \notin Slots /\ Owns(c, g) /\ Excused(c, g)
      /\ socket \in [Slots -> Sockets \cup {NoSocket}]
  BY <1>1, Types DEF PlaceOK, Live, Own, HandlersOwn, Away
<1>3. main' = main /\ timedOut' = timedOut
  BY DEF Handler, Read, Receive, ReceiveEnd, Touch, Lookup, ClientNotFound, network,
         AuthSucceeds, AuthFails, CheckAdmin, AnswerAnyone, Execute, SendReply,
         Leave, Remove, CountOff, CloseLast, history
<1>4. ASSUME Mgr!Registered' = Mgr!Registered, h.pc = "none" \/ Excused(c, h)
      PROVE  Away'
  <2>1. \A d \in Conns : d # c /\ Live(d)' => Excused(d, handler[d])'
    BY <1>1, <1>3, <1>4 DEF Away, Live, Excused
  <2>2. Live(c)' => Excused(c, handler[c])'
    BY <1>0, <1>3, <1>4 DEF Live, Excused
  <2> QED
    BY <1>3, <1>4, <2>1, <2>2 DEF Away
<1>5. ASSUME h.slot = g.slot, g.pc \notin {"count", "close"}, UNCHANGED socket
      PROVE  Away'
  <2>1. Mgr!Registered' = Mgr!Registered
    BY <1>5 DEF Mgr!Registered
  <2> QED
    BY <1>2, <1>4, <1>5, <2>1 DEF Excused
<1>6. ASSUME NEW r, Reply(c, r)
      PROVE  h.slot = g.slot
  BY <1>0, <1>2, <1>6 DEF Reply, HandlerRecords
<1>7. CASE \/ ClientNotFound(c) \/ AuthFails(c) \/ AnswerAnyone(c) \/ Execute(c)
           \/ AuthSucceeds(c)
  <2>1. g.pc \notin {"count", "close"} /\ UNCHANGED socket
    BY <1>7
       DEF ClientNotFound, AuthFails, AnswerAnyone, Execute, AuthSucceeds, At, table,
           Mgr!Authenticate
  <2>2. h.slot = g.slot
    BY <1>6, <1>7 DEF ClientNotFound, AuthFails, AnswerAnyone, Execute, AuthSucceeds
  <2> QED
    BY <1>5, <2>1, <2>2
<1>8. CASE CheckAdmin(c)
  <2>1. g.pc \notin {"count", "close"} /\ UNCHANGED socket
    BY <1>8 DEF CheckAdmin, At, table
  <2>2. CASE Reply(c, "ERROR")
    BY <1>5, <1>6, <2>1, <2>2
  <2>3. CASE handler' = [handler EXCEPT ![c].pc = "execute"]
    <3>1. h.slot = g.slot
      BY <1>0, <1>2, <2>3 DEF HandlerRecords
    <3> QED
      BY <1>5, <2>1, <3>1
  <2> QED
    BY <1>8, <2>2, <2>3 DEF CheckAdmin
<1>9. CASE Read(c) \/ Receive(c) \/ ReceiveEnd(c)
  <2>1. g.pc \notin {"count", "close"} /\ UNCHANGED socket
    BY <1>9 DEF Read, Receive, ReceiveEnd, At, table
  <2>2. h.slot = g.slot
    BY <1>0, <1>2, <1>9 DEF Read, Receive, ReceiveEnd, HandlerRecords
  <2> QED
    BY <1>5, <2>1, <2>2
<1>10. CASE Touch(c) \/ Lookup(c) \/ SendReply(c) \/ Leave(c)
  <2>1. g.pc \notin {"count", "close"} /\ UNCHANGED socket
    BY <1>10 DEF Touch, Lookup, SendReply, Leave, At, table, Mgr!UpdateActivity
  <2>2. h.slot = g.slot
    BY <1>0, <1>2, <1>10 DEF Touch, Lookup, SendReply, Leave, HandlerRecords, Idle
  <2> QED
    BY <1>5, <2>1, <2>2
<1>11. CASE Remove(c)
  <2>1. g.pc = "remove" /\ Mgr!RemoveClient(g.idx)
    BY <1>11 DEF Remove, At
  <2>2. g.idx = g.slot
    BY <1>2, <2>1 DEF Owns, PlaceOK
  <2>3. h.pc \in {"count", "close"}
    <3>1. PICK p \in {"count", "close"} :
            handler' = [handler EXCEPT ![c].pc = p, ![c].idx = NoSlot]
      BY <1>11 DEF Remove
    <3> QED
      BY <1>0, <1>2, <3>1 DEF HandlerRecords
  <2>4. \A j \in Slots : j # g.slot => socket'[j] = socket[j]
    BY <1>2, <2>1, <2>2 DEF Mgr!RemoveClient, Mgr!table
  <2>5. \A j \in Slots : j # g.slot /\ j \in Mgr!Registered => j \in Mgr!Registered'
    BY <2>4 DEF Mgr!Registered, Slots
  <2>6. \A d \in Conns : d # c /\ Live(d) =>
          handler[d].slot \in Slots /\ handler[d].slot # g.slot
    BY <1>1, Types DEF Own, Apart, PlaceOK, Live
  <2>7. main.pc = "spawn" => main.slot \in Slots /\ main.slot # g.slot
    BY <1>1, Types DEF Own, MainOwns, MainOK
  <2>8. \A d \in Conns : Live(d)' => Excused(d, handler[d])'
    <3>1. Excused(c, handler[c])'
      BY <1>0, <2>3 DEF Excused
    <3>2. ASSUME NEW d \in Conns, d # c, Live(d)'
          PROVE  Excused(d, handler[d])'
      <4>1. Live(d) /\ handler'[d] = handler[d]
        BY <1>1, <3>2 DEF Live
      <4> QED
        BY <1>3, <2>5, <2>6, <3>2, <4>1 DEF Away, Excused
    <3> QED
      BY <3>1, <3>2
  <2> QED
    BY <1>3, <2>5, <2>7, <2>8 DEF Away
<1>12. CASE CloseLast(c)
  <2>1. h.pc = "none"
    BY <1>0, <1>2, <1>12 DEF CloseLast, Idle
  <2>2. Mgr!Registered' = Mgr!Registered
    BY <1>12 DEF CloseLast, table, Mgr!Registered
  <2> QED
    BY <1>4, <2>1, <2>2
<1>13. CASE CountOff(c)
  <2>1. h.pc = "close"
    BY <1>0, <1>2, <1>13 DEF CountOff, HandlerRecords
  <2>2. Mgr!Registered' = Mgr!Registered
    BY <1>13 DEF CountOff, table, Mgr!Registered
  <2> QED
    BY <1>4, <2>1, <2>2 DEF Excused
<1> QED
  BY <1>7, <1>8, <1>9, <1>10, <1>11, <1>12, <1>13 DEF Handler

LEMMA AwayStep ==
  ASSUME Inv, Inv', Fresh, ~ reused => Own /\ Away, [Next]_vars, ~ reused'
  PROVE  Away'
<1>1. CASE \E c \in Conns : Handler(c)
  <2>1. PICK c \in Conns : Handler(c)
    BY <1>1
  <2>2. reused' = reused
    BY <2>1
       DEF Handler, Read, Receive, ReceiveEnd, Touch, Lookup, ClientNotFound, history,
           AuthSucceeds, AuthFails, CheckAdmin, AnswerAnyone, Execute, SendReply,
           Leave, Remove, CountOff, CloseLast
  <2> QED
    BY <2>1, <2>2, AwayHandler
<1>2. CASE Add
  <2> DEFINE k == Mgr!NewSlot
  <2>1. k \in Slots /\ k \notin Mgr!Registered
    BY <1>2, SameOperators, TP!NewSlotIsFree, TableAssumption, NewSlotIsSlot
       DEF Add, Mgr!AddClient
  <2>2. /\ ~ reused /\ main' = [main EXCEPT !.pc = "spawn", !.slot = k]
        /\ socket' = [socket EXCEPT ![k] = main.sock] /\ main.pc = "add"
        /\ UNCHANGED <<handler, timedOut>>
    BY <1>2 DEF Add, MainAt, Mgr!AddClient, network
  <2>3. main.sock # NoSocket /\ main'.slot = k
    BY <2>2, Types DEF MainRecords, MainOK
  <2>4. k \in Mgr!Registered' /\ Mgr!Registered \subseteq Mgr!Registered'
    BY <2>1, <2>2, <2>3, Types DEF Mgr!Registered, Slots, NoSocket
  <2> QED
    BY <1>2, <2>2, <2>3, <2>4 DEF Away, Excused, Live
<1>3. CASE Spawn
  <2>1. /\ main.pc = "spawn" /\ main' = MainIdle /\ ~ reused
        /\ handler' = [handler EXCEPT ![main.conn] =
                         [Idle EXCEPT !.pc = "top", !.slot = main.slot]]
        /\ UNCHANGED <<socket, timedOut>>
    BY <1>3 DEF Spawn, MainAt, table, network, history
  <2>2. Mgr!Registered' = Mgr!Registered
    BY <2>1 DEF Mgr!Registered
  <2>3. PICK m : m = main.conn
    OBVIOUS
  <2>4. /\ m \in Conns /\ handler'[m].slot = main.slot
        /\ \A d \in Conns : d # m => handler'[d] = handler[d]
    BY <2>1, <2>3, Types DEF MainOK, Idle
  <2>5. ASSUME NEW c \in Conns, Live(c)' PROVE Excused(c, handler[c])'
    <3>1. CASE c = m
      BY <1>3, <2>1, <2>2, <2>3, <2>4, <3>1 DEF Away, Excused
    <3>2. CASE c # m
      BY <1>3, <2>1, <2>2, <2>4, <2>5, <3>2 DEF Away, Excused, Live
    <3> QED
      BY <3>1, <3>2
  <2> QED
    BY <2>1, <2>5 DEF Away, MainIdle
<1>4. CASE SpawnFails
  <2>1. /\ main.pc = "spawn" /\ main' = MainIdle /\ ~ reused
        /\ Mgr!RemoveClient(main.slot) /\ UNCHANGED <<handler, timedOut>>
    BY <1>4 DEF SpawnFails, MainAt, history
  <2>2. \A j \in Slots : j # main.slot => socket'[j] = socket[j]
    BY <2>1, Types DEF Mgr!RemoveClient, Mgr!table
  <2>3. \A j \in Slots : j # main.slot /\ j \in Mgr!Registered => j \in Mgr!Registered'
    BY <2>2 DEF Mgr!Registered, Slots
  <2>4. \A c \in Conns : Live(c) => handler[c].slot \in Slots /\ handler[c].slot # main.slot
    BY <1>4, <2>1, Types DEF Own, MainOwns, PlaceOK, Live
  <2>5. \A c \in Conns : Live(c) => Excused(c, handler[c])'
    BY <1>4, <2>1, <2>3, <2>4 DEF Away, Excused
  <2> QED
    BY <2>1, <2>5 DEF Away, MainIdle, Live
<1>5. CASE TimeOut
  <2> DEFINE k == Mgr!Lowest(Mgr!Inactive)
  <2>1. /\ socket' = [socket EXCEPT ![k] = NoSocket]
        /\ timedOut' = timedOut \cup {peer[k]} /\ ~ reused
        /\ UNCHANGED <<peer, main, handler>>
    BY <1>5 DEF TimeOut, NextInactive, Mgr!TimeOut, network, NoSocket
  <2>2. \A i \in Mgr!Registered : i \in Mgr!Registered' \/ peer[i] \in timedOut'
    BY <2>1, Types DEF Mgr!Registered, Slots, NoSocket
  <2>3. ASSUME NEW c \in Conns, Live(c) PROVE Excused(c, handler[c])'
    <3>1. handler[c].slot \in Mgr!Registered => peer[handler[c].slot] = c
      BY <1>5, <2>1, <2>3 DEF Own, HandlersOwn, Owns
    <3>2. Excused(c, handler[c])
      BY <1>5, <2>1, <2>3 DEF Away
    <3> QED
      BY <2>1, <2>2, <3>1, <3>2 DEF Excused
  <2>4. main.pc = "spawn" => main.slot \in Mgr!Registered' \/ main.conn \in timedOut'
    BY <1>5, <2>1, <2>2 DEF Away, Own, MainOwns
  <2> QED
    BY <2>1, <2>3, <2>4 DEF Away, Live
<1>6. CASE Accept \/ CheckSpace
  <2>1. UNCHANGED <<socket, handler, timedOut, reused>>
    BY <1>6 DEF Accept, CheckSpace, table, history
  <2>2. main'.pc # "spawn"
    <3>1. main \in MainRecords
      BY Types
    <3>2. CASE Accept
      BY <3>1, <3>2 DEF Accept, MainRecords
    <3>3. CASE CheckSpace
      BY <3>1, <3>3 DEF CheckSpace, MainIdle, MainRecords
    <3> QED
      BY <1>6, <3>2, <3>3
  <2>3. Mgr!Registered' = Mgr!Registered
    BY <2>1 DEF Mgr!Registered
  <2> QED
    BY <2>1, <2>2, <2>3, AwayFrame
<1>7. CASE \/ \E c \in Conns : Client(c)
           \/ Telemetry \/ CountTimedOut \/ UNCHANGED vars \/ \E i \in Slots : GrowStale(i)
  <2>1. UNCHANGED <<socket, handler, main, timedOut, reused>>
    BY <1>7
       DEF Client, Connect, SendRequest, Hangup, Stall, ReadAgain, table, history,
           Telemetry, StartBroadcast, SendNext, CountTimedOut, vars, GrowStale, Mgr!GrowStale, network
  <2>2. Mgr!Registered' = Mgr!Registered
    BY <2>1 DEF Mgr!Registered
  <2> QED
    BY <2>1, <2>2, AwayFrame
<1> QED
  BY <1>1, <1>2, <1>3, <1>4, <1>5, <1>6, <1>7 DEF Next, MainStep, Cleanup

(* A slot is given away under a live handler only if its client was timed   *)
(* out, or if the handler has left the table and has only its last close to *)
(* do: nothing else ends the condition of the four theorems above.          *)
THEOREM GivenAwayAfterLeaving == Spec => ReusedOnlyAfterLeaving
<1> DEFINE AwayInv == ~ reused => Away
           Step == ~ reused /\ reused' =>
                     \E c \in Conns : /\ Live(c) /\ handler[c].slot = main'.slot
                                      /\ At(c, "close") \/ c \in timedOut
<1>1. Init => AwayInv
  BY DEF Init, MainIdle, Away, Live, Idle
<1>2. Inv /\ Inv' /\ OwnInv /\ AwayInv /\ [Next]_vars => AwayInv'
  <2> SUFFICES ASSUME Inv, Inv', OwnInv, AwayInv, [Next]_vars, ~ reused'
               PROVE  Away'
    OBVIOUS
  <2> QED
    BY AwayStep DEF OwnInv
<1>3. Inv /\ AwayInv /\ [Next]_vars => [Step]_vars
  <2> SUFFICES ASSUME Inv, Away, Next, ~ reused, reused'
               PROVE  Step
    BY DEF vars, history
  <2>1. Add
    <3>1. ASSUME NEW c \in Conns, Handler(c) PROVE reused' = reused
      BY <3>1
         DEF Handler, Read, Receive, ReceiveEnd, Touch, Lookup, ClientNotFound, history,
             AuthSucceeds, AuthFails, CheckAdmin, AnswerAnyone, Execute, SendReply,
             Leave, Remove, CountOff, CloseLast
    <3>2. ASSUME NEW c \in Conns, Client(c) PROVE reused' = reused
      BY <3>2 DEF Client, Connect, SendRequest, Hangup, Stall, ReadAgain, history
    <3> QED
      BY <3>1, <3>2
         DEF Next, MainStep, Telemetry, Accept, CheckSpace, Spawn, SpawnFails, Cleanup,
             TimeOut, CountTimedOut, StartBroadcast, SendNext, GrowStale, history
  <2>2. PICK c \in Conns : Live(c) /\ handler[c].slot = Mgr!NewSlot /\ Up
    BY <2>1 DEF Add, MainAt
  <2>5. handler[c].pc # "count"
    BY <2>1 DEF Add, TableFree, Inv, CountingOK
  <2>3. Mgr!NewSlot \notin Mgr!Registered
    BY <2>1, SameOperators, TP!NewSlotIsFree, TableAssumption DEF Add, Mgr!AddClient
  <2>4. main'.slot = Mgr!NewSlot
    <3>1. main \in MainRecords
      BY Types
    <3>2. main' = [main EXCEPT !.pc = "spawn", !.slot = Mgr!NewSlot]
      BY <2>1 DEF Add
    <3> QED
      BY <3>1, <3>2 DEF MainRecords
  <2> QED
    BY <2>2, <2>3, <2>4, <2>5 DEF Away, Excused, At
<1> QED
  BY <1>1, <1>2, <1>3, ServerInv, OwnInvHolds, PTL DEF Spec, ReusedOnlyAfterLeaving
=============================================================================

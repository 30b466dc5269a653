--------------------------- MODULE ClientManager ---------------------------
(***************************************************************************)
(* The client table of server/client_protocol.c (client_manager_t): a      *)
(* fixed array of slots and a counter, behind one mutex.  A change of one  *)
(* slot, with the counter that goes with it, is one action; who holds the  *)
(* mutex, and for how many of them, is said in TelemetryServer.            *)
(*                                                                         *)
(* A slot is free when its socket is -1.  ip and port identify the         *)
(* connection a slot was filled for; they are one field here, "peer", a    *)
(* member of Peers.  authenticated, is_admin and username are always       *)
(* assigned together: one field, "admin".  last_activity is compared with  *)
(* the clock in one place only, so it is the outcome of that comparison:   *)
(* "stale" says that the slot has been silent for more than                *)
(* CLIENT_TIMEOUT_SECONDS.                                                 *)
(***************************************************************************)
EXTENDS Integers, FiniteSets

CONSTANTS
  MaxClients,   \* slots in the table, 50 in the code
  Sockets,      \* descriptors the kernel may hand out
  Peers,        \* connections, as ip:port
  NoPeer        \* what ip and port of a slot never used hold

ASSUME ManagerAssumption ==
  /\ MaxClients \in Nat
  /\ Sockets \subseteq Nat
  /\ NoPeer \notin Peers

VARIABLES socket, peer, admin, stale, clientCount

table == <<socket, peer, admin, stale, clientCount>>

NoSocket == -1
NoSlot == -1

Slots == 0 .. MaxClients - 1
Registered == {i \in Slots : socket[i] # NoSocket}
Free == {i \in Slots : socket[i] = NoSocket}

Lowest(S) == CHOOSE i \in S : \A j \in S : i <= j

(* client_manager_find_by_socket: the first slot that holds s. *)
FindBySocket(s) ==
  LET holders == {i \in Registered : socket[i] = s}
  IN  IF holders = {} THEN NoSlot ELSE Lowest(holders)

-----------------------------------------------------------------------------
TableInit ==
  /\ socket = [i \in Slots |-> NoSocket]
  /\ peer = [i \in Slots |-> NoPeer]
  /\ admin = [i \in Slots |-> FALSE]
  /\ stale = [i \in Slots |-> FALSE]
  /\ clientCount = 0

(* client_manager_add_client, when it succeeds; the new slot is NewSlot. *)
CanAdd == clientCount < MaxClients /\ Free # {}
NewSlot == Lowest(Free)

(* Mutant: a slot keeps the flag of the client it had before. *)
AddClientKeepsAdmin(s, p) ==
  /\ CanAdd
  /\ socket' = [socket EXCEPT ![NewSlot] = s]
  /\ peer' = [peer EXCEPT ![NewSlot] = p]
  /\ stale' = [stale EXCEPT ![NewSlot] = FALSE]
  /\ clientCount' = clientCount + 1
  /\ UNCHANGED admin

AddClient(s, p) ==
  /\ CanAdd
  /\ socket' = [socket EXCEPT ![NewSlot] = s]
  /\ peer' = [peer EXCEPT ![NewSlot] = p]
  /\ admin' = [admin EXCEPT ![NewSlot] = FALSE]
  /\ stale' = [stale EXCEPT ![NewSlot] = FALSE]
  /\ clientCount' = clientCount + 1

(* Mutant: a slot that is free already is counted off again. *)
RemoveClientAgain(i) ==
  /\ socket' = [socket EXCEPT ![i] = NoSocket]
  /\ admin' = [admin EXCEPT ![i] = FALSE]
  /\ clientCount' = clientCount - 1
  /\ UNCHANGED <<peer, stale>>

(* client_manager_remove_client; the descriptor it closes is socket[i].     *)
(* A slot that is free already is left alone, counter included.             *)
RemoveClient(i) ==
  IF i \in Registered
  THEN /\ socket' = [socket EXCEPT ![i] = NoSocket]
       /\ admin' = [admin EXCEPT ![i] = FALSE]
       /\ clientCount' = clientCount - 1
       /\ UNCHANGED <<peer, stale>>
  ELSE UNCHANGED table

(* client_manager_update_activity *)
UpdateActivity(i) ==
  /\ stale' = [stale EXCEPT ![i] = stale[i] /\ i \notin Registered]
  /\ UNCHANGED <<socket, peer, admin, clientCount>>

(* client_manager_authenticate_client, once the credentials have matched *)
Authenticate(i) ==
  /\ admin' = [admin EXCEPT ![i] = admin[i] \/ i \in Registered]
  /\ UNCHANGED <<socket, peer, stale, clientCount>>

(* One slot that the loop of client_manager_cleanup_inactive frees: it is   *)
(* marked free and counted off; nothing is closed, and the administrator    *)
(* flag stays in the slot.                                                  *)
Inactive == {i \in Registered : stale[i]}

(* Mutant: the slot is freed and not counted off. *)
TimeOutUncounted(i) ==
  /\ i \in Inactive
  /\ socket' = [socket EXCEPT ![i] = NoSocket]
  /\ UNCHANGED <<peer, admin, stale, clientCount>>

TimeOut(i) ==
  /\ i \in Inactive
  /\ socket' = [socket EXCEPT ![i] = NoSocket]
  /\ clientCount' = clientCount - 1
  /\ UNCHANGED <<peer, admin, stale>>

(* The environment: a registered client has now been silent for too long. *)
GrowStale(i) ==
  /\ i \in Registered
  /\ stale' = [stale EXCEPT ![i] = TRUE]
  /\ UNCHANGED <<socket, peer, admin, clientCount>>

TableNext ==
  \/ \E i \in Slots : \/ RemoveClient(i)
                      \/ UpdateActivity(i)
                      \/ Authenticate(i)
                      \/ TimeOut(i)
                      \/ GrowStale(i)
  \/ \E s \in Sockets, p \in Peers : AddClient(s, p)

TableSpec == TableInit /\ [][TableNext]_table

-----------------------------------------------------------------------------
(* The type invariant of the table. *)
TableTypeOK ==
  /\ socket \in [Slots -> Sockets \cup {NoSocket}]
  /\ peer \in [Slots -> Peers \cup {NoPeer}]
  /\ admin \in [Slots -> BOOLEAN]
  /\ stale \in [Slots -> BOOLEAN]
  /\ clientCount \in 0 .. MaxClients

(* The counter that guards admission (server.c:94, client_protocol.c:70) is *)
(* the number of slots in use, although three functions change it in three  *)
(* threads and two of them may be about to free the same slot.              *)
CountExact == clientCount = Cardinality(Registered)
=============================================================================

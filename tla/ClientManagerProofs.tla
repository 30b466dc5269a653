------------------------ MODULE ClientManagerProofs ------------------------
(***************************************************************************)
(* Theorems of the client table, for every number of slots and every set   *)
(* of descriptors and connections.  The type invariant is inductive only   *)
(* together with CountExact: it is the exact count that keeps clientCount  *)
(* within 0 .. MaxClients when slots are freed.                            *)
(***************************************************************************)
EXTENDS ClientManager, FiniteSetTheorems, WellFoundedInduction, TLAPS

(* The types of the arrays, without the counter. *)
ArraysTypeOK ==
  /\ socket \in [Slots -> Sockets \cup {NoSocket}]
  /\ peer \in [Slots -> Peers \cup {NoPeer}]
  /\ admin \in [Slots -> BOOLEAN]
  /\ stale \in [Slots -> BOOLEAN]

TableInv == ArraysTypeOK /\ CountExact

-----------------------------------------------------------------------------
(* Any set of slots is finite and no larger than the table. *)
LEMMA SlotSetsAreSmall ==
  ASSUME NEW S \in SUBSET Slots
  PROVE  IsFiniteSet(S) /\ Cardinality(S) \in 0 .. MaxClients
<1>1. MaxClients \in Nat
  BY ManagerAssumption
<1>2. IsFiniteSet(Slots) /\ Cardinality(Slots) = MaxClients
  BY <1>1, FS_Interval DEF Slots
<1>3. IsFiniteSet(S) /\ Cardinality(S) <= Cardinality(Slots)
  BY <1>2, FS_Subset
<1>4. Cardinality(S) \in Nat
  BY <1>3, FS_CardinalityType
<1> QED
  BY <1>1, <1>2, <1>3, <1>4

(* A nonempty set of natural numbers has a least element: Lowest finds it.  *)
LEMMA LowestIsMember ==
  ASSUME NEW S \in SUBSET Nat, S # {}
  PROVE  Lowest(S) \in S
<1>1. \E i \in S : \A j \in S : ~ (<<j, i>> \in OpToRel(<, Nat))
  BY NatLessThanWellFounded, WFMin, Zenon
<1>2. \E i \in S : \A j \in S : ~ (j < i)
  BY <1>1 DEF OpToRel
<1>3. \E i \in S : \A j \in S : i <= j
  BY <1>2
<1> QED
  BY <1>3 DEF Lowest

LEMMA NewSlotIsFree ==
  ASSUME CanAdd
  PROVE  NewSlot \in Free /\ NewSlot \in Slots /\ NewSlot \notin Registered
<1>1. Free \in SUBSET Slots /\ Free # {}
  BY DEF Free, CanAdd
<1>2. Free \in SUBSET Nat
  BY <1>1, ManagerAssumption DEF Slots
<1> QED
  BY <1>1, <1>2, LowestIsMember DEF NewSlot, Free, Registered

(* What find_by_socket returns is a slot in use, or NoSlot. *)
LEMMA FoundSlot ==
  ASSUME NEW s
  PROVE  FindBySocket(s) = NoSlot \/ FindBySocket(s) \in Registered
<1> DEFINE holders == {i \in Registered : socket[i] = s}
<1>1. holders \in SUBSET Nat
  BY ManagerAssumption DEF Registered, Slots
<1>2. CASE holders = {}
  BY <1>2 DEF FindBySocket
<1>3. CASE holders # {}
  <2>1. Lowest(holders) \in holders
    BY <1>1, <1>3, LowestIsMember
  <2> QED
    BY <1>3, <2>1 DEF FindBySocket
<1> QED
  BY <1>2, <1>3

(* The counter has the range that the type invariant asks for. *)
LEMMA InvImpliesType == TableInv => TableTypeOK /\ CountExact
<1>1. Registered \in SUBSET Slots
  BY DEF Registered
<1> QED
  BY <1>1, SlotSetsAreSmall DEF TableInv, ArraysTypeOK, TableTypeOK, CountExact

-----------------------------------------------------------------------------
LEMMA InvInit == TableInit => TableInv
<1> SUFFICES ASSUME TableInit PROVE TableInv
  OBVIOUS
<1>1. ArraysTypeOK
  BY DEF TableInit, ArraysTypeOK
<1>2. Registered = {}
  BY DEF TableInit, Registered
<1> QED
  BY <1>1, <1>2, FS_EmptySet DEF TableInit, TableInv, CountExact

(* Each step of the table changes Registered by a set whose size is the     *)
(* change of the counter.                                                   *)
LEMMA InvStep == TableInv /\ [TableNext]_table => TableInv'
<1> SUFFICES ASSUME TableInv, [TableNext]_table PROVE TableInv'
  OBVIOUS
<1>0. /\ Registered \in SUBSET Slots
      /\ IsFiniteSet(Registered)
      /\ Cardinality(Registered) \in Nat
      /\ clientCount = Cardinality(Registered)
  <2>1. Registered \in SUBSET Slots
    BY DEF Registered
  <2> QED
    BY <2>1, SlotSetsAreSmall, ManagerAssumption DEF TableInv, CountExact
<1>1. ASSUME NEW s \in Sockets, NEW p \in Peers, AddClient(s, p)
      PROVE  TableInv'
  <2>1. NewSlot \in Slots /\ NewSlot \notin Registered
    BY <1>1, NewSlotIsFree DEF AddClient
  <2>2. ArraysTypeOK'
    BY <1>1, <2>1 DEF AddClient, TableInv, ArraysTypeOK
  <2>3. s # NoSocket
    BY ManagerAssumption DEF NoSocket
  <2>4. Registered' = Registered \cup {NewSlot}
    BY <1>1, <2>1, <2>3 DEF AddClient, TableInv, ArraysTypeOK, Registered
  <2>5. clientCount' = Cardinality(Registered')
    BY <1>0, <1>1, <2>1, <2>4, FS_AddElement DEF AddClient
  <2> QED
    BY <2>2, <2>5 DEF TableInv, CountExact
<1>2. ASSUME NEW i \in Slots, RemoveClient(i) PROVE TableInv'
  <2>1. CASE i \notin Registered
    BY <1>2, <2>1
       DEF RemoveClient, table, TableInv, ArraysTypeOK, CountExact, Registered
  <2>2. CASE i \in Registered
    <3>1. ArraysTypeOK'
      BY <1>2, <2>2 DEF RemoveClient, TableInv, ArraysTypeOK
    <3>2. Registered' = Registered \ {i}
      BY <1>2, <2>2 DEF RemoveClient, TableInv, ArraysTypeOK, Registered
    <3>3. clientCount' = Cardinality(Registered')
      BY <1>0, <1>2, <2>2, <3>2, FS_RemoveElement DEF RemoveClient
    <3> QED
      BY <3>1, <3>3 DEF TableInv, CountExact
  <2> QED
    BY <2>1, <2>2
<1>3. ASSUME NEW i \in Slots, UpdateActivity(i) PROVE TableInv'
  <2>1. (stale[i] /\ i \notin Registered) \in BOOLEAN
    OBVIOUS
  <2> QED
    BY <1>3, <2>1
       DEF UpdateActivity, TableInv, ArraysTypeOK, CountExact, Registered
<1>4. ASSUME NEW i \in Slots, Authenticate(i) PROVE TableInv'
  <2>1. (admin[i] \/ i \in Registered) \in BOOLEAN
    OBVIOUS
  <2> QED
    BY <1>4, <2>1
       DEF Authenticate, TableInv, ArraysTypeOK, CountExact, Registered
<1>5. ASSUME NEW i \in Slots, GrowStale(i) PROVE TableInv'
  BY <1>5 DEF GrowStale, TableInv, ArraysTypeOK, CountExact, Registered
<1>6. ASSUME NEW i \in Slots, TimeOut(i) PROVE TableInv'
  <2>1. ArraysTypeOK'
    BY <1>6 DEF TimeOut, TableInv, ArraysTypeOK
  <2>2. i \in Registered /\ Registered' = Registered \ {i}
    BY <1>6 DEF TimeOut, TableInv, ArraysTypeOK, Inactive, Registered
  <2>3. clientCount' = Cardinality(Registered')
    BY <1>0, <1>6, <2>2, FS_RemoveElement DEF TimeOut
  <2> QED
    BY <2>1, <2>3 DEF TableInv, CountExact
<1>7. CASE UNCHANGED table
  BY <1>7 DEF table, TableInv, ArraysTypeOK, CountExact, Registered
<1> QED
  BY <1>1, <1>2, <1>3, <1>4, <1>5, <1>6, <1>7 DEF TableNext

LEMMA InvAlways == TableSpec => []TableInv
  BY InvInit, InvStep, PTL DEF TableSpec

-----------------------------------------------------------------------------
(* The type invariant of the table. *)
THEOREM TableTypeCorrect == TableSpec => []TableTypeOK
  BY InvAlways, InvImpliesType, PTL

(* The counter that main checks before it admits a client is the number of  *)
(* slots in use, in whatever order the threads add, remove and time out.    *)
THEOREM CountIsExact == TableSpec => []CountExact
  BY InvAlways, InvImpliesType, PTL
=============================================================================

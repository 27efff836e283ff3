-------------------------- MODULE RequestsProofs --------------------------
(***************************************************************************)
(* Proofs about the life of a request, for every size of the registry and  *)
(* of the ring and every set of futures.                                   *)
(***************************************************************************)
EXTENDS Requests, RegistryProofs

\* A call that registers and gives its slot back leaves a well-formed registry
\* with the slots as they were.
LEMMA UnregisterWellFormed ==
  ASSUME registry \in RequestRegistry, WellFormed(registry), ~registry.aborted,
         ~IsFull(registry), NEW f \in Future, Unregister(f)
  PROVE  /\ registry' \in RequestRegistry /\ WellFormed(registry') /\ ~registry'.aborted
         /\ registry'.slots = registry.slots
<1> DEFINE reg == registry_add(registry, f)
           i == AddIndex(registry)
<1>1. /\ reg \in RequestRegistry /\ WellFormed(reg) /\ ~reg.aborted
      /\ i \in Index /\ registry.slots[i] = NoFuture
  BY AddWellFormed
<1>2. registry.slots \in [Index -> Slot] /\ reg.slots = [registry.slots EXCEPT ![i] = f]
  BY RegistryFields, AddSlots
<1>3. registry' = registry_remove(reg, i)
  BY DEF Unregister
<1> HIDE DEF reg, i
<1>4. reg.slots[i] # NoFuture
  BY <1>1, <1>2, FutureAssumption
<1>5. /\ registry' \in RequestRegistry /\ WellFormed(registry') /\ ~registry'.aborted
      /\ registry'.slots = [reg.slots EXCEPT ![i] = NoFuture]
  BY <1>1, <1>3, <1>4, RemoveWellFormed
<1>6. registry'.slots = registry.slots
  BY <1>1, <1>2, <1>5
<1> QED
  BY <1>5, <1>6

-----------------------------------------------------------------------------
(* Types, whatever is called and whatever fails *)

\* An index the registry hands out is in the table.
LEMMA AddIndexType ==
  ASSUME NEW reg \in RequestRegistry, ~IsFull(reg)
  PROVE  reg.top \in Index /\ AddIndex(reg) \in Index
<1>1. /\ reg.top \in Int /\ -1 <= reg.top /\ reg.top <= Size - 1
      /\ reg.available_indices \in [Index -> Index]
  BY RegistryFields, Zenon
<1>2. ~(reg.top < 0)
  BY DEF IsFull
<1>3. reg.top \in Index
  BY <1>1, <1>2, SizeAssumption DEF Index
<1> QED
  BY <1>1, <1>3, Zenon DEF AddIndex

\* registry_add keeps the fields of the struct in range, for any registry.
LEMMA AddType ==
  ASSUME NEW reg \in RequestRegistry, NEW f \in Future PROVE registry_add(reg, f) \in RequestRegistry
<1>1. CASE IsFull(reg)
  BY <1>1 DEF registry_add
<1>2. CASE ~IsFull(reg)
  <2>1. PICK s \in [Index -> Slot] : s = [reg.slots EXCEPT ![AddIndex(reg)] = f]
    BY <1>2, AddIndexType, RegistryFields DEF Slot
  <2>2. registry_add(reg, f) = [reg EXCEPT !.top = reg.top - 1, !.slots = s]
    BY <1>2, <2>1 DEF registry_add
  <2>3. reg.top - 1 \in -1 .. Size - 1
    BY <1>2, AddIndexType, SizeAssumption DEF Index
  <2> QED
    BY <2>2, <2>3 DEF RequestRegistry
<1> QED
  BY <1>1, <1>2

\* So does registry_remove, for any registry and any user_data.
LEMMA RemoveType ==
  ASSUME NEW reg \in RequestRegistry, NEW i PROVE registry_remove(reg, i) \in RequestRegistry
<1>1. CASE i \notin Index
  BY <1>1 DEF registry_remove
<1>2. CASE i \in Index /\ reg.top >= Size - 1
  <2>1. registry_remove(reg, i) = [reg EXCEPT !.aborted = TRUE]
    BY <1>2 DEF registry_remove
  <2> QED
    BY <2>1 DEF RequestRegistry
<1>3. CASE i \in Index /\ ~(reg.top >= Size - 1)
  <2>1. reg.top + 1 \in Index
    BY <1>3, RegistryFields, SizeAssumption DEF Index
  <2>2. PICK s \in [Index -> Slot] : s = [reg.slots EXCEPT ![i] = NoFuture]
    BY <1>3, RegistryFields DEF Slot
  <2>3. PICK t \in [Index -> Index] : t = [reg.available_indices EXCEPT ![reg.top + 1] = i]
    BY <1>3, <2>1, RegistryFields
  <2>4. registry_remove(reg, i) = [reg EXCEPT !.slots = s, !.top = reg.top + 1, !.available_indices = t]
    BY <1>3, <2>2, <2>3 DEF registry_remove
  <2>5. reg.top + 1 \in -1 .. Size - 1
    BY <2>1, SizeAssumption DEF Index
  <2> QED
    BY <2>4, <2>5 DEF RequestRegistry
<1> QED
  BY <1>1, <1>2, <1>3

\* The places of the ring: io_uring_get_sqe wraps around.
LEMMA RingPlaces ==
  ASSUME NEW n \in Nat PROVE n % SQEntries \in 0 .. SQEntries - 1
BY RingAssumption

\* The SQEs a call takes.
LEMMA NewSqeTypes ==
  ASSUME TypeOK, NEW f \in Future
  PROVE  /\ StaleSqe(f) \in SQE /\ TimeoutSqe(f) \in SQE
         /\ \A i \in Index : OpSqe(f, i) \in SQE
<1>1. sq_tail \in Nat /\ sq_tail \in 0 .. SQEntries - 1 /\ sqe_data \in [0 .. SQEntries - 1 -> UserData]
  BY RingAssumption DEF TypeOK
<1>2. Tail2 \in 0 .. SQEntries - 1
  BY <1>1, RingPlaces DEF Tail2
<1>3. sqe_data[Tail2] \in UserData /\ sqe_data[sq_tail] \in UserData
  BY <1>1, <1>2
<1>4. \A i \in Index : i \in UserData
  BY SizeAssumption DEF Index, UserData
<1> QED
  BY <1>3, <1>4 DEF StaleSqe, TimeoutSqe, OpSqe, SQE

\* A call that raises.
LEMMA RaisesType ==
  ASSUME TypeOK, NEW f \in Future, NEW o, NEW registered \in BOOLEAN, Raises(f, o, registered)
  PROVE  /\ fut' \in [Future -> FutureState]
         /\ payload' \in [Future \cup {ContextPayload} -> {"none", "live", "freed", "corrupt"}]
         /\ msghdr' \in [Future -> {"none", "live", "freed"}]
BY DEF TypeOK, Raises, FutureState

\* Every outcome of a call.
LEMMA CallTypeOK ==
  ASSUME TypeOK, NEW f \in Future, NEW o \in Ops, NEW to \in Timeouts, Call(f, o, to)
  PROVE  TypeOK'
<1>1. /\ op' \in [Future -> Ops \cup {NoOp}] /\ UNCHANGED <<cq, answered, stage>>
  BY DEF Call, CallRegistryFull, CallNoSqe, CallLeavesSqe, CallSubmitFails, CallSubmitted, Calls,
         TypeOK
<1>2. registry \in RequestRegistry
  BY DEF TypeOK, RegistryTypeOK
<1>3. registry' \in RequestRegistry
  <2>1. CASE Unregister(f)
    BY <1>2, <2>1, AddType, RemoveType DEF Unregister
  <2>2. CASE CallSubmitted(f, o, to)
    BY <1>2, <2>2, AddType DEF CallSubmitted
  <2>3. CASE CallRegistryFull(f, o, to)
    BY <1>2, <2>3 DEF CallRegistryFull
  <2> QED
    BY <2>1, <2>2, <2>3 DEF Call, CallNoSqe, CallLeavesSqe, CallSubmitFails
<1>4. /\ fut' \in [Future -> FutureState]
      /\ payload' \in [Future \cup {ContextPayload} -> {"none", "live", "freed", "corrupt"}]
      /\ msghdr' \in [Future -> {"none", "live", "freed"}]
  <2>1. CASE CallSubmitted(f, o, to)
    BY <2>1 DEF CallSubmitted, TypeOK, FutureState
  <2> QED
    BY <2>1, RaisesType DEF Call, CallRegistryFull, CallNoSqe, CallLeavesSqe, CallSubmitFails
<1>5. sq_tail' \in 0 .. SQEntries - 1
  <2>1. sq_tail \in Nat /\ sq_tail \in 0 .. SQEntries - 1
    BY RingAssumption DEF TypeOK
  <2>2. SqesTaken(to) \in Nat
    BY DEF SqesTaken
  <2>3. sq_tail' = sq_tail \/ sq_tail' = (sq_tail + SqesTaken(to)) % SQEntries
    BY DEF Call, CallRegistryFull, CallNoSqe, CallLeavesSqe, CallSubmitFails, CallSubmitted,
           Prepared, TakeSqes, ringVars
  <2> QED
    BY <2>1, <2>2, <2>3, RingPlaces
<1>6. sqe_data' \in [0 .. SQEntries - 1 -> UserData]
  <2>1. CASE Prepared(f, o, to)
    <3>1. AddIndex(registry) \in UserData
      <4>1. AddIndex(registry) \in Index
        BY <1>2, <2>1, AddIndexType DEF Prepared
      <4> QED
        BY <4>1, SizeAssumption DEF Index, UserData
    <3> QED
      BY <2>1, <3>1 DEF Prepared, TypeOK
  <2>2. CASE ~Prepared(f, o, to)
    BY <2>2 DEF Call, CallRegistryFull, CallNoSqe, CallLeavesSqe, CallSubmitFails, CallSubmitted,
                ringVars, TypeOK
  <2> QED
    BY <2>1, <2>2
<1>7. sq' \subseteq SQE /\ kernel' \subseteq SQE
  <2>1. StaleSqe(f) \in SQE /\ TimeoutSqe(f) \in SQE /\ sq \subseteq SQE /\ kernel \subseteq SQE
    BY NewSqeTypes DEF TypeOK
  <2>2. CASE CallRegistryFull(f, o, to) \/ CallNoSqe(f, o, to) \/ CallLeavesSqe(f, o, to)
    BY <2>1, <2>2 DEF CallRegistryFull, CallNoSqe, CallLeavesSqe, ringVars
  <2>3. CASE CallSubmitFails(f, o, to) \/ CallSubmitted(f, o, to)
    <3>1. AddIndex(registry) \in Index
      BY <1>2, <2>3, AddIndexType DEF CallSubmitFails, CallSubmitted, Prepared
    <3>2. NewSqes(f, AddIndex(registry), to) \subseteq SQE
      BY <2>1, <3>1, NewSqeTypes DEF NewSqes
    <3> QED
      BY <2>1, <2>3, <3>2 DEF CallSubmitFails, CallSubmitted
  <2> QED
    BY <2>2, <2>3 DEF Call
<1> QED
  BY <1>1, <1>3, <1>4, <1>5, <1>6, <1>7 DEF TypeOK, RegistryTypeOK

\* Freeing payloads.
LEMMA FreeType ==
  ASSUME TypeOK, NEW ps, NEW force \in BOOLEAN
  PROVE  free_buffer_payload(payload, ps, force)
           \in [Future \cup {ContextPayload} -> {"none", "live", "freed", "corrupt"}]
BY DEF TypeOK, free_buffer_payload, Freed

\* The reader or the drain takes the first CQE of the queue.
LEMMA TakesCqeTypeOK ==
  ASSUME TypeOK, on_uring_ready \/ graceful_shutdown_cqe PROVE TypeOK'
<1> DEFINE c == Head(cq)
           f == registry_get(registry, c.user_data)
<1>1. cq # << >> /\ cq' = Tail(cq) /\ UNCHANGED <<sqe_data, sq_tail, sq, kernel, op, stage>>
  BY DEF on_uring_ready, graceful_shutdown_cqe, ringVars
<1>2. c \in CQE /\ cq' \in Seq(CQE)
  BY <1>1 DEF TypeOK
<1>3. c.req \in Future /\ c.kind \in {"op", "timeout", "stale"}
  BY <1>2 DEF CQE
<1>4. registry \in RequestRegistry /\ f \in Slot
  <2>1. registry \in RequestRegistry /\ registry.slots \in [Index -> Slot]
    BY RegistryFields DEF TypeOK, RegistryTypeOK
  <2> QED
    BY <2>1 DEF registry_get, Slot
<1>5. registry' \in RequestRegistry
  <2>1. registry' = registry \/ registry' = registry_remove(registry, c.user_data)
    BY DEF on_uring_ready, graceful_shutdown_cqe
  <2> HIDE DEF c
  <2> QED
    BY <1>4, <2>1, RemoveType
<1>6. CASE UNCHANGED <<fut, payload, msghdr, answered>>
  BY <1>1, <1>2, <1>5, <1>6 DEF TypeOK, RegistryTypeOK
<1>7. CASE ~UNCHANGED <<fut, payload, msghdr, answered>>
  <2>1. PICK v \in {"result", "exception"} : f # NoFuture /\ Settle(f, c, v)
    BY <1>7 DEF on_uring_ready, graceful_shutdown_cqe, Outcome
  <2>2. f \in Future
    BY <1>4, <2>1 DEF Slot
  <2> HIDE DEF c, f
  <2>3. fut' \in [Future -> FutureState]
    BY <2>1, <2>2 DEF Settle, Resolved, TypeOK, FutureState
  <2>4. answered' \in [Future -> SUBSET (Future \X {"op", "timeout", "stale"})]
    BY <1>3, <2>1, <2>2 DEF Settle, TypeOK
  <2>5. payload' \in [Future \cup {ContextPayload} -> {"none", "live", "freed", "corrupt"}]
    BY <2>1, FreeType DEF Settle
  <2>6. msghdr' \in [Future -> {"none", "live", "freed"}]
    BY <2>1, <2>2 DEF Settle, TypeOK
  <2> QED
    BY <1>1, <1>2, <1>5, <2>3, <2>4, <2>5, <2>6 DEF TypeOK, RegistryTypeOK
<1> QED
  BY <1>6, <1>7

\* Destroying the registry.
LEMMA DestroyTypeOK == ASSUME TypeOK, registry_destroy PROVE TypeOK'
<1>1. UNCHANGED <<sqe_data, sq_tail, sq, kernel, cq, op, msghdr, answered>> /\ stage' = "destroying"
  BY DEF registry_destroy, ringVars
<1>2. registry' \in RequestRegistry
  <2>1. PICK s \in [Index -> Slot] : s = [i \in Index |-> NoFuture]
    BY DEF Slot
  <2>2. registry' = [registry EXCEPT !.slots = s, !.top = -1]
    BY <2>1 DEF registry_destroy
  <2>3. -1 \in -1 .. Size - 1 /\ registry \in RequestRegistry
    BY SizeAssumption DEF TypeOK, RegistryTypeOK
  <2> QED
    BY <2>2, <2>3 DEF RequestRegistry
<1>3. fut' \in [Future -> FutureState]
  BY DEF registry_destroy, TypeOK, FutureState
<1>4. payload' \in [Future \cup {ContextPayload} -> {"none", "live", "freed", "corrupt"}]
  <2> DEFINE own == (UNION {PayloadOf(f) : f \in Registered}) \ {ContextPayload}
             sharing == {f \in Registered : ContextPayload \in PayloadOf(f)}
             once == free_buffer_payload(payload, own, TRUE)
  <2>1. once \in [Future \cup {ContextPayload} -> {"none", "live", "freed", "corrupt"}]
    BY FreeType
  <2>2. \/ payload' = once \/ payload' = [once EXCEPT ![ContextPayload] = Freed(once[ContextPayload])]
        \/ payload' = [once EXCEPT ![ContextPayload] = "corrupt"]
    <3>1. payload' = CASE Cardinality(sharing) = 0 -> once
                       [] Cardinality(sharing) = 1 ->
                            [once EXCEPT ![ContextPayload] = Freed(once[ContextPayload])]
                       [] OTHER -> [once EXCEPT ![ContextPayload] = "corrupt"]
      BY Zenon DEF registry_destroy
    <3> HIDE DEF once, sharing
    <3> QED
      BY <3>1
  <2> HIDE DEF once
  <2> QED
    BY <2>1, <2>2 DEF Freed
<1> QED
  BY <1>1, <1>2, <1>3, <1>4 DEF TypeOK, RegistryTypeOK

\* Every step keeps the types.
LEMMA StepTypeOK == TypeOK /\ [Next]_vars => TypeOK'
<1> SUFFICES ASSUME TypeOK, [Next]_vars PROVE TypeOK'
  OBVIOUS
<1>1. ASSUME NEW f \in Future, NEW o \in Ops, NEW to \in Timeouts, Call(f, o, to) PROVE TypeOK'
  BY <1>1, CallTypeOK
<1>2. ASSUME NEW f \in Future, Cancel(f) PROVE TypeOK'
  BY <1>2 DEF Cancel, ringVars, TypeOK, RegistryTypeOK, FutureState
<1>3. CASE run_once_submit
  BY <1>3 DEF run_once_submit, TypeOK, RegistryTypeOK
<1>4. ASSUME NEW k \in kernel, NEW more \in BOOLEAN, NEW res \in {"ok", "error", "etime"},
             KernelPost(k, more, res)
      PROVE  TypeOK'
  <2>1. k \in SQE
    BY DEF TypeOK
  <2>2. [k EXCEPT !.posted = k.posted + 1] \in SQE
    BY <2>1 DEF SQE
  <2>3. kernel' \subseteq SQE
    BY <1>4, <2>2 DEF KernelPost, TypeOK
  <2>4. cq' \in Seq(CQE)
    <3>1. [user_data |-> k.user_data, req |-> k.req, kind |-> k.kind, more |-> more, res |-> res] \in CQE
      BY <2>1 DEF SQE, CQE
    <3> QED
      BY <1>4, <3>1 DEF KernelPost, TypeOK
  <2> QED
    BY <1>4, <2>3, <2>4 DEF KernelPost, TypeOK, RegistryTypeOK
<1>5. CASE on_uring_ready \/ graceful_shutdown_cqe
  BY <1>5, TakesCqeTypeOK
<1>6. CASE UringioLoop_close
  BY <1>6 DEF UringioLoop_close, ringVars, TypeOK, RegistryTypeOK
<1>7. CASE registry_destroy
  BY <1>7, DestroyTypeOK
<1>8. CASE ring_destroy
  <2>1. sq' \subseteq SQE /\ kernel' \subseteq SQE /\ cq' \in Seq(CQE)
    <3>1. sq \subseteq SQE /\ kernel \subseteq SQE /\ cq \in Seq(CQE) /\ << >> \in Seq(CQE)
      BY DEF TypeOK
    <3> QED
      BY <1>8, <3>1 DEF ring_destroy, RingExits, RingStays
  <2> QED
    BY <1>8, <2>1 DEF ring_destroy, TypeOK, RegistryTypeOK
<1>9. CASE on_uring_ready_segv
  BY <1>9 DEF on_uring_ready_segv, ringVars, TypeOK, RegistryTypeOK
<1>10. CASE UNCHANGED vars
  BY <1>10 DEF vars, TypeOK, RegistryTypeOK
<1> QED
  BY <1>1, <1>2, <1>3, <1>4, <1>5, <1>6, <1>7, <1>8, <1>9, <1>10 DEF Next, Shutdown

\* The loop starts in the type invariant.
LEMMA InitTypeOK == Init => TypeOK
<1> SUFFICES ASSUME Init PROVE TypeOK
  OBVIOUS
<1> USE DEF Init, RegistryInit
<1>1. RegistryTypeOK
  BY NewWellFormed DEF RegistryTypeOK
<1>2. /\ sqe_data \in [0 .. SQEntries - 1 -> UserData] /\ sq_tail \in 0 .. SQEntries - 1
  BY RingAssumption, SizeAssumption DEF UserData, SIGNALS_DATA, WAKEUP_FD_TAG
<1>3. sq \subseteq SQE /\ kernel \subseteq SQE /\ cq \in Seq(CQE)
  OBVIOUS
<1> QED
  BY <1>1, <1>2, <1>3 DEF TypeOK, FutureState

\* Everything keeps its type for every set of operations, with failed submits,
\* stray timeouts and several CQEs per request: every user_data that comes back
\* is an index of the table or one of the two tags, even one that an SQE kept
\* from an earlier use of its place in the ring.
THEOREM RequestsTypeOK == Spec => []TypeOK
BY InitTypeOK, StepTypeOK, PTL DEF Spec
-----------------------------------------------------------------------------
(* The registry of an open loop *)

\* The inductive invariant of an open loop: nothing about the ring is needed,
\* the reader's check of the slot's future protects the registry.
OpenInv == stage = "open" => RegistryTypeOK /\ StackPartition /\ NeverAborts

\* It holds at the start and after every step of an open loop.
LEMMA OpenInvInductive == (Init => OpenInv) /\ (OpenInv /\ [Next]_vars => OpenInv')
<1> USE DEF RegistryTypeOK, StackPartition, NeverAborts
<1>1. Init => OpenInv
  BY NewWellFormed DEF Init, RegistryInit, OpenInv
<1>2. OpenInv /\ [Next]_vars => OpenInv'
  <2> SUFFICES ASSUME OpenInv, [Next]_vars, stage' = "open" PROVE OpenInv'
    BY DEF OpenInv
  <2>1. ASSUME NEW f \in Future, NEW o \in Ops, NEW to \in Timeouts, Call(f, o, to)
        PROVE  OpenInv'
    <3>0. stage = "open" /\ RegistryTypeOK /\ StackPartition /\ NeverAborts
      BY <2>1 DEF OpenInv, Call, CallRegistryFull, CallNoSqe, CallLeavesSqe,
                  CallSubmitFails, CallSubmitted, Calls
    <3>1. CASE CallRegistryFull(f, o, to)
      BY <3>0, <3>1 DEF OpenInv, CallRegistryFull
    <3>2. CASE CallSubmitted(f, o, to)
      <4>1. registry' = registry_add(registry, f)
        BY <3>2 DEF CallSubmitted
      <4> QED
        BY <3>0, <4>1, AddWellFormed DEF OpenInv
    <3>3. CASE Unregister(f) /\ ~IsFull(registry)
      BY <3>0, <3>3, UnregisterWellFormed DEF OpenInv
    <3> QED
      BY <2>1, <3>1, <3>2, <3>3
         DEF Call, CallNoSqe, CallLeavesSqe, CallSubmitFails, Prepared
  <2>2. CASE on_uring_ready
    <3> DEFINE c == Head(cq)
               g == registry_get(registry, c.user_data)
    <3>0. stage = "open" /\ RegistryTypeOK /\ StackPartition /\ NeverAborts
      BY <2>2 DEF OpenInv, on_uring_ready
    <3>1. CASE g = NoFuture
      BY <2>2, <3>0, <3>1 DEF OpenInv, on_uring_ready
    <3>2. CASE g # NoFuture
      <4>1. registry' = registry_remove(registry, c.user_data)
        BY <2>2, <3>2 DEF on_uring_ready
      <4>2. c.user_data \in Index /\ registry.slots[c.user_data] # NoFuture
        BY <3>2 DEF registry_get
      <4> HIDE DEF c
      <4> QED
        BY <3>0, <4>1, <4>2, RemoveWellFormed DEF OpenInv
    <3> QED
      BY <3>1, <3>2
  <2>3. CASE UNCHANGED <<registry, stage>>
    BY <2>3 DEF OpenInv
  <2> QED
    <3>1. ASSUME NEW f \in Future, Cancel(f) PROVE UNCHANGED <<registry, stage>>
      BY <3>1 DEF Cancel
    <3>2. ASSUME NEW k \in kernel, NEW more \in BOOLEAN, NEW res, KernelPost(k, more, res)
          PROVE  UNCHANGED <<registry, stage>>
      BY <3>2 DEF KernelPost
    <3>3. CASE run_once_submit \/ UNCHANGED vars
      BY <2>3, <3>3 DEF run_once_submit, vars
    <3>4. ~Shutdown /\ ~on_uring_ready_segv
      BY DEF Shutdown, UringioLoop_close, graceful_shutdown_cqe, registry_destroy, ring_destroy,
             on_uring_ready_segv
    <3> QED
      BY <2>1, <2>2, <2>3, <3>1, <3>2, <3>3, <3>4 DEF Next
<1> QED
  BY <1>1, <1>2

\* While the loop is open the free stack and the slots partition the indices
\* and abort() is not reached, for every set of operations, with failed
\* submits, stray timeouts, several CQEs per request and reused ring entries.
THEOREM OpenPartitionHolds == Spec => []OpenPartition
<1>1. OpenInv => OpenPartition
  BY DEF OpenInv, OpenPartition, NeverAborts
<1> QED
  BY <1>1, OpenInvInductive, PTL DEF Spec

\* A slot is freed again by an SQE or a CQE that carries its index.
OnItsWay(i) == \/ \E k \in kernel : k.user_data = i
               \/ \E n \in 1 .. Len(cq) : cq[n].user_data = i

\* A call adds to what is in flight; if it registers, the SQE for its slot.
LEMMA CallNoLostSlot ==
  ASSUME TypeOK, OpenInv, NoLostSlot, NEW f \in Future, NEW o \in Ops, NEW to \in Timeouts,
         Call(f, o, to)
  PROVE  NoLostSlot'
<1>1. stage = "open" /\ cq' = cq /\ stage' = stage
  BY DEF Call, CallRegistryFull, CallNoSqe, CallLeavesSqe, CallSubmitFails, CallSubmitted, Calls
<1>2. registry \in RequestRegistry /\ WellFormed(registry) /\ ~registry.aborted
  BY <1>1 DEF OpenInv, RegistryTypeOK, StackPartition, NeverAborts
<1>3. kernel \subseteq kernel'
  BY DEF Call, CallRegistryFull, CallNoSqe, CallLeavesSqe, CallSubmitFails, CallSubmitted, ringVars
<1>4. \A i \in Index : OnItsWay(i) => OnItsWay(i)'
  BY <1>1, <1>3 DEF OnItsWay
<1>5. CASE registry'.slots = registry.slots
  BY <1>1, <1>4, <1>5 DEF NoLostSlot, OnItsWay
<1>6. CASE CallSubmitted(f, o, to)
  <2>0. PICK i : i = AddIndex(registry)
    OBVIOUS
  <2>1. ~IsFull(registry) /\ registry' = registry_add(registry, f) /\ OpSqe(f, i) \in kernel'
    BY <1>6, <2>0 DEF CallSubmitted, Prepared, NewSqes
  <2>2. registry'.slots = [registry.slots EXCEPT ![i] = f] /\ registry.slots \in [Index -> Slot]
    BY <1>2, <2>0, <2>1, AddSlots, RegistryFields
  <2>3. OpSqe(f, i).user_data = i
    BY DEF OpSqe
  <2>4. OnItsWay(i)'
    BY <2>1, <2>3 DEF OnItsWay
  <2>5. \A j \in Index : j # i => registry'.slots[j] = registry.slots[j]
    BY <2>2
  <2> QED
    BY <1>1, <1>4, <2>4, <2>5 DEF NoLostSlot, OnItsWay
<1> QED
  BY <1>2, <1>5, <1>6, UnregisterWellFormed
  DEF Call, CallRegistryFull, CallNoSqe, CallLeavesSqe, CallSubmitFails, Prepared

\* The reader takes a CQE and frees the slot it is for: no other slot was
\* waiting for it.
LEMMA ReadyNoLostSlot == ASSUME TypeOK, OpenInv, NoLostSlot, on_uring_ready PROVE NoLostSlot'
<1>1. PICK c : c = Head(cq)
  OBVIOUS
<1>2. stage = "open" /\ cq # << >> /\ cq' = Tail(cq) /\ UNCHANGED <<kernel, stage>>
  BY DEF on_uring_ready, ringVars
<1>3. registry \in RequestRegistry /\ WellFormed(registry) /\ registry.slots \in [Index -> Slot]
  BY <1>2, RegistryFields DEF OpenInv, RegistryTypeOK, StackPartition
<1>4. \A n \in 1 .. Len(cq) :
        (n = 1 /\ cq[n] = c) \/ (n - 1 \in 1 .. Len(cq') /\ cq'[n - 1] = cq[n])
  BY <1>1, <1>2 DEF TypeOK
<1>5. \A i \in Index : OnItsWay(i) /\ i # c.user_data => OnItsWay(i)'
  BY <1>2, <1>4 DEF OnItsWay
<1>6. \A i \in Index : registry'.slots[i] # NoFuture =>
        i # c.user_data /\ registry'.slots[i] = registry.slots[i]
  <2>1. CASE registry_get(registry, c.user_data) = NoFuture
    BY <1>1, <2>1 DEF on_uring_ready, registry_get
  <2>2. CASE registry_get(registry, c.user_data) # NoFuture
    <3>1. registry' = registry_remove(registry, c.user_data)
      BY <1>1, <2>2 DEF on_uring_ready
    <3>2. c.user_data \in Index /\ registry.slots[c.user_data] # NoFuture
      BY <2>2 DEF registry_get
    <3>3. registry'.slots = [registry.slots EXCEPT ![c.user_data] = NoFuture]
      BY <1>3, <3>1, <3>2, RemoveWellFormed
    <3> QED
      BY <1>3, <3>3
  <2> QED
    BY <2>1, <2>2
<1> QED
  BY <1>2, <1>5, <1>6 DEF NoLostSlot, OnItsWay

\* The kernel posts a CQE with the user_data of its SQE.
LEMMA PostNoLostSlot ==
  ASSUME TypeOK, NoLostSlot, NEW k \in kernel, NEW more, NEW res, KernelPost(k, more, res)
  PROVE  NoLostSlot'
<1>1. PICK c : /\ c = [user_data |-> k.user_data, req |-> k.req, kind |-> k.kind,
                       more |-> more, res |-> res]
               /\ cq' = Append(cq, c)
  BY DEF KernelPost
<1>2. c.user_data = k.user_data
  BY <1>1
<1>3. /\ Len(cq') = Len(cq) + 1 /\ Len(cq) \in Nat /\ cq'[Len(cq) + 1] = c
      /\ \A n \in 1 .. Len(cq) : cq'[n] = cq[n]
  BY <1>1 DEF TypeOK
<1>4. kernel \ {k} \subseteq kernel' /\ UNCHANGED <<registry, stage>>
  BY DEF KernelPost
<1>5. \A i \in Index : OnItsWay(i) => OnItsWay(i)'
  <2> SUFFICES ASSUME NEW i \in Index, OnItsWay(i) PROVE OnItsWay(i)'
    OBVIOUS
  <2>1. CASE k.user_data = i
    <3>1. Len(cq) + 1 \in 1 .. Len(cq') /\ cq'[Len(cq) + 1].user_data = i
      BY <1>2, <1>3, <2>1
    <3> QED
      BY <3>1 DEF OnItsWay
  <2>2. CASE k.user_data # i
    BY <1>3, <1>4, <2>2 DEF OnItsWay
  <2> QED
    BY <2>1, <2>2
<1> QED
  BY <1>4, <1>5 DEF NoLostSlot, OnItsWay

\* While the loop is open every occupied slot has a CQE on its way that frees it,
\* for every set of operations and whatever fails: the registry never fills up
\* with slots that nothing will free.
THEOREM NoSlotIsLost == Spec => []NoLostSlot
<1>1. Init => NoLostSlot
  BY DEF Init, RegistryInit, registry_new, NoLostSlot
<1>2. TypeOK /\ OpenInv /\ NoLostSlot /\ [Next]_vars => NoLostSlot'
  <2> SUFFICES ASSUME TypeOK, OpenInv, NoLostSlot, [Next]_vars PROVE NoLostSlot'
    OBVIOUS
  <2>1. ASSUME NEW f \in Future, NEW o \in Ops, NEW to \in Timeouts, Call(f, o, to)
        PROVE  NoLostSlot'
    BY <2>1, CallNoLostSlot
  <2>2. CASE (\E f \in Future : Cancel(f)) \/ run_once_submit \/ UNCHANGED vars
    BY <2>2 DEF Cancel, run_once_submit, vars, ringVars, NoLostSlot
  <2>3. ASSUME NEW k \in kernel, NEW more \in BOOLEAN, NEW res \in {"ok", "error", "etime"},
               KernelPost(k, more, res)
        PROVE  NoLostSlot'
    BY <2>3, PostNoLostSlot
  <2>4. CASE on_uring_ready
    BY <2>4, ReadyNoLostSlot
  <2>5. CASE Shutdown \/ on_uring_ready_segv
    <3>1. stage' # "open"
      BY <2>5 DEF Shutdown, UringioLoop_close, graceful_shutdown_cqe, registry_destroy, ring_destroy,
                  on_uring_ready_segv
    <3> QED
      BY <3>1 DEF NoLostSlot
  <2> QED
    BY <2>1, <2>2, <2>3, <2>4, <2>5 DEF Next
<1> QED
  BY <1>1, <1>2, InitTypeOK, StepTypeOK, OpenInvInductive, PTL DEF Spec
-----------------------------------------------------------------------------
(* Requests that complete once *)

\* A program without timeouts, multishot and zero copy, on a ring whose submits
\* succeed, in any buffer mode: an operation gives the kernel one buffer, which is
\* its own or its context's, or none.
OneShot ==
  /\ Timeouts = {"none"} /\ ~SubmitMayFail
  /\ \A o \in Ops : /\ o.shots = "one" /\ o.prepares
                    /\ o.payload \in {"none", "own", "context", "unregistered"}
                    /\ o.buffer = "payload" => o.payload # "none"

\* One whose requests moreover share no payload and put the one they make in
\* their slot.
OwnPayloads == \A o \in Ops : o.payload \in {"none", "own"}

\* One that gives the kernel no header to write but the one in the slot.
SlotHeaders == \A o \in Ops : o.header = "none" \/ (o.header = "slot" /\ o.msghdr)

\* What the proofs below use of the type invariant.
Types ==
  /\ registry \in RequestRegistry
  /\ kernel \subseteq SQE
  /\ cq \in Seq(CQE)
  /\ fut \in [Future -> FutureState]
  /\ op \in [Future -> Ops \cup {NoOp}]
  /\ payload \in [Future \cup {ContextPayload} -> {"none", "live", "freed", "corrupt"}]
  /\ msghdr \in [Future -> {"none", "live", "freed"}]
  /\ answered \in [Future -> SUBSET (Future \X {"op", "timeout", "stale"})]

RegistryOK == NeverAborts /\ (Alive => StackPartition)

\* A registered request was submitted and has not been answered, and the payload
\* and the header it made are allocated.
SlotsWaiting == Alive => \A i \in Index : registry.slots[i] # NoFuture =>
  /\ fut[registry.slots[i]] \in {"pending", "cancelled"}
  /\ op[registry.slots[i]].payload \in {"own", "unregistered"} => payload[registry.slots[i]] = "live"
  /\ op[registry.slots[i]].msghdr => msghdr[registry.slots[i]] = "live"

\* The payload of the context stays until the registry is destroyed.
ContextLive == Alive => payload[ContextPayload] = "live"

\* No future is in two slots.
OneSlot == \A i, j \in Index :
  registry.slots[i] = registry.slots[j] /\ registry.slots[i] # NoFuture => i = j

\* Only a request with a payload of its own has one allocated.
LiveIsOwn == \A f \in Future : payload[f] = "live" => op[f].payload = "own"

\* The inductive invariant of a one-shot program.
IInv == /\ sq = {} /\ RegistryOK
        /\ InFlightOwned /\ SlotsWaiting /\ OneSlot /\ ContextLive /\ AnsweredByOwn
        /\ OwnPayloads => PayloadAccounting /\ LiveIsOwn

\* The loop starts in the invariant.
LEMMA InitIInv == Init => IInv
<1> SUFFICES ASSUME Init PROVE IInv
  OBVIOUS
<1> USE DEF Init, RegistryInit
<1>1. registry \in RequestRegistry /\ StackPartition /\ NeverAborts
  BY NewWellFormed DEF StackPartition, NeverAborts
<1>3. InFlightOwned
  BY DEF InFlightOwned
<1>4. \A i \in Index : registry.slots[i] = NoFuture
  BY DEF registry_new
<1>5. SlotsWaiting /\ OneSlot
  BY <1>4 DEF SlotsWaiting, OneSlot
<1>6. AnsweredByOwn /\ PayloadAccounting /\ LiveIsOwn /\ ContextLive
  BY PayloadAssumption DEF AnsweredByOwn, PayloadAccounting, LiveIsOwn, ContextLive
<1> QED
  BY <1>1, <1>3, <1>5, <1>6 DEF IInv, RegistryOK

\* In a one-shot program a call finds its SQE and needs one only.
LEMMA RingHasRoom ==
  ASSUME OneShot, sq = {}, NEW to \in Timeouts
  PROVE  FreeSqes = SQEntries /\ FreeSqes > 2 /\ ~TakesTimeout(to) /\ to = "none"
BY FS_EmptySet, RingAssumption DEF OneShot, FreeSqes, TakesTimeout

\* Everything in flight belongs to a future.
LEMMA EntryTypes ==
  ASSUME Types
  PROVE  /\ \A k \in kernel : k.req \in Future /\ k.user_data \in UserData
         /\ \A n \in 1 .. Len(cq) : cq[n] \in CQE /\ cq[n].req \in Future
<1>1. \A k \in kernel : k.req \in Future /\ k.user_data \in UserData
  BY DEF Types, SQE
<1>2. \A n \in 1 .. Len(cq) : cq[n] \in CQE
  BY DEF Types
<1> QED
  BY <1>1, <1>2 DEF CQE

\* A submitted call takes a free index that nothing in flight carries.
LEMMA SubmittedIInv ==
  ASSUME OneShot, Types, IInv, NEW f \in Future, NEW o \in Ops, NEW to \in Timeouts,
         CallSubmitted(f, o, to)
  PROVE  IInv'
<1> DEFINE i == AddIndex(registry)
<1>0. /\ stage = "open" /\ stage' = "open" /\ fut[f] = "new" /\ ~IsFull(registry) /\ Alive /\ Alive'
      /\ cq' = cq /\ answered' = answered
      /\ op' = [op EXCEPT ![f] = o] /\ fut' = [fut EXCEPT ![f] = "pending"]
      /\ sq' = {}
      /\ registry' = registry_add(registry, f)
  BY DEF CallSubmitted, Calls, Prepared, Alive
<1>1. o.payload \in {"none", "own", "context", "unregistered"}
  BY DEF OneShot
<1>2. payload' = IF o.payload \in {"own", "unregistered"} THEN [payload EXCEPT ![f] = "live"] ELSE payload
  BY DEF CallSubmitted
<1>M. msghdr' = IF o.msghdr THEN [msghdr EXCEPT ![f] = "live"] ELSE msghdr
  BY DEF CallSubmitted
<1>3. PICK e : e = OpSqe(f, i) /\ kernel' = kernel \cup {e}
  BY RingHasRoom DEF CallSubmitted, NewSqes, IInv
<1>T. WellFormed(registry) /\ NeverAborts
  BY <1>0 DEF IInv, RegistryOK, StackPartition
<1>4. i \in Index /\ registry.slots[i] = NoFuture
  BY <1>0, <1>T, AddWellFormed DEF Types
<1>5. registry' \in RequestRegistry /\ WellFormed(registry') /\ NeverAborts'
  BY <1>0, <1>T, AddWellFormed DEF Types, NeverAborts
<1>6. registry.slots \in [Index -> Slot] /\ registry'.slots = [registry.slots EXCEPT ![i] = f]
  BY <1>0, <1>T, AddSlots, RegistryFields DEF Types
<1>7. \A j \in Index : registry.slots[j] # f
  BY <1>0, FutureAssumption DEF IInv, SlotsWaiting
<1>8. e.user_data = i /\ e.req = f /\ e.kind = "op" /\ e \in SQE
  BY <1>3, <1>4, SizeAssumption DEF OpSqe, SQE, UserData, Index
<1> HIDE DEF i
<1>10. \A x : x.req \in Future /\ Owned(x) => Owned(x)' /\ x.req # f
  BY <1>4, <1>6, <1>7, FutureAssumption DEF Owned
<1>11. Owned(e)'
  BY <1>4, <1>6, <1>8 DEF Owned
<1>12. InFlightOwned'
  <2>1. InFlightOwned
    BY DEF IInv
  <2>2. (\A k \in kernel : k.req \in Future) /\ (\A n \in 1 .. Len(cq) : cq[n].req \in Future)
    BY <1>T, EntryTypes
  <2> QED
    BY <1>0, <1>3, <1>8, <1>10, <1>11, <2>1, <2>2 DEF InFlightOwned
<1>13. SlotsWaiting'
  <2> SUFFICES ASSUME NEW j \in Index, registry'.slots[j] # NoFuture
               PROVE  /\ fut'[registry'.slots[j]] \in {"pending", "cancelled"}
                      /\ op'[registry'.slots[j]].payload \in {"own", "unregistered"} =>
                           payload'[registry'.slots[j]] = "live"
                      /\ op'[registry'.slots[j]].msghdr => msghdr'[registry'.slots[j]] = "live"
    BY DEF SlotsWaiting
  <2>1. CASE j = i
    BY <1>0, <1>2, <1>M, <1>4, <1>6, <1>T, <2>1 DEF Types
  <2>2. CASE j # i
    <3>1. registry'.slots[j] = registry.slots[j] /\ registry.slots[j] \in Future
      BY <1>6, <2>2 DEF Slot
    <3>2. registry.slots[j] # f
      BY <1>7
    <3>3. /\ fut[registry.slots[j]] \in {"pending", "cancelled"}
          /\ op[registry.slots[j]].payload \in {"own", "unregistered"} =>
               payload[registry.slots[j]] = "live"
          /\ op[registry.slots[j]].msghdr => msghdr[registry.slots[j]] = "live"
      BY <1>0, <3>1 DEF IInv, SlotsWaiting
    <3> QED
      BY <1>0, <1>2, <1>M, <1>T, <3>1, <3>2, <3>3 DEF Types
  <2> QED
    BY <2>1, <2>2
<1>14. ASSUME OwnPayloads PROVE PayloadAccounting' /\ LiveIsOwn'
  <2>1. Registered' = Registered \cup {f}
    BY <1>4, <1>6, FutureAssumption DEF Registered
  <2>2. o.payload \in {"none", "own"}
    BY <1>14 DEF OwnPayloads
  <2>3. payload[f] # "live"
    BY <1>7, <1>14 DEF IInv, PayloadAccounting, Registered
  <2>4. PayloadAccounting'
    BY <1>2, <1>14, <2>1 DEF PayloadAccounting, IInv, Types
  <2>5. LiveIsOwn'
    BY <1>0, <1>2, <1>14, <2>2, <2>3 DEF IInv, LiveIsOwn, Types
  <2> QED
    BY <2>4, <2>5
<1>15. AnsweredByOwn' /\ ContextLive'
  BY <1>0, <1>2, PayloadAssumption DEF IInv, AnsweredByOwn, ContextLive, Types
<1>16. OneSlot'
  BY <1>4, <1>6, <1>7 DEF IInv, OneSlot
<1> QED
  BY <1>0, <1>5, <1>12, <1>13, <1>14, <1>15, <1>16 DEF IInv, RegistryOK, StackPartition

\* The kernel moves a request from its hands to the completion queue.
LEMMA PostIInv ==
  ASSUME OneShot, Types, IInv, NEW k \in kernel, NEW more \in BOOLEAN,
         NEW res \in {"ok", "error", "etime"}, KernelPost(k, more, res)
  PROVE  IInv'
<1>1. PICK c : /\ c = [user_data |-> k.user_data, req |-> k.req, kind |-> k.kind,
                       more |-> more, res |-> res]
               /\ cq' = Append(cq, c)
  BY DEF KernelPost
<1>2. k \in SQE /\ c \in CQE /\ c.user_data = k.user_data /\ c.req = k.req /\ c.kind = k.kind
  BY <1>1 DEF IInv, Types, SQE, CQE
<1>3. CASE ~Alive
  BY <1>3 DEF KernelPost, IInv, RegistryOK, NeverAborts, InFlightOwned, SlotsWaiting, OneSlot,
              ContextLive, AnsweredByOwn, PayloadAccounting, LiveIsOwn, Registered, Alive
<1>4. CASE Alive
  <2>1. Owned(k) /\ k.req \in Future
    BY <1>2, <1>4 DEF IInv, InFlightOwned, SQE
  <2>2. ~more
    <3>1. op[k.req] \in Ops \cup {NoOp}
      BY <2>1 DEF IInv, Types
    <3>2. op[k.req].shots = "one"
      BY <3>1 DEF OneShot, NoOp, Op, Sqe
    <3> QED
      BY <2>1, <3>2 DEF KernelPost, MayPostMore, Owned
  <2>3. kernel' = kernel \ {k}
    BY <2>2 DEF KernelPost
  <2>4. UNCHANGED <<registry, sq, fut, op, payload, msghdr, answered, stage>>
    BY DEF KernelPost
  <2>5. cq' \in Seq(CQE) /\ Len(cq') = Len(cq) + 1 /\ cq'[Len(cq) + 1] = c
        /\ \A n \in 1 .. Len(cq) : cq'[n] = cq[n]
    BY <1>1, <1>2 DEF IInv, Types
  <2>6. InFlightOwned'
    <3>1. InFlightOwned /\ Len(cq) \in Nat
      BY DEF IInv, Types
    <3>2. Owned(c)'
      BY <1>2, <2>1, <2>4 DEF Owned
    <3>3. \A x : Owned(x) => Owned(x)'
      BY <2>4 DEF Owned
    <3>4. \A n \in 1 .. Len(cq') : n \in 1 .. Len(cq) \/ n = Len(cq) + 1
      BY <2>5, <3>1
    <3>5. \A n \in 1 .. Len(cq) : cq[n].req # c.req
      BY <1>2, <1>4, <3>1 DEF InFlightOwned
    <3>6. (\A n \in 1 .. Len(cq) : Owned(cq[n]))'
      BY <1>4, <2>4, <2>5, <3>1, <3>2, <3>4 DEF InFlightOwned, Owned
    <3>7. \A m, n \in 1 .. Len(cq') : cq'[m].req = cq'[n].req => m = n
      BY <1>4, <2>5, <3>1, <3>4, <3>5 DEF InFlightOwned
    <3>8. \A l \in kernel' : Owned(l)' /\ l \in kernel /\ l.req # c.req
      BY <1>2, <1>4, <2>3, <3>1, <3>3 DEF InFlightOwned
    <3>9. \A l \in kernel', n \in 1 .. Len(cq') : l.req # cq'[n].req
      BY <1>4, <2>5, <3>1, <3>4, <3>8 DEF InFlightOwned
    <3> QED
      BY <1>4, <3>1, <3>6, <3>7, <3>8, <3>9 DEF InFlightOwned
  <2> QED
    BY <2>4, <2>6 DEF IInv, RegistryOK, NeverAborts, StackPartition, SlotsWaiting, OneSlot,
       ContextLive, AnsweredByOwn, PayloadAccounting, LiveIsOwn, Registered, Alive
<1> QED
  BY <1>3, <1>4

\* Taking a CQE off the queue and settling the future of its slot, as the
\* reader and the drain of a closing loop do.
LEMMA SettleIInv ==
  ASSUME Types, IInv, Alive, cq # << >>, NEW v \in {"result", "exception"}, NEW f,
         f = registry_get(registry, Head(cq).user_data),
         Settle(f, Head(cq), v),
         registry' = registry_remove(registry, Head(cq).user_data),
         cq' = Tail(cq), UNCHANGED <<kernel, sq, op, stage>>
  PROVE  IInv'
<1>1. PICK c : c = Head(cq)
  OBVIOUS
<1>2. /\ c = cq[1] /\ Len(cq) >= 1 /\ cq' \in Seq(CQE) /\ Len(cq') = Len(cq) - 1
      /\ \A n \in 1 .. Len(cq') : cq'[n] = cq[n + 1] /\ n + 1 \in 1 .. Len(cq)
      /\ Len(cq) \in Nat /\ 1 \in 1 .. Len(cq)
  BY <1>1 DEF IInv, Types
<1>3. InFlightOwned /\ WellFormed(registry) /\ NeverAborts
  BY DEF IInv, RegistryOK, StackPartition
<1>4. Owned(c) /\ c.req \in Future
  BY <1>2, <1>3, EntryTypes DEF InFlightOwned
<1>5. PICK i \in Index : i = c.user_data
  BY <1>4 DEF Owned
<1>6. f = c.req /\ registry.slots[i] = f /\ f \in Future /\ c.kind = "op"
  BY <1>1, <1>4, <1>5 DEF Owned, registry_get
<1>7. /\ registry' \in RequestRegistry /\ WellFormed(registry') /\ NeverAborts'
      /\ registry.slots \in [Index -> Slot] /\ registry'.slots = [registry.slots EXCEPT ![i] = NoFuture]
  <2>1. registry.slots[i] # NoFuture
    BY <1>6, FutureAssumption
  <2>2. registry' = registry_remove(registry, i)
    BY <1>1, <1>5
  <2> QED
    BY <1>3, <2>1, <2>2, RemoveWellFormed, RegistryFields DEF Types, NeverAborts
<1>8. /\ fut' = [fut EXCEPT ![f] = IF fut[f] = "pending" THEN v ELSE fut[f]]
      /\ answered' = [answered EXCEPT ![f] = answered[f] \cup {<<f, "op">>}]
  BY <1>1, <1>6 DEF Settle, Resolved
<1>9. PayloadOf(f) = IF op[f].payload = "own" THEN {f}
                     ELSE IF op[f].payload = "context" THEN {ContextPayload} ELSE {}
  BY DEF PayloadOf
<1>10. payload' = IF op[f].payload = "own" THEN [payload EXCEPT ![f] = Freed(payload[f])] ELSE payload
  BY <1>3, <1>6, <1>9, PayloadAssumption DEF Settle, free_buffer_payload, Types
<1>11. op[f].payload = "own" => payload[f] = "live"
  BY <1>6, FutureAssumption DEF IInv, SlotsWaiting
<1>12. payload' = IF op[f].payload = "own" THEN [payload EXCEPT ![f] = "freed"] ELSE payload
  BY <1>10, <1>11 DEF Freed
<1>13. msghdr' = IF op[f].msghdr THEN [msghdr EXCEPT ![f] = "freed"] ELSE msghdr
  BY DEF Settle
<1>14. \A x : x.req # f /\ Owned(x) => Owned(x)'
  BY <1>6, <1>7 DEF Owned
<1>15. InFlightOwned'
  <2>1. \A n \in 1 .. Len(cq') : cq'[n].req # f
    BY <1>2, <1>3, <1>6 DEF InFlightOwned
  <2>2. \A k \in kernel : k.req # f
    BY <1>2, <1>3, <1>6 DEF InFlightOwned
  <2>3. (\A n \in 1 .. Len(cq) : Owned(cq[n]))'
    BY <1>2, <1>3, <1>6, <1>7, <2>1 DEF InFlightOwned, Owned
  <2>4. \A m, n \in 1 .. Len(cq') : cq'[m].req = cq'[n].req => m = n
    BY <1>2, <1>3 DEF InFlightOwned
  <2>5. \A k \in kernel, n \in 1 .. Len(cq') : k.req # cq'[n].req
    BY <1>2, <1>3 DEF InFlightOwned
  <2> QED
    BY <1>3, <1>14, <2>2, <2>3, <2>4, <2>5 DEF InFlightOwned
<1>16. SlotsWaiting'
  <2> SUFFICES ASSUME NEW j \in Index, registry'.slots[j] # NoFuture
               PROVE  /\ fut'[registry'.slots[j]] \in {"pending", "cancelled"}
                      /\ op[registry'.slots[j]].payload \in {"own", "unregistered"} =>
                           payload'[registry'.slots[j]] = "live"
                      /\ op[registry'.slots[j]].msghdr => msghdr'[registry'.slots[j]] = "live"
    BY DEF SlotsWaiting
  <2>1. j # i /\ registry'.slots[j] = registry.slots[j] /\ registry.slots[j] \in Future
    BY <1>7 DEF Slot
  <2>2. registry.slots[j] # f
    BY <1>6, <2>1 DEF IInv, OneSlot
  <2>3. /\ fut[registry.slots[j]] \in {"pending", "cancelled"}
        /\ op[registry.slots[j]].payload \in {"own", "unregistered"} =>
             payload[registry.slots[j]] = "live"
        /\ op[registry.slots[j]].msghdr => msghdr[registry.slots[j]] = "live"
    BY <2>1, FutureAssumption DEF IInv, SlotsWaiting
  <2> QED
    BY <1>3, <1>8, <1>12, <1>13, <2>1, <2>2, <2>3 DEF Types
<1>17. ASSUME OwnPayloads PROVE PayloadAccounting' /\ LiveIsOwn'
  <2>0. PayloadAccounting /\ LiveIsOwn
    BY <1>17 DEF IInv
  <2>1. ASSUME NEW g \in Future, payload'[g] = "live" PROVE g \in Registered'
    <3>1. g # f /\ payload[g] = "live"
      BY <1>6, <1>12, <2>0, <2>1 DEF LiveIsOwn, Types
    <3>2. PICK j \in Index : registry.slots[j] = g
      BY <2>0, <3>1 DEF PayloadAccounting, Registered
    <3>3. registry'.slots[j] = g
      BY <1>6, <1>7, <3>1, <3>2
    <3> QED
      BY <3>3, FutureAssumption DEF Registered
  <2>2. \A p \in DOMAIN payload' : payload'[p] # "corrupt"
    BY <1>12, <2>0 DEF PayloadAccounting, Types
  <2>3. LiveIsOwn'
    BY <1>12, <2>0 DEF LiveIsOwn, Types
  <2> QED
    BY <2>1, <2>2, <2>3 DEF PayloadAccounting
<1>18. AnsweredByOwn' /\ ContextLive'
  BY <1>6, <1>8, <1>12, PayloadAssumption DEF IInv, AnsweredByOwn, ContextLive, Types, Alive
<1>19. OneSlot'
  BY <1>7 DEF IInv, OneSlot
<1> QED
  BY <1>7, <1>15, <1>16, <1>17, <1>18, <1>19 DEF IInv, RegistryOK, StackPartition

\* A call that finds the registry full frees the payload it made and nothing else.
LEMMA FullIInv ==
  ASSUME OneShot, Types, IInv, NEW f \in Future, NEW o \in Ops, NEW to \in Timeouts,
         CallRegistryFull(f, o, to)
  PROVE  IInv'
<1>0. /\ stage = "open" /\ fut[f] = "new" /\ Alive
      /\ UNCHANGED <<registry, kernel, sq, cq, answered, stage>>
      /\ op' = [op EXCEPT ![f] = o] /\ fut' = [fut EXCEPT ![f] = "raised"]
  BY DEF CallRegistryFull, Calls, Raises, ringVars, Alive, IInv
<1>1. payload' = IF o.payload \in {"own", "unregistered"} THEN [payload EXCEPT ![f] = "freed"] ELSE payload
  BY DEF CallRegistryFull, Raises
<1>M. \A g \in Future : g # f => msghdr'[g] = msghdr[g]
  BY DEF CallRegistryFull, Raises, Types
<1>2. \A j \in Index : registry.slots[j] # f
  BY <1>0, FutureAssumption DEF IInv, SlotsWaiting
<1>3. SlotsWaiting'
  <2>1. registry.slots \in [Index -> Slot]
    BY RegistryFields DEF Types
  <2> QED
    BY <1>0, <1>1, <1>2, <1>M, <2>1 DEF IInv, SlotsWaiting, Types, Slot, Alive
<1>4. ASSUME OwnPayloads PROVE PayloadAccounting' /\ LiveIsOwn'
  <2>1. payload[f] # "live"
    BY <1>2, <1>4 DEF IInv, PayloadAccounting, Registered
  <2> QED
    BY <1>0, <1>1, <1>4, <2>1 DEF IInv, PayloadAccounting, LiveIsOwn, Registered, Types
<1>5. ContextLive'
  BY <1>0, <1>1, PayloadAssumption DEF IInv, ContextLive, Alive, Types
<1>6. InFlightOwned' /\ RegistryOK' /\ OneSlot' /\ AnsweredByOwn'
  BY <1>0 DEF IInv, InFlightOwned, Owned, RegistryOK, StackPartition, NeverAborts, OneSlot,
              AnsweredByOwn, Alive
<1> QED
  BY <1>0, <1>3, <1>4, <1>5, <1>6 DEF IInv

\* Destroying the registry frees the payloads of the slots in use, each once.
LEMMA DestroyPayloads ==
  ASSUME OwnPayloads, Types, IInv, registry_destroy
  PROVE  PayloadAccounting' /\ LiveIsOwn'
<1>0. Alive /\ op' = op
  BY DEF registry_destroy, Alive
<1>2. Registered \subseteq Future
  <2>1. registry.slots \in [Index -> Slot]
    BY RegistryFields DEF Types
  <2> QED
    BY <2>1 DEF Registered, Slot
<1>3. \A f \in Future : op[f].payload \in {"none", "own"}
  BY DEF Types, OwnPayloads, NoOp, Op, NoPayload, Payload
<1>4. \A f \in Future : PayloadOf(f) = IF op[f].payload = "own" THEN {f} ELSE {}
  BY <1>3 DEF PayloadOf
<1> DEFINE own == (UNION {PayloadOf(f) : f \in Registered}) \ {ContextPayload}
           sharing == {f \in Registered : ContextPayload \in PayloadOf(f)}
<1>5. sharing = {} /\ Cardinality(sharing) = 0
  <2>1. sharing = {}
    BY <1>2, <1>4, PayloadAssumption
  <2> QED
    BY <2>1, FS_EmptySet
<1>6. payload' = free_buffer_payload(payload, own, TRUE)
  BY <1>5 DEF registry_destroy
<1>7. \A x : x \in own <=> x \in Registered /\ op[x].payload = "own"
  <2>1. ASSUME NEW x \in own PROVE x \in Registered /\ op[x].payload = "own"
    <3>1. PICK f \in Registered : x \in PayloadOf(f)
      OBVIOUS
    <3> QED
      BY <1>2, <1>4, <3>1
  <2>2. ASSUME NEW x \in Registered, op[x].payload = "own" PROVE x \in own
    <3>1. x \in PayloadOf(x) /\ x # ContextPayload
      BY <1>2, <1>4, <2>2, PayloadAssumption
    <3> QED
      BY <3>1, <2>2
  <2> QED
    BY <2>1, <2>2
<1>8. \A f \in own : payload[f] = "live"
  BY <1>0, <1>7 DEF IInv, SlotsWaiting, Registered
<1>9. payload' = [x \in Future \cup {ContextPayload} |-> IF x \in own THEN "freed" ELSE payload[x]]
  <2>1. DOMAIN payload = Future \cup {ContextPayload}
    BY DEF Types
  <2> HIDE DEF own
  <2> QED
    BY <1>6, <1>8, <2>1 DEF free_buffer_payload, Freed
<1>10. \A f \in Future : payload'[f] # "live"
  BY <1>7, <1>9 DEF IInv, PayloadAccounting, LiveIsOwn
<1>11. PayloadAccounting' /\ LiveIsOwn'
  <2>1. \A p \in DOMAIN payload' : payload'[p] # "corrupt"
    <3>1. \A p \in Future \cup {ContextPayload} : payload[p] # "corrupt"
      BY DEF IInv, PayloadAccounting, Types
    <3> HIDE DEF own
    <3> QED
      BY <1>9, <3>1
  <2> QED
    BY <1>10, <2>1 DEF PayloadAccounting, LiveIsOwn
<1> QED
  BY <1>11

\* Nothing is left in the registry.
LEMMA DestroyIInv ==
  ASSUME OneShot, Types, IInv, registry_destroy
  PROVE  IInv'
<1>0. Alive /\ ~Alive' /\ UNCHANGED <<kernel, sq, cq, op, answered>>
  BY DEF registry_destroy, IInv, Alive, ringVars
<1>1. registry' \in RequestRegistry /\ NeverAborts' /\ \A i \in Index : registry'.slots[i] = NoFuture
  <2>1. PICK s \in [Index -> Slot] : s = [i \in Index |-> NoFuture]
    BY DEF Slot
  <2>2. registry' = [registry EXCEPT !.slots = s, !.top = -1]
    BY <2>1 DEF registry_destroy
  <2>3. registry \in RequestRegistry /\ ~registry.aborted
    BY DEF Types, IInv, RegistryOK, NeverAborts
  <2>4. registry' \in RequestRegistry /\ registry'.slots = s /\ ~registry'.aborted
    <3>1. -1 \in -1 .. Size - 1
      BY SizeAssumption
    <3> QED
      BY <2>2, <2>3, <3>1 DEF RequestRegistry
  <2> QED
    BY <2>1, <2>4 DEF NeverAborts
<1> QED
  BY <1>0, <1>1, DestroyPayloads DEF IInv, RegistryOK, InFlightOwned, SlotsWaiting, OneSlot,
     ContextLive, AnsweredByOwn

\* Every step of a one-shot program keeps the invariant.
LEMMA StepIInv ==
  ASSUME OneShot, Types, IInv, [Next]_vars
  PROVE  IInv'
<1>1. ASSUME NEW f \in Future, NEW o \in Ops, NEW to \in Timeouts, Call(f, o, to)
      PROVE  IInv'
  <2>1. sq = {} /\ o.prepares /\ ~SubmitMayFail
    BY DEF IInv, OneShot
  <2>2. FreeSqes > 2 /\ FreeSqes # 0 /\ FreeSqes # 1 /\ to = "none"
    BY <2>1, RingHasRoom, RingAssumption
  <2>3. CallRegistryFull(f, o, to) \/ CallSubmitted(f, o, to)
    BY <1>1, <2>1, <2>2 DEF Call, CallNoSqe, CallLeavesSqe, CallSubmitFails
  <2> QED
    BY <2>3, FullIInv, SubmittedIInv
<1>2. ASSUME NEW f \in Future, Cancel(f) PROVE IInv'
  <2>1. /\ fut[f] = "pending" /\ fut' = [fut EXCEPT ![f] = "cancelled"]
        /\ UNCHANGED <<registry, kernel, sq, cq, op, payload, msghdr, answered, stage>>
    BY <1>2 DEF Cancel, ringVars
  <2>2. SlotsWaiting'
    BY <2>1 DEF IInv, SlotsWaiting, Types, Alive
  <2> QED
    BY <2>1, <2>2 DEF IInv, InFlightOwned, Owned, RegistryOK, StackPartition, NeverAborts, OneSlot,
       ContextLive, AnsweredByOwn, PayloadAccounting, LiveIsOwn, Registered, Alive
<1>3. ASSUME NEW k \in kernel, NEW more \in BOOLEAN, NEW res \in {"ok", "error", "etime"},
             KernelPost(k, more, res)
      PROVE  IInv'
  BY <1>3, PostIInv
<1>4. CASE on_uring_ready \/ graceful_shutdown_cqe
  <2> DEFINE c == Head(cq)
             f == registry_get(registry, c.user_data)
  <2>1. Alive /\ cq # << >> /\ cq' = Tail(cq) /\ UNCHANGED <<kernel, sq, op, stage>>
    BY <1>4 DEF on_uring_ready, graceful_shutdown_cqe, Alive, ringVars
  <2>2. f # NoFuture
    <3>1. 1 \in 1 .. Len(cq) /\ c = cq[1]
      BY <2>1 DEF Types
    <3>2. Owned(c) /\ c.req \in Future
      BY <2>1, <3>1, EntryTypes DEF IInv, InFlightOwned
    <3> QED
      BY <3>2, FutureAssumption DEF Owned, registry_get
  <2>3. \E v \in {"result", "exception"} :
          Settle(f, c, v) /\ registry' = registry_remove(registry, c.user_data)
    BY <1>4, <2>2 DEF on_uring_ready, graceful_shutdown_cqe, Outcome
  <2> QED
    BY <2>1, <2>3, SettleIInv
<1>5. CASE UringioLoop_close
  BY <1>5 DEF UringioLoop_close, IInv, ContextLive, InFlightOwned, Owned, RegistryOK, StackPartition,
     NeverAborts, OneSlot, AnsweredByOwn, PayloadAccounting, LiveIsOwn, Registered, Alive,
     SlotsWaiting, ringVars
<1>6. CASE registry_destroy
  BY <1>6, DestroyIInv
<1>7. CASE ring_destroy
  <2>1. /\ stage = "destroying" /\ stage' = "closed"
        /\ UNCHANGED <<registry, fut, op, payload, msghdr, answered>>
    BY <1>7 DEF ring_destroy
  <2>2. sq' = {}
    BY <1>7 DEF ring_destroy, RingExits, RingStays, IInv
  <2> QED
    BY <2>1, <2>2 DEF IInv, InFlightOwned, RegistryOK, NeverAborts, ContextLive,
       OneSlot, AnsweredByOwn, PayloadAccounting, LiveIsOwn, Registered, Alive, SlotsWaiting
<1>8. CASE UNCHANGED vars
  BY <1>8 DEF vars, IInv, ContextLive, InFlightOwned, Owned, RegistryOK, StackPartition, NeverAborts,
     OneSlot, AnsweredByOwn, PayloadAccounting, LiveIsOwn, Registered, Alive, SlotsWaiting
<1>9. ~run_once_submit
  BY DEF run_once_submit, IInv
<1>10. CASE on_uring_ready_segv
  <2>1. /\ stage' = "crashed" /\ sq' = sq
        /\ UNCHANGED <<registry, fut, op, payload, msghdr, answered>>
    BY <1>10 DEF on_uring_ready_segv, ringVars
  <2> QED
    BY <2>1 DEF IInv, InFlightOwned, RegistryOK, NeverAborts, ContextLive,
       OneSlot, AnsweredByOwn, PayloadAccounting, LiveIsOwn, Registered, Alive, SlotsWaiting
<1> QED
  BY <1>1, <1>2, <1>3, <1>4, <1>5, <1>6, <1>7, <1>8, <1>9, <1>10 DEF Next, Shutdown

\* What the slot of a request the kernel works on keeps alive.
LEMMA SlotKeepsMemory ==
  ASSUME Types, IInv, Alive, NEW k \in kernel
  PROVE  /\ op[k.req] \in Ops \cup {NoOp}
         /\ op[k.req].payload \in {"own", "unregistered"} => payload[k.req] = "live"
         /\ op[k.req].msghdr => msghdr[k.req] = "live"
<1>1. Owned(k) /\ k.req \in Future /\ op[k.req] \in Ops \cup {NoOp}
  BY EntryTypes DEF IInv, InFlightOwned, Types
<1> QED
  BY <1>1, FutureAssumption DEF IInv, SlotsWaiting, Owned

\* The buffers the kernel works on are allocated in every state of the invariant.
LEMMA IInvBufferLive == ASSUME OneShot, Types, IInv PROVE BufferLive
<1> SUFFICES ASSUME Alive, NEW k \in kernel, NEW p \in MemoryOf(k) PROVE payload[p] = "live"
  BY DEF BufferLive
<1>1. op[k.req].buffer = "payload"
  BY DEF MemoryOf
<1>2. op[k.req].payload \in {"own", "context", "unregistered"}
  BY <1>1, SlotKeepsMemory DEF OneShot, NoOp, Op, Sqe
<1>3. CASE op[k.req].payload = "context"
  BY <1>1, <1>3 DEF MemoryOf, IInv, ContextLive
<1>4. CASE op[k.req].payload # "context"
  BY <1>2, <1>4, SlotKeepsMemory DEF MemoryOf
<1> QED
  BY <1>3, <1>4

\* So are the headers, where they are kept in the slots.
LEMMA IInvMemoryLive == ASSUME OneShot, SlotHeaders, Types, IInv PROVE MemoryLive
<1> SUFFICES ASSUME Alive, NEW k \in kernel PROVE HeaderLive(k)
  BY IInvBufferLive DEF MemoryLive, MemoryOutlivesKernel, BufferLive
<1>1. op[k.req].header = "none" \/ (op[k.req].header = "slot" /\ op[k.req].msghdr)
  BY SlotKeepsMemory DEF SlotHeaders, NoOp, Op, Sqe
<1> QED
  BY <1>1, SlotKeepsMemory DEF HeaderLive

\* The invariant holds in every state of a one-shot program.
LEMMA OneShotInvariant == ASSUME OneShot PROVE Spec => [](Types /\ IInv)
<1>1. TypeOK => Types
  BY DEF TypeOK, RegistryTypeOK, Types
<1>2. TypeOK /\ IInv /\ [Next]_vars => IInv'
  BY <1>1, StepIInv
<1> QED
  BY <1>1, <1>2, InitTypeOK, StepTypeOK, InitIInv, PTL DEF Spec

\* In a one-shot program a future is resolved by its own request's CQE only, for
\* every size of the registry and the rings, any number of requests and
\* cancellations and a close at any time.
THEOREM FuturesAnsweredByOwn == ASSUME OneShot PROVE Spec => []AnsweredByOwn
<1>1. Types /\ IInv => AnsweredByOwn
  BY DEF IInv
<1> QED
  BY <1>1, OneShotInvariant, PTL

\* In a one-shot program whatever is in flight is registered under the index it
\* carries, until the registry is destroyed.
THEOREM InFlightIsOwned == ASSUME OneShot PROVE Spec => []InFlightOwned
<1>1. Types /\ IInv => InFlightOwned
  BY DEF IInv
<1> QED
  BY <1>1, OneShotInvariant, PTL

\* In a one-shot program, in every buffer mode, the buffers the kernel works on are
\* allocated until the registry is destroyed.
THEOREM BuffersStayLive == ASSUME OneShot PROVE Spec => []BufferLive
<1>1. Types /\ IInv => BufferLive
  BY IInvBufferLive
<1> QED
  BY <1>1, OneShotInvariant, PTL

\* In a one-shot program whose receives write the header of their slot, so is all
\* the memory the kernel works on.
THEOREM MemoryStaysLive == ASSUME OneShot, SlotHeaders PROVE Spec => []MemoryLive
<1>1. Types /\ IInv => MemoryLive
  BY IInvMemoryLive
<1> QED
  BY <1>1, OneShotInvariant, PTL

\* In a one-shot program abort() is not reached, not even by the drain of a
\* closing loop, which removes slots unchecked.
THEOREM ShutdownNeverAborts == ASSUME OneShot PROVE Spec => []NeverAborts
<1>1. Types /\ IInv => NeverAborts
  BY DEF IInv, RegistryOK
<1> QED
  BY <1>1, OneShotInvariant, PTL

\* In a one-shot program whose requests have payloads of their own, none leaks and
\* none is freed twice, whatever is cancelled and whenever the loop is closed.
THEOREM PayloadsAccounted == ASSUME OneShot, OwnPayloads PROVE Spec => []PayloadAccounting
<1>1. Types /\ IInv => PayloadAccounting
  BY DEF IInv
<1> QED
  BY <1>1, OneShotInvariant, PTL

\* Each operation registers a payload with the half its completion is copied from.
OwnHalves == \A o \in Ops : CopiesFrom(o) \in {"none", o.half}

\* The reader copies no result through a NULL pointer if every operation
\* registers the half it reads, whatever fails, is cancelled or strays: a stray
\* CQE too finds an operation and a payload that go together.
THEOREM ReaderStaysUp == ASSUME OwnHalves PROVE Spec => []ReaderSurvives
<1>1. Init => ReaderSurvives
  BY DEF Init, ReaderSurvives
<1>2. ASSUME TypeOK PROVE ~on_uring_ready_segv
  <2> SUFFICES ASSUME NEW f \in Future, NEW res PROVE ~CopiesNull(f, res)
    <3>1. registry.slots \in [Index -> Slot]
      BY <1>2, RegistryFields DEF TypeOK, RegistryTypeOK
    <3>2. \A i : registry_get(registry, i) # NoFuture => registry_get(registry, i) \in Future
      BY <3>1 DEF registry_get, Slot
    <3> QED
      BY <3>2 DEF on_uring_ready_segv
  <2>1. op[f] \in Ops \cup {NoOp}
    BY <1>2 DEF TypeOK
  <2>2. CopiesFrom(NoOp) = "none"
    BY DEF CopiesFrom, NoOp, Op
  <2> QED
    BY <2>1, <2>2 DEF OwnHalves, CopiesNull
<1>3. ASSUME TypeOK, ReaderSurvives, [Next]_vars PROVE ReaderSurvives'
  <2>1. ASSUME NEW f \in Future, NEW o \in Ops, NEW to \in Timeouts, Call(f, o, to)
        PROVE  stage' = stage
    BY <2>1 DEF Call, CallRegistryFull, CallNoSqe, CallLeavesSqe, CallSubmitFails, CallSubmitted, Calls
  <2>2. ASSUME NEW f \in Future, Cancel(f) PROVE stage' = stage
    BY <2>2 DEF Cancel
  <2>3. ASSUME NEW k \in kernel, NEW more \in BOOLEAN, NEW res, KernelPost(k, more, res)
        PROVE  stage' = stage
    BY <2>3 DEF KernelPost
  <2>4. CASE run_once_submit \/ on_uring_ready \/ UNCHANGED vars
    BY <1>3, <2>4 DEF run_once_submit, on_uring_ready, vars, ReaderSurvives
  <2>5. CASE Shutdown
    BY <2>5 DEF Shutdown, UringioLoop_close, graceful_shutdown_cqe, registry_destroy, ring_destroy,
                ReaderSurvives
  <2> QED
    BY <1>2, <1>3, <2>1, <2>2, <2>3, <2>4, <2>5 DEF Next, ReaderSurvives
<1> QED
  BY <1>1, <1>3, InitTypeOK, StepTypeOK, PTL DEF Spec

\* Every method of the API, in the four buffer modes, is one-shot when the context
\* asks for neither multishot nor zero copy.
LEMMA MethodsOneShot ==
  ASSUME NEW ctx \in Context, ctx.stream = "ONESHOT", ctx.transfer = "NORMAL_TRANSFER",
         NEW o \in AllOps(ctx)
  PROVE  /\ o.shots = "one" /\ o.prepares
         /\ o.payload \in {"none", "own", "context", "unregistered"}
         /\ o.buffer = "payload" => o.payload # "none"
<1> USE DEF Op, Sqe, Streams, Payload, NoPayload, create_buffer_payload, SelectsBuffers, PayloadMode, Context
<1>1. CASE o \in FileOps(ctx)
  BY <1>1 DEF FileOps, Uringio_open, UringioFile_read, UringioFile_readv, UringioFile_readv_raw,
    UringioFile_write, UringioFile_writev, UringioFile_writev_raw, UringioFile_fsync,
    UringioFile_fdatasync, UringioFile_splice, UringioFile_close, UringioFile_aexit,
    get_or_create_linear_buffer, get_or_create_vectored_buffer, create_buffer_payload_from_pybuffer,
    create_buffer_payload_from_data, read_dispatcher, readv_dispatcher, write_dispatcher, open_file,
    uringio_read, uringio_read_fixed, uringio_read_buffer_select, uringio_readv,
    uringio_readv_buffer_select, uringio_write, uringio_write_fixed, uringio_writev,
    uringio_close_file, uringio_fsync, uringio_fdatasync, uringio_splice
<1>2. CASE o \in SocketOps(ctx)
  <2>1. CASE o \in {UringioSocket_sendto(ctx), UringioSocket_recvfrom(ctx), UringioSocket_recvmsg(ctx)}
    BY <2>1 DEF UringioSocket_sendto, UringioSocket_recvfrom, UringioSocket_recvmsg,
      get_or_create_linear_buffer, get_or_create_vectored_buffer, create_buffer_payload_from_data,
      uringio_sendto, uringio_recvfrom, uringio_recvmsg
  <2>2. CASE o \in {UringioSocket_accept(ctx), UringioSocket_send(ctx), UringioSocket_recv(ctx)}
    BY <2>2 DEF UringioSocket_accept, UringioSocket_send, UringioSocket_recv,
      get_or_create_linear_buffer, create_buffer_payload_from_data, accept_dispatcher,
      recv_dispatcher, send_dispatcher, uringio_accept, uringio_send, uringio_recv,
      uringio_recv_buffer_select
  <2>3. CASE o \in {Uringio_prep_socket(ctx), UringioSocket_bind(ctx), UringioSocket_connect(ctx),
                    UringioSocket_listen(ctx), UringioSocket_close(ctx), UringioSocket_aexit(ctx),
                    UringioSocket_sendmsg(ctx)}
    BY <2>3 DEF Uringio_prep_socket, UringioSocket_bind, UringioSocket_connect, UringioSocket_listen,
      UringioSocket_close, UringioSocket_aexit, UringioSocket_sendmsg, get_or_create_vectored_buffer,
      prep_socket, uringio_bind, uringio_connect, uringio_listen, uringio_close_socket,
      uringio_sendmsg
  <2> QED
    BY <1>2, <2>1, <2>2, <2>3 DEF SocketOps
<1>3. CASE o = UringioLoop_timer(ctx)
  BY <1>3 DEF UringioLoop_timer, timer
<1> QED
  BY <1>1, <1>2, <1>3 DEF AllOps

\* All but recvmsg, and readv where buffers are selected, give the kernel no header
\* but the slot's and the reader the half it reads.
LEMMA SoundOpsMemory ==
  ASSUME NEW ctx \in Context, ctx.stream = "ONESHOT", NEW o \in SoundOps(ctx)
  PROVE  /\ o.header = "none" \/ (o.header = "slot" /\ o.msghdr)
         /\ CopiesFrom(o) \in {"none", o.half}
<1> USE DEF Op, Sqe, Streams, Payload, NoPayload, create_buffer_payload, SelectsBuffers, PayloadMode,
            Context, CopiesFrom
<1>1. CASE o \in FileOps(ctx)
  BY <1>1 DEF SoundOps, FileOps, Uringio_open, UringioFile_read, UringioFile_readv,
    UringioFile_readv_raw, UringioFile_write, UringioFile_writev, UringioFile_writev_raw,
    UringioFile_fsync, UringioFile_fdatasync, UringioFile_splice, UringioFile_close,
    UringioFile_aexit, get_or_create_linear_buffer, get_or_create_vectored_buffer,
    create_buffer_payload_from_pybuffer, create_buffer_payload_from_data, read_dispatcher,
    readv_dispatcher, write_dispatcher, open_file, uringio_read, uringio_read_fixed,
    uringio_read_buffer_select, uringio_readv, uringio_readv_buffer_select, uringio_write,
    uringio_write_fixed, uringio_writev, uringio_close_file, uringio_fsync, uringio_fdatasync,
    uringio_splice
<1>2. CASE o \in SocketOps(ctx)
  BY <1>2 DEF SoundOps, SocketOps, Uringio_prep_socket, UringioSocket_bind, UringioSocket_connect,
    UringioSocket_listen, UringioSocket_accept, UringioSocket_close, UringioSocket_aexit,
    UringioSocket_send, UringioSocket_recv, UringioSocket_sendto, UringioSocket_recvfrom,
    UringioSocket_sendmsg, get_or_create_linear_buffer, get_or_create_vectored_buffer,
    create_buffer_payload_from_data, accept_dispatcher, recv_dispatcher, send_dispatcher, prep_socket,
    uringio_bind, uringio_connect, uringio_listen, uringio_accept, uringio_close_socket, uringio_send,
    uringio_send_zc, uringio_send_zc_fixed, uringio_recv, uringio_recv_buffer_select, uringio_sendto,
    uringio_recvfrom, uringio_sendmsg
<1>3. CASE o = UringioLoop_timer(ctx)
  BY <1>3 DEF UringioLoop_timer, timer
<1> QED
  BY <1>1, <1>2, <1>3 DEF SoundOps, AllOps

\* The programs of the run over every method: any methods of the API under
\* contexts without multishot and zero copy, no timeouts, submits succeed.
Methods ==
  /\ Timeouts = {"none"} /\ ~SubmitMayFail
  /\ \A o \in Ops : \E ctx \in Context :
       ctx.stream = "ONESHOT" /\ ctx.transfer = "NORMAL_TRANSFER" /\ o \in AllOps(ctx)

\* Those that moreover call neither recvmsg nor readv where buffers are selected.
SoundPrograms ==
  /\ Timeouts = {"none"} /\ ~SubmitMayFail
  /\ \A o \in Ops : \E ctx \in Context :
       ctx.stream = "ONESHOT" /\ ctx.transfer = "NORMAL_TRANSFER" /\ o \in SoundOps(ctx)

\* All the methods, called in any order and number, resolve each future with the
\* completion of its own request only, and keep their payloads while the kernel
\* uses them.
THEOREM MethodsAnswered ==
  ASSUME Methods PROVE Spec => [](AnsweredByOwn /\ InFlightOwned /\ BufferLive)
<1>1. OneShot
  BY MethodsOneShot DEF Methods, OneShot
<1>2. Types /\ IInv => AnsweredByOwn /\ InFlightOwned /\ BufferLive
  BY <1>1, IInvBufferLive DEF IInv
<1> QED
  BY <1>1, <1>2, OneShotInvariant, PTL

\* Without recvmsg, and without readv where buffers are selected, they also keep
\* all the memory of a request while the kernel uses it, and the reader finds every
\* result.
THEOREM MethodsKeepMemory == ASSUME SoundPrograms PROVE Spec => [](MemoryLive /\ ReaderSurvives)
<1>1. Methods
  BY DEF SoundPrograms, Methods, SoundOps
<1>2. OneShot
  BY <1>1, MethodsOneShot DEF Methods, OneShot
<1>3. SlotHeaders /\ OwnHalves
  BY SoundOpsMemory DEF SoundPrograms, SlotHeaders, OwnHalves
<1>4. Spec => []MemoryLive
  BY <1>2, <1>3, MemoryStaysLive
<1>5. Spec => []ReaderSurvives
  BY <1>3, ReaderStaysUp
<1> QED
  BY <1>4, <1>5, PTL
=============================================================================

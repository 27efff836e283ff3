-------------------------- MODULE RegistryProofs --------------------------
(***************************************************************************)
(* Proofs about the registry for every size and every set of futures.      *)
(* The invariant: the stack below top has no duplicates and holds exactly  *)
(* the indices of the free slots.  That a removal always finds room on the *)
(* stack follows by the pigeonhole principle.                              *)
(***************************************************************************)
EXTENDS Registry, FiniteSetTheorems, TLAPS

\* The fields of a registry value and their types.
LEMMA RegistryFields ==
  ASSUME NEW reg \in RequestRegistry
  PROVE  /\ reg.slots \in [Index -> Slot]
         /\ reg.available_indices \in [Index -> Index]
         /\ reg.top \in Int /\ -1 <= reg.top /\ reg.top <= Size - 1
         /\ reg.aborted \in BOOLEAN
BY SizeAssumption DEF RequestRegistry

\* A well-formed registry with an occupied slot has room on its free stack:
\* the guard of registry_remove cannot fire for it.
LEMMA OccupiedHasRoom ==
  ASSUME NEW reg \in RequestRegistry, WellFormed(reg),
         NEW i \in Index, reg.slots[i] # NoFuture
  PROVE  reg.top < Size - 1
<1> USE SizeAssumption
<1> SUFFICES ASSUME reg.top = Size - 1 PROVE FALSE
  BY DEF RequestRegistry
<1> DEFINE f == reg.available_indices
<1>1. IsFiniteSet(Index) /\ Cardinality(Index) = Size
  BY FS_Interval DEF Index
<1>2. IsFiniteSet(Index \ {i}) /\ Cardinality(Index \ {i}) = Size - 1
  BY <1>1, FS_RemoveElement
<1>3. f \in [Index -> Index \ {i}]
  BY DEF RequestRegistry, WellFormed, FreeIffNoFuture, Free, Index
<1>4. \E j, k \in Index : j # k /\ f[j] = f[k]
  <2>1. Cardinality(Index \ {i}) < Cardinality(Index)
    BY <1>1, <1>2
  <2> QED
    BY <1>1, <1>2, <1>3, <2>1, FS_PigeonHole
<1> QED
  BY <1>4 DEF WellFormed, StackDistinct, Index

\* registry_new is well formed.
LEMMA NewWellFormed ==
  registry_new \in RequestRegistry /\ WellFormed(registry_new) /\ ~registry_new.aborted
<1> USE SizeAssumption
<1>1. registry_new \in RequestRegistry
  BY DEF registry_new, RequestRegistry, Index, Slot
<1>2. WellFormed(registry_new)
  BY DEF registry_new, WellFormed, StackDistinct, FreeIffNoFuture, Free, Index
<1> QED
  BY <1>1, <1>2 DEF registry_new

\* registry_add keeps the registry well formed and never aborts; when the
\* registry is not full the index it hands out was free.
LEMMA AddWellFormed ==
  ASSUME NEW reg \in RequestRegistry, WellFormed(reg), NEW f \in Future
  PROVE  /\ registry_add(reg, f) \in RequestRegistry
         /\ WellFormed(registry_add(reg, f))
         /\ registry_add(reg, f).aborted = reg.aborted
         /\ ~IsFull(reg) => /\ AddIndex(reg) \in Index
                            /\ reg.slots[AddIndex(reg)] = NoFuture
<1> USE SizeAssumption, FutureAssumption
<1> DEFINE new == registry_add(reg, f)
<1>1. CASE IsFull(reg)
  BY <1>1 DEF registry_add
<1>2. CASE ~IsFull(reg)
  <2> DEFINE i == AddIndex(reg)
  <2>1. reg.top \in Index /\ i \in Index /\ reg.slots[i] = NoFuture
    <3>1. reg.top \in 0 .. reg.top /\ reg.top \in Index
      BY <1>2, RegistryFields DEF IsFull, Index
    <3>2. i \in Index
      BY <3>1, RegistryFields DEF AddIndex
    <3>3. i \in Free(reg)
      BY <3>1, Zenon DEF Free, AddIndex
    <3> QED
      BY <3>1, <3>2, <3>3, Zenon DEF WellFormed, FreeIffNoFuture
  <2>2. /\ new.top = reg.top - 1
        /\ new.slots = [reg.slots EXCEPT ![i] = f]
        /\ new.available_indices = reg.available_indices
        /\ new.aborted = reg.aborted
        /\ new \in RequestRegistry
    <3>1. new = [reg EXCEPT !.slots = [reg.slots EXCEPT ![i] = f],
                            !.top = reg.top - 1,
                            !.available_indices = reg.available_indices]
      BY <1>2 DEF registry_add, RequestRegistry
    <3>2. [reg.slots EXCEPT ![i] = f] \in [Index -> Slot]
      BY <2>1, RegistryFields DEF Slot
    <3>3. reg.top - 1 \in -1 .. Size - 1
      BY <2>1, RegistryFields DEF Index
    <3> HIDE DEF new, i
    <3> QED
      BY <3>1, <3>2, <3>3 DEF RequestRegistry
  <2>3. StackDistinct(new)
    BY <2>1, <2>2 DEF WellFormed, StackDistinct, Index
  <2>4. FreeIffNoFuture(new)
    <3> SUFFICES ASSUME NEW j \in Index
                 PROVE  j \in Free(new) <=> new.slots[j] = NoFuture
      BY DEF FreeIffNoFuture
    <3>1. CASE j = i
      <4>1. new.slots[j] = f
        BY <2>1, <2>2, <3>1 DEF RequestRegistry
      <4>2. j \notin Free(new)
        BY <2>1, <2>2, <3>1 DEF Free, AddIndex, WellFormed, StackDistinct, Index
      <4> QED
        BY <4>1, <4>2
    <3>2. CASE j # i
      <4>1. new.slots[j] = reg.slots[j]
        BY <2>1, <2>2, <3>2 DEF RequestRegistry
      <4>2. j \in Free(new) <=> j \in Free(reg)
        BY <2>1, <2>2, <3>2 DEF Free, AddIndex, Index
      <4> QED
        BY <4>1, <4>2 DEF WellFormed, FreeIffNoFuture
    <3> QED
      BY <3>1, <3>2
  <2> QED
    BY <2>1, <2>2, <2>3, <2>4 DEF WellFormed
<1> QED
  BY <1>1, <1>2

\* registry_add puts the future in the slot whose index it returns.
LEMMA AddSlots ==
  ASSUME NEW reg \in RequestRegistry, ~IsFull(reg), NEW f \in Future
  PROVE  registry_add(reg, f).slots = [reg.slots EXCEPT ![AddIndex(reg)] = f]
BY DEF registry_add, RequestRegistry

\* Removing an occupied slot keeps the registry well formed, does not abort
\* and frees that slot alone.
LEMMA RemoveWellFormed ==
  ASSUME NEW reg \in RequestRegistry, WellFormed(reg),
         NEW i \in Index, reg.slots[i] # NoFuture
  PROVE  /\ registry_remove(reg, i) \in RequestRegistry
         /\ WellFormed(registry_remove(reg, i))
         /\ registry_remove(reg, i).aborted = reg.aborted
         /\ registry_remove(reg, i).slots = [reg.slots EXCEPT ![i] = NoFuture]
<1> USE SizeAssumption
<1> DEFINE new == registry_remove(reg, i)
           t == reg.top + 1
<1>0. reg.top < Size - 1
  BY OccupiedHasRoom
<1>1. t \in Index /\ reg.top \in Int /\ -1 <= reg.top
  BY <1>0, RegistryFields DEF Index
<1>2. /\ new.top = t
      /\ new.slots = [reg.slots EXCEPT ![i] = NoFuture]
      /\ new.available_indices = [reg.available_indices EXCEPT ![t] = i]
      /\ new.aborted = reg.aborted
      /\ new \in RequestRegistry
  <2>1. new = [reg EXCEPT !.slots = [reg.slots EXCEPT ![i] = NoFuture],
                          !.top = t,
                          !.available_indices = [reg.available_indices EXCEPT ![t] = i]]
    BY <1>0, RegistryFields DEF registry_remove
  <2>2. /\ [reg.slots EXCEPT ![i] = NoFuture] \in [Index -> Slot]
        /\ [reg.available_indices EXCEPT ![t] = i] \in [Index -> Index]
    BY <1>1, RegistryFields DEF Slot
  <2>3. t \in -1 .. Size - 1
    BY <1>0, <1>1
  <2> HIDE DEF new, t
  <2> QED
    BY <2>1, <2>2, <2>3 DEF RequestRegistry
<1>3. i \notin Free(reg)
  BY DEF WellFormed, FreeIffNoFuture
<1>4. \A k \in 0 .. reg.top : k # t /\ new.available_indices[k] = reg.available_indices[k]
  BY <1>1, <1>2 DEF RequestRegistry, Index
<1>5. new.available_indices[t] = i
  BY <1>1, <1>2 DEF RequestRegistry
<1>6. StackDistinct(new)
  BY <1>1, <1>2, <1>3, <1>4, <1>5 DEF WellFormed, StackDistinct, Free
<1>7. FreeIffNoFuture(new)
  <2> SUFFICES ASSUME NEW j \in Index
               PROVE  j \in Free(new) <=> new.slots[j] = NoFuture
    BY DEF FreeIffNoFuture
  <2>1. j \in Free(new) <=> (j = i \/ j \in Free(reg))
    BY <1>1, <1>2, <1>4, <1>5 DEF Free
  <2>2. new.slots[j] = NoFuture <=> (j = i \/ reg.slots[j] = NoFuture)
    BY <1>2 DEF RequestRegistry
  <2> QED
    BY <2>1, <2>2 DEF WellFormed, FreeIffNoFuture
<1> QED
  BY <1>2, <1>6, <1>7 DEF WellFormed

\* The inductive invariant.
RegistryInv == RegistryTypeOK /\ StackPartition /\ NeverAborts

\* It holds at the start and after every add and remove.
LEMMA RegistryInvInductive ==
  (RegistryInit => RegistryInv) /\ (RegistryInv /\ [RegistryNext]_registry => RegistryInv')
<1> USE DEF RegistryInv, RegistryTypeOK, StackPartition, NeverAborts
<1>1. RegistryInit => RegistryInv
  BY NewWellFormed DEF RegistryInit
<1>2. RegistryInv /\ [RegistryNext]_registry => RegistryInv'
  <2> SUFFICES ASSUME RegistryInv, [RegistryNext]_registry PROVE RegistryInv'
    OBVIOUS
  <2>1. ASSUME NEW f \in Future, Add(f) PROVE RegistryInv'
    BY <2>1, AddWellFormed DEF Add
  <2>2. ASSUME NEW i \in Index, Remove(i) PROVE RegistryInv'
    BY <2>2, RemoveWellFormed DEF Remove, registry_get
  <2>3. CASE UNCHANGED registry
    BY <2>3
  <2> QED
    BY <2>1, <2>2, <2>3 DEF RegistryNext
<1> QED
  BY <1>1, <1>2

\* The fields of the registry keep their ranges, for every size and whatever the
\* order of adds and removes.
THEOREM RegistryKeepsType == RegistrySpec => []RegistryTypeOK
BY RegistryInvInductive, PTL DEF RegistrySpec, RegistryInv

\* The free stack and the occupied slots partition the indices, for every size and
\* whatever the order of adds and removes.
THEOREM RegistryPartitions == RegistrySpec => []StackPartition
BY RegistryInvInductive, PTL DEF RegistrySpec, RegistryInv

\* registry_remove never finds the free stack full, for every size and whatever
\* the order of adds and removes.
THEOREM RegistryNeverAborts == RegistrySpec => []NeverAborts
BY RegistryInvInductive, PTL DEF RegistrySpec, RegistryInv

\* The registry implements the index pool: slots change owner only through an
\* acquire of a free index or a release of an owned one.
THEOREM RegistryImplementsPool == RegistrySpec => ImplementsPool
<1> USE DEF RegistryTypeOK, StackPartition
<1>1. RegistryInit => Pool!Init
  BY DEF RegistryInit, registry_new, Pool!Init
<1>2. RegistryTypeOK /\ StackPartition /\ [RegistryNext]_registry
        => [Pool!Next]_(registry.slots)
  <2> SUFFICES ASSUME RegistryTypeOK, StackPartition, [RegistryNext]_registry
               PROVE  [Pool!Next]_(registry.slots)
    OBVIOUS
  <2>1. ASSUME NEW f \in Future, Add(f) PROVE [Pool!Next]_(registry.slots)
    <3>1. CASE IsFull(registry)
      BY <2>1, <3>1 DEF Add, registry_add
    <3>2. CASE ~IsFull(registry)
      <4>1. AddIndex(registry) \in Index /\ registry.slots[AddIndex(registry)] = NoFuture
        BY <3>2, AddWellFormed
      <4>2. registry.slots' = [registry.slots EXCEPT ![AddIndex(registry)] = f]
        BY <2>1, <3>2 DEF Add, registry_add, RequestRegistry
      <4> QED
        BY <4>1, <4>2 DEF Pool!Next, Pool!Acquire
    <3> QED
      BY <3>1, <3>2
  <2>2. ASSUME NEW i \in Index, Remove(i) PROVE [Pool!Next]_(registry.slots)
    <3>1. registry.slots[i] # NoFuture
      BY <2>2 DEF Remove, registry_get
    <3>2. registry.slots' = [registry.slots EXCEPT ![i] = NoFuture]
      BY <2>2, <3>1, RemoveWellFormed DEF Remove
    <3> QED
      BY <3>1, <3>2 DEF Pool!Next, Pool!Release
  <2>3. CASE UNCHANGED registry
    BY <2>3
  <2> QED
    BY <2>1, <2>2, <2>3 DEF RegistryNext
<1> QED
  BY <1>1, <1>2, RegistryInvInductive, PTL DEF RegistrySpec, RegistryInv, ImplementsPool, Pool!Spec
=============================================================================

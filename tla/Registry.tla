------------------------------ MODULE Registry ------------------------------
(***************************************************************************)
(* The request registry (src/src/registry): a table of slots and a stack   *)
(* of free indices.  The index of a slot travels through the ring as the   *)
(* user_data of the request, so an index handed out twice completes the    *)
(* wrong future.  The functions are operators on a registry value;         *)
(* Spec is the registry with clients that add requests and remove only     *)
(* what they added, in any order.                                          *)
(***************************************************************************)
EXTENDS Integers

CONSTANTS Size,      \* number of slots (DEFAULT_REGISTRY_SIZE in the program)
          Future,    \* the futures that can be registered
          NoFuture   \* the NULL future of a free slot

ASSUME SizeAssumption == Size \in Nat \ {0}
ASSUME FutureAssumption == NoFuture \notin Future

Index == 0 .. Size - 1

\* What of a RequestSlot decides the control: the future (one per request, so
\* it also identifies the request's file, socket and payload).  registry_remove
\* leaves user_data, stream_strategy and addr behind; nobody reads them in a
\* slot without a future.
Slot == Future \cup {NoFuture}

\* The RequestRegistry struct.  aborted records that abort() was called.
RequestRegistry == [slots : [Index -> Slot],
                    available_indices : [Index -> Index],
                    top : -1 .. Size - 1,
                    aborted : BOOLEAN]

\* Mutant: top starts at size instead of size - 1.
registry_new_TopIsSize == [slots |-> [i \in Index |-> NoFuture],
                           available_indices |-> [i \in Index |-> i],
                           top |-> Size,
                           aborted |-> FALSE]

registry_new == [slots |-> [i \in Index |-> NoFuture],
                 available_indices |-> [i \in Index |-> i],
                 top |-> Size - 1,
                 aborted |-> FALSE]

\* registry_add returns -1 and changes nothing.
IsFull(reg) == reg.top < 0

\* The index registry_add returns when the registry is not full.
AddIndex(reg) == reg.available_indices[reg.top]

\* Mutant: the index is read but not popped.
registry_add_NoPop(reg, future) ==
  IF IsFull(reg) THEN reg
  ELSE [reg EXCEPT !.slots = [reg.slots EXCEPT ![AddIndex(reg)] = future]]

registry_add(reg, future) ==
  IF IsFull(reg) THEN reg
  ELSE [reg EXCEPT !.top = reg.top - 1,
                   !.slots = [reg.slots EXCEPT ![AddIndex(reg)] = future]]

\* registry_get: NULL (here NoFuture) outside the table, otherwise the slot,
\* free or not.
registry_get(reg, index) == IF index \in Index THEN reg.slots[index] ELSE NoFuture

\* Mutant: the slot keeps its future.
registry_remove_NoClear(reg, index) ==
  IF index \notin Index THEN reg
  ELSE IF reg.top >= Size - 1 THEN [reg EXCEPT !.aborted = TRUE]
  ELSE [reg EXCEPT !.top = reg.top + 1,
                   !.available_indices =
                       [reg.available_indices EXCEPT ![reg.top + 1] = index]]

\* Mutant: the guard is off by one and refuses the last index.
registry_remove_GuardOffByOne(reg, index) ==
  IF index \notin Index THEN reg
  ELSE IF reg.top >= Size - 2 THEN [reg EXCEPT !.aborted = TRUE]
  ELSE [reg EXCEPT !.slots = [reg.slots EXCEPT ![index] = NoFuture],
                   !.top = reg.top + 1,
                   !.available_indices =
                       [reg.available_indices EXCEPT ![reg.top + 1] = index]]

registry_remove(reg, index) ==
  IF index \notin Index THEN reg
  ELSE IF reg.top >= Size - 1 THEN [reg EXCEPT !.aborted = TRUE]
  ELSE [reg EXCEPT !.slots = [reg.slots EXCEPT ![index] = NoFuture],
                   !.top = reg.top + 1,
                   !.available_indices =
                       [reg.available_indices EXCEPT ![reg.top + 1] = index]]
-----------------------------------------------------------------------------
VARIABLE registry

RegistryInit == registry = registry_new

Registered == {registry.slots[i] : i \in Index} \ {NoFuture}

\* A call that registers its future; on a full registry the caller gets -1.
Add(f) == /\ f \notin Registered
          /\ registry' = registry_add(registry, f)

\* A client removes a request it added: the reader after it looked the slot
\* up and found a future, or the call whose submission failed.
Remove(i) == /\ registry_get(registry, i) # NoFuture
             /\ registry' = registry_remove(registry, i)

RegistryNext == \/ \E f \in Future : Add(f)
                \/ \E i \in Index : Remove(i)

RegistrySpec == RegistryInit /\ [][RegistryNext]_registry
-----------------------------------------------------------------------------
\* The type invariant: every field of the struct keeps its range, top
\* included, for every sequence of adds and removes.
RegistryTypeOK == registry \in RequestRegistry

\* The part of the stack that is in use.
Free(reg) == {reg.available_indices[k] : k \in 0 .. reg.top}

\* No index is on the free stack twice: two requests in flight never share
\* the user_data the reader finds them by.
StackDistinct(reg) == \A j, k \in 0 .. reg.top :
  reg.available_indices[j] = reg.available_indices[k] => j = k

\* The stack holds exactly the indices of the slots without a future: no slot
\* is lost (registry_add would fail early) and no live slot is handed out.
FreeIffNoFuture(reg) == \A i \in Index : i \in Free(reg) <=> reg.slots[i] = NoFuture

WellFormed(reg) == StackDistinct(reg) /\ FreeIffNoFuture(reg)

\* The free stack and the occupied slots partition the indices after any
\* sequence of registry_add and registry_remove calls by such clients.
StackPartition == WellFormed(registry)

\* The guard in registry_remove never fires for such clients: the stack is
\* full only when no slot has a future.
NeverAborts == ~registry.aborted

\* The registry is an index pool: a slot's future owns the slot's index.
Pool == INSTANCE IndexPool WITH Owner <- Future, NoOwner <- NoFuture,
                                owner <- registry.slots
\* Every add and remove is an acquire, a release, or leaves ownership alone.
ImplementsPool == Pool!Spec
=============================================================================

---------------------------- MODULE FixedBuffers ----------------------------
(***************************************************************************)
(* The index registry of fixed buffers (buffer_controllers/buffer_index.c):*)
(* a stack of the indices of the buffers registered with the kernel.  The  *)
(* functions are operators on a registry value; module ExecContext calls   *)
(* them.  Unlike the request registry it keeps no record of who holds an   *)
(* index: release pushes whatever it is given.                             *)
(***************************************************************************)
EXTENDS Integers

DEFAULT_BUFFER_IDX_REGISTRY_SIZE == 128

\* Creation cannot fail here: malloc's NULL is not modelled.
buffer_idx_registry_create(size) ==
  LET n == IF size = 0 THEN DEFAULT_BUFFER_IDX_REGISTRY_SIZE ELSE size
  IN  [available_indices |-> [i \in 0 .. n - 1 |-> i], top |-> n - 1, size |-> n]

\* Mutant: the size survives the array it describes.
buffer_idx_registry_destroy_KeepsSize(reg) ==
  [available_indices |-> << >>, top |-> -1, size |-> reg.size]

\* The array is freed and the struct stays: a late release finds no room.
NoIndices == [available_indices |-> << >>, top |-> -1, size |-> 0]
buffer_idx_registry_destroy(reg) == NoIndices

\* Mutant: the top moves below an empty stack.
AfterGet_NoCheck(reg) == [reg EXCEPT !.top = reg.top - 1]

\* get_buffer_idx returns -1 and leaves an empty registry alone.
get_buffer_idx(reg) == IF reg.top < 0 THEN -1 ELSE reg.available_indices[reg.top]
AfterGet(reg) == IF reg.top < 0 THEN reg ELSE [reg EXCEPT !.top = reg.top - 1]

release_buffer_idx(reg, index) ==
  IF reg.top + 1 >= reg.size THEN reg
  ELSE [reg EXCEPT !.top = reg.top + 1,
                   !.available_indices =
                       [reg.available_indices EXCEPT ![reg.top + 1] = index]]

\* The part of the stack that is in use lies in the array, which is as long
\* as size says: no get or release reads or writes past it or after its free.
InArray(reg) == /\ DOMAIN reg.available_indices = 0 .. reg.size - 1
                /\ reg.top \in -1 .. reg.size - 1

FreeIdx(reg) == {reg.available_indices[k] : k \in 0 .. reg.top}
=============================================================================

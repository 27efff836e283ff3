----------------------------- MODULE IndexPool -----------------------------
(***************************************************************************)
(* What an index allocator promises its clients, with nothing about how    *)
(* it keeps its free indices: an index has at most one owner, an index is  *)
(* handed out only while nobody owns it, and only its owner's release      *)
(* makes it available again.  The request registry implements it           *)
(* (module Registry).                                                      *)
(***************************************************************************)
CONSTANTS Index,    \* the indices
          Owner,    \* who may own one
          NoOwner   \* marks an index nobody owns

VARIABLE owner

Init == owner = [i \in Index |-> NoOwner]

Acquire(i, o) == /\ owner[i] = NoOwner
                 /\ owner' = [owner EXCEPT ![i] = o]

Release(i) == /\ owner[i] # NoOwner
              /\ owner' = [owner EXCEPT ![i] = NoOwner]

Next == \E i \in Index : Release(i) \/ \E o \in Owner : Acquire(i, o)

Spec == Init /\ [][Next]_owner
=============================================================================

----------------------------- MODULE MCRequests -----------------------------
(***************************************************************************)
(* Instances of Requests: the sets of operations the runs call.            *)
(***************************************************************************)
EXTENDS Requests, TLC

\* Futures are interchangeable (used only where no liveness is checked).
Symmetry == Permutations(Future)

Normal == [mode |-> "NORMAL_BUF", stream |-> "ONESHOT", transfer |-> "NORMAL_TRANSFER"]

\* One operation of each kind of slot: a payload and a header of its own, nothing.
PlainOps == {UringioSocket_recvfrom(Normal), UringioLoop_timer(Normal)}

\* Every method in the four buffer modes, for requests that complete once.
OneShotContexts == {c \in Context : c.stream = "ONESHOT" /\ c.transfer = "NORMAL_TRANSFER"}
EveryMethod == UNION {AllOps(ctx) : ctx \in OneShotContexts}

Multishot == [Normal EXCEPT !.stream = "MULTISHOT"]

ReadOps == {UringioFile_read(Normal)}

\* Operations that leave something behind: several CQEs for one slot, an SQE
\* that is never prepared.
FaultOps == {UringioSocket_accept(Multishot), Uringio_prep_socket_bad_domain(Normal)}
=============================================================================

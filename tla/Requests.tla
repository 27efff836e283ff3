------------------------------ MODULE Requests ------------------------------
(***************************************************************************)
(* The life of a request: an API call registers a future and its payload,  *)
(* takes SQEs from the ring and submits them; the kernel works on them and *)
(* posts CQEs; the reader finds the slot by the CQE's user_data, resolves  *)
(* the future and frees the slot.  Closing the loop drains the completion  *)
(* queue, destroys the registry and then the ring.                         *)
(*                                                                         *)
(* The loop runs in one thread, so an API call, the handling of one CQE    *)
(* and a step of the shutdown are atomic; the kernel posts CQEs between    *)
(* any two of them.  A future stands for the request that created it.      *)
(***************************************************************************)
EXTENDS Registry, Operations, Sequences, FiniteSets

CONSTANTS Ops,            \* the operations this instance calls (module Operations)
          Timeouts,       \* timeout_params of the calls: "none", "optional", "required"
          SubmitMayFail,  \* io_uring_submit may return an error
          SQEntries,      \* SQEs of the ring (256 in ring_init)
          CQEntries,      \* CQEs of the ring (twice as many); the kernel holds back the others
          MaxShots        \* bound: CQEs one multishot request posts

ASSUME RingAssumption == SQEntries \in Nat /\ SQEntries > 2 /\ CQEntries \in Nat \ {0}
ASSUME ShotsAssumption == MaxShots \in Nat \ {0}
ASSUME SubmitAssumption == SubmitMayFail \in BOOLEAN

VARIABLES
  sqe_data,  \* the user_data last written to each SQE of the ring
  sq_tail,   \* the next SQE io_uring_get_sqe hands out
  sq,        \* SQEs taken and not yet consumed by a submit
  kernel,    \* SQEs the kernel is working on
  cq,        \* CQEs posted and not yet seen
  fut,       \* state of each future
  op,        \* what each future's call asked for
  payload,   \* state of each payload
  msghdr,    \* state of the message header each call put on the heap
  answered,  \* ghost: the requests whose CQEs were applied to each future
  stage      \* of the loop

vars == <<registry, sqe_data, sq_tail, sq, kernel, cq, fut, op, payload, msghdr, answered,
          stage>>

ringVars == <<sqe_data, sq_tail, sq, kernel>>

\* user_data that is no index: WAKEUP_FD_TAG and the signal handler's pointer.
WAKEUP_FD_TAG == -1
SIGNALS_DATA == -2

\* The payload all the requests of one buffer context share.
ContextPayload == "context payload"
ASSUME PayloadAssumption == ContextPayload \notin Future

NoOp == Op("NOP", NoPayload, Sqe("one", "none"))

\* What the kernel holds and posts.  req is the call that took the SQE; kind
\* is "op", "timeout" for a linked timeout, "stale" for an SQE submitted
\* without having been prepared.
UserData == -2 .. Size - 1
SQE == [user_data : UserData, req : Future, kind : {"op", "timeout", "stale"}, posted : Nat]
CQE == [user_data : UserData, req : Future, kind : {"op", "timeout", "stale"},
        more : BOOLEAN, res : {"ok", "error", "etime"}]

FutureState == {"new", "pending", "result", "exception", "cancelled", "raised", "dropped"}

\* The payload a future's slot points to.
PayloadOf(f) ==
  CASE op[f].payload = "own" -> {f}
    [] op[f].payload = "context" -> {ContextPayload}
    [] OTHER -> {}

\* free_buffer_payload: a payload of a buffer context is freed only by force.
\* Freeing a payload twice corrupts the heap.
Freed(p) == IF p = "live" THEN "freed" ELSE "corrupt"

\* Mutant: the mode is not looked at, only force frees.
free_buffer_payload_ForceOnly(pl, ps, force) ==
  [x \in DOMAIN pl |-> IF x \in ps /\ force THEN Freed(pl[x]) ELSE pl[x]]

\* Mutant: a payload of a buffer context is freed like any other.
free_buffer_payload_AnyMode(pl, ps, force) ==
  [x \in DOMAIN pl |-> IF x \in ps THEN Freed(pl[x]) ELSE pl[x]]

free_buffer_payload(pl, ps, force) ==
  [x \in DOMAIN pl |-> IF x \in ps /\ (force \/ x # ContextPayload) THEN Freed(pl[x]) ELSE pl[x]]
-----------------------------------------------------------------------------
\* After UringioLoop_init: the ring's memory is zeroed, the first two SQEs went
\* to the signal handler's poll and the wakeup read (module EventLoop).
Init ==
  /\ RegistryInit
  /\ sqe_data = [p \in 0 .. SQEntries - 1 |-> CASE p = 0 -> SIGNALS_DATA
                                                [] p = 1 -> WAKEUP_FD_TAG
                                                [] OTHER -> 0]
  /\ sq_tail = 2 /\ sq = {} /\ kernel = {} /\ cq = << >>
  /\ fut = [f \in Future |-> "new"]
  /\ op = [f \in Future |-> NoOp]
  /\ payload = [p \in Future \cup {ContextPayload} |-> IF p = ContextPayload THEN "live" ELSE "none"]
  /\ msghdr = [f \in Future |-> "none"]
  /\ answered = [f \in Future |-> {}]
  /\ stage = "open"
-----------------------------------------------------------------------------
(* API calls *)

FreeSqes == SQEntries - Cardinality(sq)
Tail2 == (sq_tail + 1) % SQEntries

OpSqe(f, i) == [user_data |-> i, req |-> f, kind |-> "op", posted |-> 0]
\* timeout() prepares its SQE but sets no user_data: the SQE keeps the one its
\* place in the ring was last used with.
TimeoutSqe(f) == [user_data |-> sqe_data[Tail2], req |-> f, kind |-> "timeout", posted |-> 0]
StaleSqe(f) == [user_data |-> sqe_data[sq_tail], req |-> f, kind |-> "stale", posted |-> 0]

\* SQE_WITH_OPTIONAL_TIMEOUT takes a second SQE for the timeout if there is one.
TakesTimeout(to) == to # "none" /\ FreeSqes >= 2
NewSqes(f, i, to) == {OpSqe(f, i)} \cup (IF TakesTimeout(to) THEN {TimeoutSqe(f)} ELSE {})
TakeSqes(n) == sq_tail' = (sq_tail + n) % SQEntries
SqesTaken(to) == IF TakesTimeout(to) THEN 2 ELSE 1

\* The arguments of a call: an operation and its timeout_params.  The timer
\* takes no timeout.
Calls(f, o, to) ==
  /\ stage = "open"
  /\ fut[f] = "new"
  /\ o.opcode = "TIMEOUT" => to = "none"
  /\ op' = [op EXCEPT ![f] = o]
  /\ UNCHANGED <<cq, answered, stage>>

\* The call raises before registering or after undoing its registration:
\* the caller never sees the future, and the payload the slot held is freed.
\* A payload that was never put in the slot is freed only before registration,
\* and recvmsg does not free its header when the registry is full.
Raises(f, o, registered) ==
  /\ fut' = [fut EXCEPT ![f] = "raised"]
  /\ payload' = CASE o.payload = "own" -> [payload EXCEPT ![f] = "freed"]
                  [] o.payload = "unregistered" ->
                       [payload EXCEPT ![f] = IF registered THEN "live" ELSE "freed"]
                  [] OTHER -> payload
  /\ msghdr' = IF ~o.msghdr THEN msghdr
               ELSE [msghdr EXCEPT ![f] = IF registered \/ o.header = "slot" THEN "freed" ELSE "live"]

\* Mutant: the failed call does not give its slot back.
Unregister_Forgotten(f) == registry' = registry_add(registry, f)

\* registry_add, then registry_remove of the index it returned.
Unregister(f) ==
  registry' = registry_remove(registry_add(registry, f), AddIndex(registry))

CallRegistryFull(f, o, to) ==
  /\ Calls(f, o, to)
  /\ IsFull(registry)
  /\ Raises(f, o, FALSE)
  /\ UNCHANGED <<registry, ringVars>>

\* create_sqe finds no SQE: the operation returns -1.
CallNoSqe(f, o, to) ==
  /\ Calls(f, o, to)
  /\ ~IsFull(registry) /\ FreeSqes = 0
  /\ Unregister(f)
  /\ Raises(f, o, TRUE)
  /\ UNCHANGED ringVars

\* The operation returns with an SQE taken and not prepared: there is no second
\* SQE for a required timeout (-1), or prep_socket does not know the domain (-2).
CallLeavesSqe(f, o, to) ==
  /\ Calls(f, o, to)
  /\ ~IsFull(registry) /\ FreeSqes > 0
  /\ ~o.prepares \/ (to = "required" /\ FreeSqes = 1)
  /\ sq' = sq \cup {StaleSqe(f)} \cup (IF TakesTimeout(to) THEN {TimeoutSqe(f)} ELSE {})
  /\ TakeSqes(SqesTaken(to))
  /\ Unregister(f)
  /\ Raises(f, o, TRUE)
  /\ UNCHANGED <<sqe_data, kernel>>

Prepared(f, o, to) ==
  /\ ~IsFull(registry) /\ FreeSqes > 0
  /\ o.prepares /\ ~(to = "required" /\ FreeSqes = 1)
  /\ sqe_data' = [sqe_data EXCEPT ![sq_tail] = AddIndex(registry)]
  /\ TakeSqes(SqesTaken(to))

\* io_uring_submit fails and the operation returns 0: the SQEs stay queued.
CallSubmitFails(f, o, to) ==
  /\ SubmitMayFail
  /\ Calls(f, o, to)
  /\ Prepared(f, o, to)
  /\ sq' = sq \cup NewSqes(f, AddIndex(registry), to)
  /\ Unregister(f)
  /\ Raises(f, o, TRUE)
  /\ UNCHANGED kernel

\* io_uring_submit succeeds: the kernel takes all the queued SQEs.
CallSubmitted(f, o, to) ==
  /\ Calls(f, o, to)
  /\ Prepared(f, o, to)
  /\ kernel' = kernel \cup sq \cup NewSqes(f, AddIndex(registry), to)
  /\ sq' = {}
  /\ registry' = registry_add(registry, f)
  /\ fut' = [fut EXCEPT ![f] = "pending"]
  /\ payload' = IF o.payload \in {"own", "unregistered"} THEN [payload EXCEPT ![f] = "live"]
                ELSE payload
  /\ msghdr' = IF o.msghdr THEN [msghdr EXCEPT ![f] = "live"] ELSE msghdr

Call(f, o, to) == \/ CallRegistryFull(f, o, to)
                  \/ CallNoSqe(f, o, to)
                  \/ CallLeavesSqe(f, o, to)
                  \/ CallSubmitFails(f, o, to)
                  \/ CallSubmitted(f, o, to)

\* The program cancels the future it awaits.  Nothing tells the kernel.
Cancel(f) ==
  /\ stage = "open"
  /\ fut[f] = "pending"
  /\ fut' = [fut EXCEPT ![f] = "cancelled"]
  /\ UNCHANGED <<registry, ringVars, cq, op, payload, msghdr, answered, stage>>
-----------------------------------------------------------------------------
(* The loop and the kernel *)

\* io_uring_submit_and_wait_timeout submits what failed submits left queued.
run_once_submit ==
  /\ stage = "open" /\ sq # {}
  /\ kernel' = kernel \cup sq
  /\ sq' = {}
  /\ UNCHANGED <<registry, sqe_data, sq_tail, cq, fut, op, payload, msghdr, answered, stage>>

\* The kernel may post another CQE for the SQE after this one.  What an
\* SQE that was not prepared asks for is what its place was last used for.
MayPostMore(k) ==
  \/ k.kind = "op" /\ op[k.req].shots = "zc" /\ k.posted = 0
  \/ k.kind = "op" /\ op[k.req].shots = "multi" /\ k.posted < MaxShots - 1
  \/ k.kind = "stale" /\ (\E o \in Ops : o.shots # "one") /\ k.posted < MaxShots - 1

Results(k) == IF k.kind = "timeout" \/ op[k.req].opcode = "TIMEOUT"
              THEN {"etime", "error"} ELSE {"ok", "error"}

\* The kernel completes an SQE, or posts one of several CQEs for it
\* (IORING_CQE_F_MORE).  It uses the SQE's memory until the last one.
KernelPost(k, more, res) ==
  /\ stage # "closed"
  /\ k \in kernel /\ Len(cq) < CQEntries
  /\ more => MayPostMore(k)
  /\ res \in Results(k)
  /\ cq' = Append(cq, [user_data |-> k.user_data, req |-> k.req, kind |-> k.kind,
                       more |-> more, res |-> res])
  /\ kernel' = (kernel \ {k}) \cup (IF more THEN {[k EXCEPT !.posted = k.posted + 1]} ELSE {})
  /\ UNCHANGED <<registry, sqe_data, sq_tail, sq, fut, op, payload, msghdr, answered, stage>>

\* set_result or set_exception on a future: only a pending one takes it.
Resolved(f, value) == [fut EXCEPT ![f] = IF fut[f] = "pending" THEN value ELSE fut[f]]

Outcome(f, res) ==
  IF res = "ok" \/ (res = "etime" /\ op[f].opcode = "TIMEOUT") THEN "result" ELSE "exception"

\* Mutant: recvmsg's layout is assumed for every message.
CopiesFrom_MessagesAreVectors(o) ==
  CASE o.opcode \in {"READ", "RECV"} -> "linear"
    [] o.opcode \in {"READV", "RECVMSG"} -> "vector"
    [] OTHER -> "none"

\* The half of the slot's payload an opcode's case copies the result from.
CopiesFrom(o) ==
  CASE o.opcode \in {"READ", "RECV"} -> "linear"
    [] o.opcode = "READV" -> "vector"
    [] o.opcode = "RECVMSG" -> IF o.stream = "MULTISHOT" THEN "linear" ELSE o.half
    [] OTHER -> "none"

\* The reader copies a result out of a half that is NULL.
CopiesNull(f, res) ==
  Outcome(f, res) = "result" /\ CopiesFrom(op[f]) \notin {"none", op[f].half}

\* A CQE for f's slot is applied: the future is resolved, and the payload and
\* the header of the slot are freed.
Settle(f, c, value) ==
  /\ fut' = Resolved(f, value)
  /\ answered' = [answered EXCEPT ![f] = @ \cup {<<c.req, c.kind>>}]
  /\ payload' = free_buffer_payload(payload, PayloadOf(f), FALSE)
  /\ msghdr' = IF op[f].msghdr THEN [msghdr EXCEPT ![f] = "freed"] ELSE msghdr

\* Mutant: the reader returns without marking the CQE seen.
on_uring_ready_NotSeen ==
  /\ stage = "open" /\ cq # << >>
  /\ LET c == Head(cq)
         f == registry_get(registry, c.user_data)
     IN  IF f = NoFuture THEN UNCHANGED <<registry, fut, payload, msghdr, answered>>
         ELSE /\ Settle(f, c, Outcome(f, c.res))
              /\ registry' = registry_remove(registry, c.user_data)
  /\ UNCHANGED <<cq, ringVars, op, stage>>

\* Mutant: no check for a slot without a future.
on_uring_ready_NoCheck ==
  /\ stage = "open" /\ cq # << >>
  /\ LET c == Head(cq)
         f == registry_get(registry, c.user_data)
     IN  /\ IF f = NoFuture THEN UNCHANGED <<fut, payload, msghdr, answered>>
            ELSE Settle(f, c, Outcome(f, c.res))
         /\ registry' = registry_remove(registry, c.user_data)
  /\ cq' = Tail(cq)
  /\ UNCHANGED <<ringVars, op, stage>>

\* One turn of the reader's loop.  Every opcode's case frees the slot's
\* payload or leaves that to registry_remove; the more flag is not looked at.
on_uring_ready ==
  /\ stage = "open" /\ cq # << >>
  /\ LET c == Head(cq)
         f == registry_get(registry, c.user_data)
     IN  IF f = NoFuture THEN UNCHANGED <<registry, fut, payload, msghdr, answered>>
         ELSE /\ ~CopiesNull(f, c.res)
              /\ Settle(f, c, Outcome(f, c.res))
              /\ registry' = registry_remove(registry, c.user_data)
  /\ cq' = Tail(cq)
  /\ UNCHANGED <<ringVars, op, stage>>

\* The turn that copies through a NULL pointer: the process ends.
on_uring_ready_segv ==
  /\ stage = "open" /\ cq # << >>
  /\ LET c == Head(cq)
         f == registry_get(registry, c.user_data)
     IN  f # NoFuture /\ CopiesNull(f, c.res)
  /\ stage' = "crashed"
  /\ UNCHANGED <<registry, ringVars, cq, fut, op, payload, msghdr, answered>>
-----------------------------------------------------------------------------
(* Closing the loop *)

UringioLoop_close ==
  /\ stage = "open"
  /\ stage' = "draining"
  /\ UNCHANGED <<registry, ringVars, cq, fut, op, payload, msghdr, answered>>

\* Mutant: the drain loop does not mark the CQE seen.
graceful_shutdown_cqe_NotSeen ==
  /\ stage = "draining" /\ cq # << >>
  /\ LET c == Head(cq)
         f == registry_get(registry, c.user_data)
     IN  /\ IF f = NoFuture THEN UNCHANGED <<fut, payload, msghdr, answered>>
            ELSE Settle(f, c, "exception")
         /\ registry' = registry_remove(registry, c.user_data)
  /\ UNCHANGED <<cq, ringVars, op, stage>>

\* graceful_shutdown takes one CQE: unlike the reader it removes the slot
\* whether or not it has a future.
graceful_shutdown_cqe ==
  /\ stage = "draining" /\ cq # << >>
  /\ LET c == Head(cq)
         f == registry_get(registry, c.user_data)
     IN  /\ IF f = NoFuture THEN UNCHANGED <<fut, payload, msghdr, answered>>
            ELSE Settle(f, c, "exception")
         /\ registry' = registry_remove(registry, c.user_data)
  /\ cq' = Tail(cq)
  /\ UNCHANGED <<ringVars, op, stage>>

\* 100 ms passed without a CQE: registry_destroy drops the futures and frees
\* the payloads of the slots still in use, a context's once per slot.  It leaves
\* the message headers.
registry_destroy ==
  /\ stage = "draining" /\ cq = << >>
  /\ registry' = [registry EXCEPT !.slots = [i \in Index |-> NoFuture], !.top = -1]
  /\ fut' = [f \in Future |-> IF f \in Registered /\ fut[f] = "pending" THEN "dropped" ELSE fut[f]]
  /\ LET own == (UNION {PayloadOf(f) : f \in Registered}) \ {ContextPayload}
         sharing == {f \in Registered : ContextPayload \in PayloadOf(f)}
         once == free_buffer_payload(payload, own, TRUE)
     IN  payload' = CASE Cardinality(sharing) = 0 -> once
                      [] Cardinality(sharing) = 1 -> [once EXCEPT ![ContextPayload] = Freed(@)]
                      [] OTHER -> [once EXCEPT ![ContextPayload] = "corrupt"]
  /\ stage' = "destroying"
  /\ UNCHANGED <<ringVars, cq, op, msghdr, answered>>

\* ring_destroy cancels what is in flight and takes the ring down.  Without an
\* SQE for the cancellation, or when its submit fails, it returns and the ring
\* stays with the kernel.
RingExits == FreeSqes > 0 /\ sq' = {} /\ kernel' = {} /\ cq' = << >>
RingStays == (SubmitMayFail \/ FreeSqes = 0) /\ UNCHANGED <<sq, kernel, cq>>

ring_destroy ==
  /\ stage = "destroying"
  /\ RingExits \/ RingStays
  /\ stage' = "closed"
  /\ UNCHANGED <<registry, sqe_data, sq_tail, fut, op, payload, msghdr, answered>>

Shutdown == UringioLoop_close \/ graceful_shutdown_cqe \/ registry_destroy \/ ring_destroy
-----------------------------------------------------------------------------
\* abort() and a NULL pointer end the process.
Next ==
  /\ ~registry.aborted /\ stage # "crashed"
  /\ \/ \E f \in Future, o \in Ops, to \in Timeouts : Call(f, o, to)
     \/ \E f \in Future : Cancel(f)
     \/ run_once_submit
     \/ \E k \in kernel, more \in BOOLEAN, res \in {"ok", "error", "etime"} : KernelPost(k, more, res)
     \/ on_uring_ready
     \/ on_uring_ready_segv
     \/ Shutdown

Spec == Init /\ [][Next]_vars

\* run_once always runs the reader, and close runs the shutdown to its end.
\* Nothing obliges the kernel to complete a request, or a program to close.
FairSpec == /\ Spec
            /\ WF_vars(on_uring_ready \/ on_uring_ready_segv)
            /\ WF_vars(graceful_shutdown_cqe \/ registry_destroy \/ ring_destroy)
-----------------------------------------------------------------------------
\* The type invariant.
TypeOK ==
  /\ RegistryTypeOK
  /\ sqe_data \in [0 .. SQEntries - 1 -> UserData] /\ sq_tail \in 0 .. SQEntries - 1
  /\ sq \subseteq SQE /\ kernel \subseteq SQE
  /\ cq \in Seq(CQE)
  /\ fut \in [Future -> FutureState]
  /\ op \in [Future -> Ops \cup {NoOp}]
  /\ payload \in [Future \cup {ContextPayload} -> {"none", "live", "freed", "corrupt"}]
  /\ msghdr \in [Future -> {"none", "live", "freed"}]
  /\ answered \in [Future -> SUBSET (Future \X {"op", "timeout", "stale"})]
  /\ stage \in {"open", "crashed", "draining", "destroying", "closed"}

\* The registry is in use.
Alive == stage \in {"open", "draining"}

\* The payload the kernel uses for an SQE it holds.
MemoryOf(k) ==
  IF k.kind # "op" \/ op[k.req].buffer # "payload" THEN {}
  ELSE IF op[k.req].payload = "context" THEN {ContextPayload} ELSE {k.req}

\* The message header it writes is there: one on the stack went when the call
\* that submitted the SQE returned.
HeaderLive(k) ==
  k.kind = "op" => /\ op[k.req].header # "stack"
                   /\ op[k.req].header = "slot" => msghdr[k.req] = "live"

\* Every buffer and every header the kernel works on is still allocated.
MemoryOutlivesKernel ==
  \A k \in kernel : HeaderLive(k) /\ \A p \in MemoryOf(k) : payload[p] = "live"

\* Until the registry is destroyed, the slot of a request keeps its buffers and
\* its header alive while the kernel works on it: neither the reader nor the
\* drain of a closing loop frees them before the request's completion.
MemoryLive == Alive => MemoryOutlivesKernel

\* The part of it that recvmsg, whose header is on the stack, keeps as well: a
\* payload, shared by the requests of a context or not, is not freed while the
\* kernel reads or fills its buffers.
BufferLive == Alive => \A k \in kernel : \A p \in MemoryOf(k) : payload[p] = "live"

\* The reader copies every result out of a buffer the slot has: the payload a
\* method registers has the half that the case of its opcode reads.
ReaderSurvives == stage # "crashed"

\* The reader hands a completion to the future whose call submitted it: a
\* future is resolved by the CQE of its own request and by no other, however
\* indices, ring entries and completions were reused in between.
AnsweredByOwn == \A f \in Future : answered[f] \subseteq {<<f, "op">>}

\* An SQE or CQE carries the index of the slot that holds its request's future.
Owned(e) == /\ e.kind = "op" /\ e.user_data \in Index
            /\ registry.slots[e.user_data] = e.req

\* Whatever is in flight, at the kernel or in the completion queue, is
\* registered under the index it carries, and each request is in flight once:
\* an index is not reused before the completion that carries it was read.
InFlightOwned == Alive =>
  /\ \A k \in kernel : Owned(k)
  /\ \A n \in 1 .. Len(cq) : Owned(cq[n])
  /\ \A k, l \in kernel : k.req = l.req => k = l
  /\ \A m, n \in 1 .. Len(cq) : cq[m].req = cq[n].req => m = n
  /\ \A k \in kernel, n \in 1 .. Len(cq) : k.req # cq[n].req

\* While the loop is open, a slot is occupied only while a CQE that will free
\* it is on its way, whatever stray CQEs arrive: no slot is lost for good.
NoLostSlot ==
  stage = "open" =>
    \A i \in Index : registry.slots[i] # NoFuture =>
      \/ \E k \in kernel : k.user_data = i
      \/ \E n \in 1 .. Len(cq) : cq[n].user_data = i

\* While the loop is open the free stack and the slots partition the indices,
\* whatever stray CQEs arrive: the reader removes no slot without a future.
OpenPartition == stage = "open" => StackPartition /\ ~registry.aborted

\* A payload of a request is allocated exactly while the request is
\* registered: none leaks, none is freed twice.
PayloadAccounting ==
  /\ \A f \in Future : payload[f] = "live" => f \in Registered
  /\ \A p \in DOMAIN payload : payload[p] # "corrupt"

\* A completion that reached the queue resolves its future.
Delivered == \A f \in Future :
  (\E n \in 1 .. Len(cq) : cq[n].req = f) ~> (fut[f] # "pending")

\* Closing the loop ends, whatever is still in flight.
CloseCompletes == (stage = "draining") ~> (stage = "closed")
=============================================================================

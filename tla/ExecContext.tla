----------------------------- MODULE ExecContext -----------------------------
(***************************************************************************)
(* Execution contexts: the four context managers that set the contextvar   *)
(* of a task, the buffers that entering one hands to the kernel, and the   *)
(* requests that tasks make in them.  All the requests of a context with   *)
(* buffers share its payload; which memory the kernel writes for a request *)
(* and which memory the reader copies the result from differ by mode.      *)
(*                                                                         *)
(* Tasks interleave at their awaits, each with its own copy of the         *)
(* contextvar; a with block nests and ends in the task that began it.      *)
(***************************************************************************)
EXTENDS FixedBuffers, Sequences, SequencesExt

CONSTANTS
  Task,          \* the tasks of the program
  Main,          \* the first of them
  Manager,       \* the context managers the program creates, each entered once
  NoManager,     \* the NULL payload of the context the loop starts with
  Programs,      \* the programs: what each of their managers is
  Request,       \* the requests the program makes
  NoRequest,     \* nobody wrote to a buffer yet
  CallsMayFail   \* a call may find no SQE, or its submit may fail

\* A manager: its type and what it was created with.
ManagerType == {"BufferMode", "StreamStrategy", "TransferMode", "ExecutionContext"}
BufferMode == {"NORMAL_BUF", "FIXED", "PROVIDED", "BUF_RING"}
StreamStrategy == {"ONESHOT", "MULTISHOT"}
TransferMode == {"NORMAL_TRANSFER", "ZERO_COPY"}

ASSUME TaskAssumption == Main \in Task
ASSUME ProgramAssumption ==
  Programs \subseteq [Manager -> [type : ManagerType, mode : BufferMode, amount : Nat \ {0},
                                  stream : StreamStrategy, transfer : TransferMode]]
ASSUME NoneAssumption == NoManager \notin Manager /\ NoRequest \notin Request
ASSUME FailAssumption == CallsMayFail \in BOOLEAN

\* The functions that create a manager, with valid arguments and memory enough.
UringioLoop_buffer_mode(mode, amount) ==
  [type |-> "BufferMode", mode |-> mode, amount |-> amount, stream |-> "ONESHOT",
   transfer |-> "NORMAL_TRANSFER"]
UringioLoop_stream_strategy(stream) ==
  [type |-> "StreamStrategy", mode |-> "NORMAL_BUF", amount |-> 1, stream |-> stream,
   transfer |-> "NORMAL_TRANSFER"]
UringioLoop_transfer_mode(transfer) ==
  [type |-> "TransferMode", mode |-> "NORMAL_BUF", amount |-> 1, stream |-> "ONESHOT",
   transfer |-> transfer]
UringioLoop_execution_context(mode, stream, transfer, amount) ==
  [type |-> "ExecutionContext", mode |-> mode, amount |-> amount, stream |-> stream,
   transfer |-> transfer]

VARIABLES
  manager,       \* the managers of the program that runs
  context_var,   \* the ExecutionContext each task sees
  nest,          \* the with blocks each task is in, innermost last
  base,          \* ghost: the context each task was created in
  token,         \* of each manager: what its exit restores
  phase,         \* of each manager: "new", "entered", "left" (or never entered)
  registered,    \* the manager whose fixed buffers the kernel has
  group,         \* the buffers in each of the kernel's buffer groups
  buf_ring,      \* the managers whose payload->buf_ring is not NULL
  idx_registry,  \* of each FIXED payload
  buf_idx,       \* of each payload: one field for all its requests
  req,           \* the requests
  memory         \* ghost: who last wrote to the first buffer of each payload

vars == <<manager, context_var, nest, base, token, phase, registered, group, buf_ring,
          idx_registry, buf_idx, req, memory>>
taskVars == <<manager, context_var, nest, base, token, phase>>
bufferVars == <<registered, group, buf_ring>>
fixedVars == <<idx_registry, buf_idx>>

\* An ExecutionContext.  Its buffer_mode field is left out: the operations look
\* at the mode of its payload.
Context == [stream : StreamStrategy, transfer : TransferMode, payload : Manager \cup {NoManager}]
ContextVar_init ==
  [stream |-> "ONESHOT", transfer |-> "NORMAL_TRANSFER", payload |-> NoManager]

Mode(m) == manager[m].mode
Amount(m) == manager[m].amount

\* The buffer group of a payload: BUF_RING payloads all have bgid 0 (here
\* NoManager), PROVIDED payloads draw theirs at random (here all distinct).
Bgid(m) == IF Mode(m) = "PROVIDED" THEN m ELSE NoManager

\* Entries of a group: a buffer of a payload and its id.
Buffers(m) == [i \in 1 .. Amount(m) |-> [owner |-> m, bid |-> i - 1]]

NewRequest == [state |-> "new", payload |-> NoManager, own |-> TRUE, idx |-> -1, fits |-> TRUE,
               result |-> NoRequest]
-----------------------------------------------------------------------------
Init ==
  /\ manager \in Programs
  /\ context_var = [t \in Task |-> ContextVar_init]
  /\ nest = [t \in Task |-> << >>]
  /\ base = [t \in {Main} |-> ContextVar_init]
  /\ token = [m \in Manager |-> ContextVar_init]
  /\ phase = [m \in Manager |-> "new"]
  /\ registered = NoManager
  /\ group = [g \in Manager \cup {NoManager} |-> << >>]
  /\ buf_ring = {}
  /\ idx_registry = [m \in Manager |-> NoIndices]
  /\ buf_idx = [m \in Manager |-> -1]  \* not initialised: a read sets it before it is used
  /\ req = [r \in Request |-> NewRequest]
  /\ memory = [p \in Manager \cup Request |-> NoRequest]

Running == DOMAIN base

\* asyncio copies the context of the task that creates a task.
create_task(t, u) ==
  /\ u \notin Running
  /\ context_var' = [context_var EXCEPT ![u] = context_var[t]]
  /\ base' = [x \in Running \cup {u} |-> IF x = u THEN context_var[t] ELSE base[x]]
  /\ UNCHANGED <<manager, nest, token, phase, bufferVars, fixedVars, req, memory>>
-----------------------------------------------------------------------------
(* Buffer modes *)

IsPowerOfTwo(n) == n \in {1, 2, 4, 8, 16, 32, 64, 128}

\* The kernel takes one set of fixed buffers, and may refuse it.
init_fixed_mode(m) == registered = NoManager /\ registered' = m
close_fixed_mode == registered' = NoManager

\* Both are requests; that removing the buffers may fail is ignored.
init_provided_mode(m) == group' = [group EXCEPT ![Bgid(m)] = @ \o Buffers(m)]
close_provided_mode(m) == \/ group' = [group EXCEPT ![Bgid(m)] = << >>]
                          \/ CallsMayFail /\ UNCHANGED group

\* The kernel sets up a ring for a group that has none, of a power of two of
\* entries; otherwise init_buf_ring_mode returns NULL, which nobody checks.
CanSetUp(m) == buf_ring = {} /\ IsPowerOfTwo(Amount(m))
init_buf_ring_mode(m) ==
  \/ /\ CanSetUp(m)
     /\ buf_ring' = buf_ring \cup {m}
     /\ group' = [group EXCEPT ![Bgid(m)] = Buffers(m)]
  \/ ~CanSetUp(m) /\ UNCHANGED <<buf_ring, group>>
close_buf_ring_mode(m) ==
  IF m \in buf_ring
  THEN /\ buf_ring' = buf_ring \ {m}
       /\ group' = [group EXCEPT ![Bgid(m)] = << >>]
  ELSE UNCHANGED <<buf_ring, group>>

\* What entering a manager with buffers does after the contextvar is set.
InitMode(m) ==
  \/ /\ Mode(m) = "FIXED"
     /\ init_fixed_mode(m)
     /\ idx_registry' = [idx_registry EXCEPT ![m] = buffer_idx_registry_create(Amount(m))]
     /\ UNCHANGED <<group, buf_ring>>
  \/ /\ Mode(m) = "PROVIDED"
     /\ init_provided_mode(m)
     /\ UNCHANGED <<registered, buf_ring, idx_registry>>
  \/ /\ Mode(m) = "BUF_RING"
     /\ init_buf_ring_mode(m)
     /\ UNCHANGED <<registered, idx_registry>>
  \/ /\ Mode(m) = "NORMAL_BUF"
     /\ UNCHANGED <<bufferVars, idx_registry>>

InitMayFail(m) == \/ Mode(m) = "FIXED"
                  \/ Mode(m) = "PROVIDED" /\ CallsMayFail

\* What leaving a BufferModeCtx does after the contextvar was reset.
CloseMode(m) ==
  \/ /\ Mode(m) = "FIXED"
     /\ close_fixed_mode
     /\ idx_registry' = [idx_registry EXCEPT ![m] = buffer_idx_registry_destroy(@)]
     /\ UNCHANGED <<group, buf_ring>>
  \/ /\ Mode(m) = "PROVIDED"
     /\ close_provided_mode(m)
     /\ UNCHANGED <<registered, buf_ring, idx_registry>>
  \/ /\ Mode(m) = "BUF_RING"
     /\ close_buf_ring_mode(m)
     /\ UNCHANGED <<registered, idx_registry>>
  \/ /\ Mode(m) = "NORMAL_BUF"
     /\ UNCHANGED <<bufferVars, idx_registry>>
-----------------------------------------------------------------------------
(* The context managers *)

\* Mutant: a buffer context starts from the defaults, not from the current one.
Sets_NoClone(m, ctx) ==
  CASE manager[m].type = "BufferMode" -> [ContextVar_init EXCEPT !.payload = m]
    [] manager[m].type = "StreamStrategy" -> [ctx EXCEPT !.stream = manager[m].stream]
    [] manager[m].type = "TransferMode" -> [ctx EXCEPT !.transfer = manager[m].transfer]
    [] OTHER -> [stream |-> manager[m].stream, transfer |-> manager[m].transfer, payload |-> m]

\* The context a manager sets: a clone of the current one with its own field
\* replaced; an ExecutionContextCtx replaces all of it.
Sets(m, ctx) ==
  CASE manager[m].type = "BufferMode" -> [ctx EXCEPT !.payload = m]
    [] manager[m].type = "StreamStrategy" -> [ctx EXCEPT !.stream = manager[m].stream]
    [] manager[m].type = "TransferMode" -> [ctx EXCEPT !.transfer = manager[m].transfer]
    [] OTHER -> [stream |-> manager[m].stream, transfer |-> manager[m].transfer, payload |-> m]

HasBuffers(m) == manager[m].type \in {"BufferMode", "ExecutionContext"}

\* ContextVar_set: the token keeps the value it replaced.
ContextVar_set(t, m) ==
  /\ context_var' = [context_var EXCEPT ![t] = Sets(m, context_var[t])]
  /\ token' = [token EXCEPT ![m] = context_var[t]]

Enters(t, m) ==
  /\ t \in Running /\ phase[m] = "new"
  /\ ContextVar_set(t, m)
  /\ nest' = [nest EXCEPT ![t] = Append(@, m)]
  /\ phase' = [phase EXCEPT ![m] = "entered"]
  /\ UNCHANGED <<manager, base, buf_idx, req, memory>>

BufferModeCtx_enter(t, m) ==
  /\ manager[m].type = "BufferMode" /\ Enters(t, m) /\ InitMode(m)
ExecutionContextCtx_enter(t, m) ==
  /\ manager[m].type = "ExecutionContext" /\ Enters(t, m) /\ InitMode(m)
StreamStrategyCtx_enter(t, m) ==
  /\ manager[m].type = "StreamStrategy" /\ Enters(t, m) /\ UNCHANGED <<bufferVars, idx_registry>>
TransferModeCtx_enter(t, m) ==
  /\ manager[m].type = "TransferMode" /\ Enters(t, m) /\ UNCHANGED <<bufferVars, idx_registry>>

\* Mutant: the error path unregisters buffers.
EnterFails_Unregisters(t, m) ==
  /\ t \in Running /\ phase[m] = "new"
  /\ HasBuffers(m) /\ InitMayFail(m)
  /\ registered' = NoManager
  /\ phase' = [phase EXCEPT ![m] = "left"]
  /\ UNCHANGED <<manager, context_var, nest, base, token, group, buf_ring, fixedVars, req, memory>>

\* The kernel refuses the buffers (they are not its first, or some error):
\* the contextvar is set and reset, and the with block is not entered.
EnterFails(t, m) ==
  /\ t \in Running /\ phase[m] = "new"
  /\ HasBuffers(m) /\ InitMayFail(m)
  /\ phase' = [phase EXCEPT ![m] = "left"]
  /\ UNCHANGED <<manager, context_var, nest, base, token, bufferVars, fixedVars, req, memory>>

\* ContextVar_reset: back to what the token keeps.
ContextVar_reset(t, m) == context_var' = [context_var EXCEPT ![t] = token[m]]

Leaves(t, m) ==
  /\ nest[t] # << >> /\ m = Last(nest[t])
  /\ ContextVar_reset(t, m)
  /\ token' = [token EXCEPT ![m] = ContextVar_init]  \* cleared
  /\ nest' = [nest EXCEPT ![t] = Front(@)]
  /\ phase' = [phase EXCEPT ![m] = "left"]
  /\ UNCHANGED <<manager, base, buf_idx, req, memory>>

BufferModeCtx_exit(t, m) ==
  /\ manager[m].type = "BufferMode" /\ Leaves(t, m) /\ CloseMode(m)
\* Only the contextvar is reset: the mode stays initialised.
ExecutionContextCtx_exit(t, m) ==
  /\ manager[m].type = "ExecutionContext" /\ Leaves(t, m) /\ UNCHANGED <<bufferVars, idx_registry>>
StreamStrategyCtx_exit(t, m) ==
  /\ manager[m].type = "StreamStrategy" /\ Leaves(t, m) /\ UNCHANGED <<bufferVars, idx_registry>>
TransferModeCtx_exit(t, m) ==
  /\ manager[m].type = "TransferMode" /\ Leaves(t, m) /\ UNCHANGED <<bufferVars, idx_registry>>
-----------------------------------------------------------------------------
\* A step of a with statement.
Manage(t, m) ==
  \/ BufferModeCtx_enter(t, m) \/ StreamStrategyCtx_enter(t, m)
  \/ TransferModeCtx_enter(t, m) \/ ExecutionContextCtx_enter(t, m)
  \/ EnterFails(t, m)
  \/ BufferModeCtx_exit(t, m) \/ StreamStrategyCtx_exit(t, m)
  \/ TransferModeCtx_exit(t, m) \/ ExecutionContextCtx_exit(t, m)

-----------------------------------------------------------------------------
(* Requests *)

\* get_or_create_linear_buffer: the context's payload, or one of the request's
\* own (a NORMAL_BUF context has no payload that requests use).
Shares(p) == p # NoManager /\ Mode(p) # "NORMAL_BUF"
IsFixed(p) == Shares(p) /\ Mode(p) = "FIXED"
Selects(p) == Shares(p) /\ Mode(p) \in {"PROVIDED", "BUF_RING"}

\* The kernel does a fixed read into the payload's first buffer only if that
\* lies in the registered buffer the index names: buffers are separate
\* allocations, so the index has to be 0 and the buffers this payload's.
Fits(p, idx) == registered = p /\ idx = 0

Ended(state, result) == [NewRequest EXCEPT !.state = state, !.result = result]
Requested(p, idx, state) ==
  IF state = "failed" THEN Ended(state, NoRequest)
  ELSE [state |-> state, payload |-> p, own |-> ~Shares(p), idx |-> idx,
        fits |-> ~IsFixed(p) \/ Fits(p, idx), result |-> NoRequest]

\* Multishot requests in buffer groups are left to module Requests.
Calls(t, r) ==
  /\ t \in Running /\ req[r].state = "new"
  /\ ~(Selects(context_var[t].payload) /\ context_var[t].stream = "MULTISHOT")
  /\ UNCHANGED <<taskVars, bufferVars, memory>>

\* A call that raises registers nothing; the payload keeps the index it took.
Outcomes == IF CallsMayFail THEN {"sent", "failed"} ELSE {"sent"}

\* Mutant: the index is looked up and stays on the stack.
read_fixed_NoPop(t, r) ==
  LET p == context_var[t].payload
      idx == get_buffer_idx(idx_registry[p])
  IN  /\ IsFixed(p)
      /\ Calls(t, r)
      /\ buf_idx' = [buf_idx EXCEPT ![p] = idx]
      /\ \E state \in Outcomes : req' = [req EXCEPT ![r] = Requested(p, idx, state)]
      /\ UNCHANGED idx_registry

\* A read in a FIXED context takes an index and leaves it in the payload, where
\* the next read overwrites it; a call that fails gives nothing back.
read_fixed(t, r) ==
  LET p == context_var[t].payload
      idx == get_buffer_idx(idx_registry[p])
  IN  /\ IsFixed(p)
      /\ Calls(t, r)
      /\ idx_registry' = [idx_registry EXCEPT ![p] = AfterGet(@)]
      /\ buf_idx' = [buf_idx EXCEPT ![p] = idx]
      /\ \E state \in Outcomes : req' = [req EXCEPT ![r] = Requested(p, idx, state)]

\* A read or a receive in any other context.  A receive in a FIXED context is
\* left out: it takes no index, its completion gives one back, and the user guide
\* excludes it.
read_or_recv(t, r) ==
  LET p == context_var[t].payload
  IN  /\ ~IsFixed(p)
      /\ Calls(t, r)
      /\ \E state \in Outcomes : req' = [req EXCEPT ![r] = Requested(p, -1, state)]
      /\ UNCHANGED fixedVars

\* The kernel writes the request's data: to the buffer it selects from the
\* group, or to the first buffer of the payload.  Only buffer 0 of a group has
\* the address of a buffer of the payload: the others are laid out behind it.
kernel_writes(r) ==
  LET p == req[r].payload
  IN  /\ req[r].state = "sent" /\ req[r].fits
      /\ IF ~req[r].own /\ Selects(p)
         THEN /\ group[Bgid(p)] # << >>
              /\ LET e == Head(group[Bgid(p)])
                 IN  memory' = IF e.bid = 0 THEN [memory EXCEPT ![e.owner] = r] ELSE memory
              /\ group' = [group EXCEPT ![Bgid(p)] = Tail(@)]
         ELSE /\ memory' = [memory EXCEPT ![IF req[r].own THEN r ELSE p] = r]
              /\ UNCHANGED group
      /\ req' = [req EXCEPT ![r].state = "ok"]
      /\ UNCHANGED <<taskVars, registered, buf_ring, fixedVars>>

\* The reader copies the result from the payload's first buffer and gives back
\* the index that is in the payload now.
on_uring_ready_ok(r) ==
  LET p == req[r].payload
  IN  /\ req[r].state = "ok"
      /\ req' = [req EXCEPT ![r] = Ended("answered", memory[IF req[r].own THEN r ELSE p])]
      /\ idx_registry' = IF req[r].own \/ ~IsFixed(p) THEN idx_registry
                         ELSE [idx_registry EXCEPT ![p] = release_buffer_idx(@, buf_idx[p])]
      /\ UNCHANGED <<taskVars, bufferVars, buf_idx, memory>>

\* The kernel fails the request, and the reader sets the exception and gives no
\* index back.
on_uring_ready_error(r) ==
  /\ req[r].state = "sent"
  /\ req' = [req EXCEPT ![r] = Ended("failed", NoRequest)]
  /\ UNCHANGED <<taskVars, bufferVars, fixedVars, memory>>

Next ==
  \/ \E t \in Running, u \in Task : create_task(t, u)
  \/ \E t \in Task, m \in Manager : Manage(t, m)
  \/ \E t \in Task, r \in Request : read_fixed(t, r) \/ read_or_recv(t, r)
  \/ \E r \in Request : kernel_writes(r) \/ on_uring_ready_ok(r) \/ on_uring_ready_error(r)

Spec == Init /\ [][Next]_vars
-----------------------------------------------------------------------------
IdxRegistry == [available_indices : UNION {[0 .. n - 1 -> -1 .. n - 1] : n \in {0} \cup {Amount(m) : m \in Manager}},
                top : Nat \cup {-1}, size : Nat]

\* The type invariant.
TypeOK ==
  /\ context_var \in [Task -> Context] /\ token \in [Manager -> Context]
  /\ nest \in [Task -> Seq(Manager)]
  /\ Running \subseteq Task /\ base \in [Running -> Context]
  /\ phase \in [Manager -> {"new", "entered", "left"}]
  /\ registered \in Manager \cup {NoManager} /\ buf_ring \subseteq Manager
  /\ group \in [Manager \cup {NoManager} -> Seq([owner : Manager, bid : Nat])]
  /\ idx_registry \in [Manager -> IdxRegistry]
  /\ \A r \in Request : req[r].state \in {"new", "sent", "ok", "answered", "failed"}
  /\ memory \in [Manager \cup Request -> Request \cup {NoRequest}]

\* The innermost with block of the task whose manager sets a field.
SettersIn(t, types) == {i \in 1 .. Len(nest[t]) : manager[nest[t][i]].type \in types \cup {"ExecutionContext"}}
InForce(t, types, value(_), default) ==
  IF SettersIn(t, types) = {} THEN default ELSE value(nest[t][Max(SettersIn(t, types))])

\* A task sees the settings of the with blocks it is in, innermost first, and
\* behind them those of the task that created it: whatever other tasks enter
\* and leave, and whichever contexts failed to initialise in between.
ContextNests == \A t \in Running :
  context_var[t] =
    [payload |-> InForce(t, {"BufferMode"}, LAMBDA m : m, base[t].payload),
     stream |-> InForce(t, {"StreamStrategy"}, LAMBDA m : manager[m].stream, base[t].stream),
     transfer |-> InForce(t, {"TransferMode"}, LAMBDA m : manager[m].transfer, base[t].transfer)]

\* The fixed buffers the kernel has are those of the one FIXED context that is
\* entered and not left: a second one that fails to enter does not take them
\* away, and leaving gives them back so that the next can be entered.
RegistrationMatches == \A m \in Manager :
  HasBuffers(m) /\ Mode(m) = "FIXED" => (registered = m <=> phase[m] = "entered")

\* What a request returns is what the kernel wrote for it, although requests of
\* one context share its buffers and completions are read in any order.
ReadsOwnData == \A r \in Request : req[r].state = "answered" => req[r].result = r

InFlight(m) == {r \in Request : /\ req[r].state \in {"sent", "ok"}
                                /\ ~req[r].own /\ req[r].payload = m}

\* The stack of fixed buffers stays in its array, also for completions read
\* after the context was left, and an index is free or held by one request.
PoolSound == \A m \in Manager : Mode(m) = "FIXED" =>
  /\ InArray(idx_registry[m])
  /\ \A j, k \in 0 .. idx_registry[m].top :
       /\ idx_registry[m].available_indices[j] = idx_registry[m].available_indices[k]
       /\ idx_registry[m].available_indices[j] >= 0
       => j = k
  /\ \A r \in InFlight(m) : req[r].idx >= 0 =>
       /\ req[r].idx \notin FreeIdx(idx_registry[m])
       /\ \A s \in InFlight(m) : req[s].idx = req[r].idx => s = r
=============================================================================

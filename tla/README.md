# uringio: TLA+ models of requests, handles, contexts and the event loop

uringio is a Python event loop on io_uring, written in C. This directory holds
TLA+ modules translated from the C code under `src/src/`, TLC configurations
that check them on small instances, and TLAPS proofs for all instances.

## 1. Inventory

| Part (source) | State | Operations | Works with |
|---|---|---|---|
| Registry (`registry/`) | slots, stack of free indices, `top` | new, add, get, remove, destroy | every API call adds, the reader and the shutdown get and remove |
| Ring (`ring/`, `macroses.h`) | submission queue, completion queue, what the kernel holds | create_sqe, submit, wakeup read, destroy | API calls, run_once, shutdown |
| Ops (`ops/`, `python_api/ops/`) | File and Socket handles (descriptor, closed flag) | 25 awaitable methods | registry, ring, buffers, timer |
| Reader (`python_api/reader/`) | none of its own | on_uring_ready, one turn per CQE | ring, registry, futures, payloads |
| Event loop (`python_api/loop/`) | `_ready`, `_scheduled`, `_stopping` (asyncio), ring, eventfd | run_once = compute_timeout, wait, reader, promote_scheduled, drain_ready; write_to_self; close | asyncio's BaseEventLoop, other threads |
| Shutdown (`loop/shutdown.c`) | stage of closing | drain, registry_destroy, ring_destroy | registry, ring |
| Buffers (`python_api/buffers/`) | payloads | get_or_create, free | API calls, reader, execution context |
| Buffer controllers (`buffer_controllers/`) | stack of fixed-buffer indices, buffers known to the kernel | get/release index, init/close of the three modes | dispatchers, reader, contexts |
| Execution context (`python_api/execution_context/`) | a contextvar: buffer mode, stream strategy, transfer mode, payload | enter and exit of four context managers | dispatchers, buffers |
| Timer (`timer/`, `python_api/timer/`) | none | timer request, linked timeout | ring |
| Signals (`python_api/signals/`) | a signalfd | one poll at start | ring, reader |

What is hard here: the index of a slot travels through the kernel as
`user_data` and comes back at any time, in any order, zero, one or several
times; memory handed to the kernel must outlive the request; a failed step
leaves SQEs behind; closing races with completions; the loop sleeps while
callbacks, timers, completions and other threads produce work; tasks nest and
leave buffer contexts while requests of theirs share one payload; a descriptor
number is reused as soon as the kernel has closed it, before the handle knows.

What makes the parts correct:

* registry: the free stack and the occupied slots partition the indices;
* requests: a completion resolves the future of its own request, buffers live
  while the kernel uses them, payloads are freed once, no slot is lost;
* closing: it ends, and frees nothing the kernel still uses;
* event loop: no sleep on ready work or past a timer, no starvation, a write to
  the eventfd ends the wait;
* contexts: a task sees the settings of the blocks it is in, the kernel has the
  fixed buffers of the context that is entered, a request returns its own data,
  an index of a fixed buffer is free or held by one request;
* handles: a handle acts on, and closes, only the descriptor it was opened with;
  no descriptor goes astray, and that of a closed handle is released.

The hazards, each at its line and with the properties that cover it, are in
`PROJECT.json`.

## 2. Modules

* **IndexPool**: the abstract specification: each index is owned by nobody or
  by one owner; acquire and release.
* **Registry**: `registry.c`. The functions are operators on a registry value,
  used by `Requests` as well; `RegistrySpec` runs them under clients that remove
  only what they added. `aborted` records `abort()`.
* **Operations**: what each awaitable method, in each execution context,
  registers and submits: opcode, whose payload and which half of it (linear or
  vector; the other is NULL), how many CQEs, which buffer and which message header
  the kernel uses until the last of them, and whether that header is in the slot
  or on the stack of the function that prepares the SQE. The methods differ in
  nothing else that decides the life of a request. `SoundOps` leaves out the two
  whose memory is not there (section 3).
* **Requests**: composes registry, ring, reader, payloads and shutdown. One
  action per outcome of an API call (registry full, no SQE, an SQE left
  behind, submit failed, submitted), `Cancel`, `run_once_submit`, `KernelPost`
  (external), `on_uring_ready` (one CQE), `on_uring_ready_segv` (one CQE whose
  case copies from a half of the payload that is NULL: the process ends, stage
  "crashed"), and the shutdown step by step. `payload` and `msghdr` are what is on
  the heap for a request. An SQE
  remembers the `user_data` its place in the ring was last used with, because
  linked timeouts and unprepared SQEs reuse it; an unprepared SQE asks again for
  what its place was used for, so it may post several CQEs. `answered` is a ghost: the
  requests whose CQEs were applied to a future.
* **EventLoop**: `run_once` as a program counter over the calls it makes, with
  asyncio's queue and timers, the eventfd and another thread. Time is relative
  (ticks until a timer is due).
* **FixedBuffers**: `buffer_index.c`, the stack of fixed-buffer indices, as
  operators on a registry value.
* **ExecContext**: the four context managers over the contextvar, what entering
  and leaving them does to the kernel's fixed buffers, buffer groups and rings
  (`buffer_modes.c`), and the reads and receives made in them. `token` is what a
  manager's exit restores, `nest` the with blocks of each task, `registered` the
  manager whose buffers `io_uring_register_buffers` took, `group` what is left of
  each buffer group. `buf_idx` is one field for all requests of a payload, as in
  `BufferPayload`. The ghost `memory` says whose data is in the first buffer of a
  payload, the one the reader copies from; `base` is the context a task
  inherited. A failed request and its exception are one step, since the error
  path touches neither indices nor buffers.
* **Handles**: File and Socket objects (`fd`, `closed`) against the process's
  descriptor table `kfd`, in which the kernel gives the lowest free number to
  the next open, socket or accept. An open or close is a request with three
  steps: the call, the kernel's work, the reader's. A method call other than
  these changes nothing here; `Accepts` is the check they all begin with.
  `Lost` marks a descriptor no object knows any more. `Liberties` names what the
  program or the kernel does besides, each a guard: see the table in section 3.
* **RegistryProofs**, **RequestsProofs**, **EventLoopProofs**,
  **ExecContextProofs**, **HandlesProofs**: theorems about the module of that
  name. **MCRegistry**, **MCRequests**, **MCEventLoop**, **MCExecContext**,
  **MCHandles**: instances.

`Operations` fixes a context per request for the life cycle in `Requests`;
`ExecContext` explains where that context comes from and which memory its
payload stands for; `Handles` leaves slots and futures to `Requests`.

Atomicity: the extension runs in the loop's thread with the GIL held, and an API
call runs no Python code between registering and returning, so calls, the
handling of one CQE and shutdown steps are atomic with respect to each other.
The kernel acts between any two of them. In `EventLoop` a step ends where Python
code can run (`time()`, callbacks), because another thread can run there.

Data that is abstracted: contents and sizes of buffers, descriptors and
addresses, the wording of errors; a result is "ok", "error" or "etime". Failed
allocations are left out.

A definition with a suffix such as `registry_add_NoPop` is a mutant: the
definition it precedes as a plausible bug would leave it. `PROJECT.json` names
the property each one breaks; no specification uses it.

## 3. Runs

Passing:

| Run | Shows |
|---|---|
| `registry` | 4 slots, 5 futures: partition, no abort, refinement of IndexPool |
| `requests` | 2 slots, 3 futures, one operation of each kind of slot (`recvfrom`, with a payload and a message header, and the timer): own completions, registration while in flight, buffers and headers live while the kernel uses them, the reader finds the buffer it copies from, payload accounting, no abort, with cancellation and close anywhere; a posted completion resolves its future and close ends |
| `methods` | every method in the four buffer modes, 2 futures: own completions, registration while in flight, and payloads, the shared one of a context as well, that live while the kernel uses them (`BufferLive` says nothing of headers); the `readv` that crashes is among them, up to the crash |
| `faults` | failing submits, full submission queue, required timeouts, multishot requests and unprepared SQEs: no slot is lost, the free stack stays sound |
| `contexts` | two tasks, three programs of three managers, three requests, with calls that fail: settings nest per task and survive contexts that cannot be entered; the kernel's fixed buffers are those of the one FIXED context entered; requests that share a payload return their own data; the index stack stays in its array, also for completions read after the context was left |
| `handles` | one file, two sockets (one may be accepted), two descriptors, three requests: `AcceptsOwn`, `NoStrayFd`, `ClosesOwn` with numbers reused at once, and a closed handle's descriptor is released |
| `event_loop` | two handles of the loop's thread and one of another, `stop` before `run_forever` or from a callback: no sleep on its own ready work or a stop, never past a timer, drain_ready in bounds; completions, ready handles and timers get their turn |

Violations, each a place where the code does not do what the repository says
(`findings` quotes the line):

| Run | Property | What happens |
|---|---|---|
| `linked_timeout` | AnsweredByOwn | the timeout's CQE carries an old `user_data` |
| `close_order` | MemoryOutlivesKernel | payloads are freed before the ring goes down |
| `wakeup` | WriteWakes | the wakeup read is not armed again |
| `provided` | ReadsOwnData | the second request of a PROVIDED context of two buffers returns the data of the first |
| `exit_after_close` | ClosesOwn | `__aexit__` closes the number of a file its block has closed |

The same models show more of the same kind when their constants are widened; the
passing runs leave it out:

* `MCLinkedTimeout.cfg` with other constants: `BufferLive` fails with
  `SubmitMayFail` (a failed submit frees the payload and leaves the SQE queued)
  and with a zero-copy send (the first CQE frees the buffer before the
  notification); `NeverAborts` fails with a multishot accept (a stray CQE during
  the drain of the shutdown calls `abort()`), and so does `AnsweredByOwn` (a later
  CQE resolves whoever reused the index) and with `prep_socket` of an unsupported
  domain (its unprepared SQE goes out with an old `user_data`);
  `PayloadAccounting` fails with `sendto` (its payload is never freed) and with
  two requests of one context in flight when the loop closes (registry_destroy
  frees the shared payload twice).
* `MemoryLive` fails with `recvmsg`, in one call: `uringio_recvmsg`
  (`ops/sockets/sockets.c:328`, `:347`) gives the kernel a `struct msghdr` of its
  own stack frame, which the kernel writes when the message comes, after the
  function has returned. The `msghdr` on the heap that `UringioSocket_recvmsg`
  puts in the slot is not passed on. It goes against `docs/ARCHITECTURE.md:33`, as
  `close_order` does.
* `ReaderSurvives` fails with `readv` in a PROVIDED or BUF_RING context, whose slot
  holds the context's linear payload: the reader goes through its vector, which is
  NULL (`reader/on_ready.c:68-74`), when the read succeeds. It fails with `recvmsg`
  in a MULTISHOT context, whose payload is a vector that the reader takes for a
  linear buffer.
* The header that `recvmsg` puts on the heap leaks when the registry is full, and
  so does that of any request registry_destroy finds in its slot: `msghdr` stays
  "live" there. No property says that it should not.
* `CloseCompletes` is checked for one-shot requests. The drain ends
  when 100 ms pass without a CQE, so a multishot request that completes more often
  keeps the loop from closing; `MaxShots` would hide that.
* `EventLoop`: a callback another thread schedules while the loop sleeps waits
  until the sleep ends, since the loop sleeps with the GIL held; `ReadyRuns` shows
  that it runs then.
* `ExecContext`: `RegistrationMatches` fails for an `ExecutionContext` manager of
  mode FIXED, whose exit only resets the contextvar. `ReadsOwnData` also fails for
  two BUF_RING contexts at a time: their groups all have the number 0.
  In a FIXED context of two buffers the first read gets index 1 with the address
  of buffer 0, which the kernel refuses, and the index is not given back: the
  context serves one read at a time, with index 0. `ReadsOwnData` holds because
  of that refusal.
* `Handles`, by liberty:

| `Liberties` | What fails |
|---|---|
| `"overlap"` | `AcceptsOwn`, `ClosesOwn`: a file is marked closed by the reader, so a method called during its close uses a number that is free or another's |
| `"exit after close"` | the same, by `__aexit__`, for files and sockets |
| `"close fails"` | `AcceptsOwn`, `ClosesOwn` (a file whose close released its number and reported an error stays open), `CloseReleases` (a socket whose close was not done stays closed) |
| `"submit fails"` | `AcceptsOwn`, `ClosesOwn`: the SQE of a close that was reported as failed is sent later |

`NoStrayFd` holds under all of them (section 4): a descriptor is lost only by
cancelling the future of an open or by dropping an object that was not closed,
because dealloc closes nothing.

**Bounds.** `Size` 2 with three futures fills the registry and reuses an index
while another is in flight. `SQEntries` 3 (two are used by signals and the
wakeup read at start) wraps the ring at once, so entries are reused. `CQEntries`
1 or 2 makes the kernel hold completions back. `MaxShots` 2 is the first number
with a stray CQE. In `EventLoop` a second is two ticks and the longest wait four,
so a delay of 1 is below a second, 3 and 5 are no whole seconds, and 5 and 7 are
beyond the longest wait; `MaxLate` bounds how late callbacks make a timer. In `ExecContext` three requests are the first number with an index held, one refused
and a later one that meets what was given back; the programs hold two FIXED
contexts of different size, and a buffer group of one buffer, the most for
which the reader's choice of buffer is right. Two descriptors for three handles make
every number be reused. Symmetry over futures or requests is used only in runs
without liveness. Deadlock is not checked in the
runs of `Requests` and `ExecContext`: a closed loop stops, and futures, managers
and requests are used once.

**Fairness.** `Requests!FairSpec`: the reader runs whenever a completion is there
(`run_once` always calls it) and the shutdown, a plain loop in C, runs to its
end; nothing is owed by the kernel or the program. `EventLoop!FairSpec`:
`run_once` goes on, callbacks return, and time passes in a loop that waits again
and again (strong fairness, since each single wait may be zero); the kernel and
the other thread owe nothing. `Handles!FairSpec`: the kernel does a close it was
sent and the reader reads completions; opens (an accept may wait for ever) and
the program owe nothing.

## 4. Proofs

Every invariant that a passing run checks, one action property and the refinement
are theorems, for every value of the constants: any number of slots, ring
entries, requests, tasks, managers, handles, descriptors and any delays. The
assumptions on constants are the named ones of the modules; the runs evaluate
them. Some theorems have a hypothesis that restricts them to the programs for
which the code keeps its promise; each is a definition of its proof module, the
passing runs satisfy it, and section 3 says what happens without it.

**Registry** (`RegistryKeepsType`, `RegistryPartitions`, `RegistryNeverAborts`).
The partition is inductive only together with the type: the guard of
`registry_remove` is passed because an occupied slot leaves room on the stack
(`OccupiedHasRoom`, by the pigeonhole principle), and the pushed index is not on
the stack because its slot has a future. `RegistryImplementsPool`: every step is
an acquire, a release or a stutter of `IndexPool`.

**Requests**, with every operation, fault and stray completion:

* `RequestsTypeOK`; `OpenPartitionHolds`: the reader removes only slots with a
  future, a failing call removes the index it has just been given;
* `NoSlotIsLost`: the CQE a slot waits for leaves the queue only when the reader
  frees that slot, and a failed call frees its own slot before it returns.

Under `OneShot` (one CQE per request, no linked timeouts, submits succeed, any
buffer mode, shared payloads too): `FuturesAnsweredByOwn`, `InFlightIsOwned`,
`BuffersStayLive`, `ShutdownNeverAborts`, with `SlotHeaders` (the kernel writes no
header but that of the slot) `MemoryStaysLive`, and with `OwnPayloads` (payloads are in
the slot of their request and not shared) `PayloadsAccounted`. The inductive
invariant `IInv` adds that the submission queue is empty between calls, that every
occupied slot waits for exactly one SQE or CQE, that no future is in two slots,
that the context's payload and the header in an occupied slot are alive, and that
a live payload belongs to a registered future. `ReaderStaysUp` needs `OwnHalves`
alone (an operation's payload has the half its case reads). `MethodsAnswered`:
every awaitable method in the oneshot contexts of the four buffer modes satisfies
`OneShot` (`MethodsOneShot`, which expands the whole of `Operations`), so its
completions are its own and its payload is kept. `MethodsKeepMemory`: the methods
of `SoundOps` satisfy `SlotHeaders` and `OwnHalves` as well (`SoundOpsMemory`), so
all their memory is kept and the reader survives; section 3 says what `recvmsg`
and `readv` in a mode that selects buffers do instead.

**Event loop** (`LoopTypeOK`, `LoopNeverOversleeps`, `LoopNoSleepOnOwn`,
`LoopDrainInBounds`), with no hypotheses. `LoopInv` carries through the steps of
`run_once` what `compute_timeout` saw: from then until the wait no handle of the
loop's own thread becomes ready (`NothingOwn`), and the timeout it computed is at
most what remains of each timer.

**Contexts**:

* `ContextsNest`, with no hypotheses. `Nested` is the invariant: the context of a
  task is what its with blocks make of its base (`ContextAt`), and the token of
  each block keeps what the blocks around it make. A manager is in one block of
  one task (`NestOK`), so no other task's enter or exit touches a token in use.
* `RegistrationFollowsContexts`, under `NoFixedExecution` (no `ExecutionContext`
  manager has FIXED buffers, since its exit does not unregister them).
* `ContextsTypeOK` and `PoolStaysSound`, with no hypotheses. The invariant
  explains why one `buf_idx` per payload is enough for the stack: the free
  indices are 0 to `top` in order, or a single -1 (`Pool`); requests hold
  indices above the top, each once; only the request with index 0 can be done,
  when the stack is empty, and `buf_idx` is then 0 or -1 (`LastTaken`).
* `RequestsReadOwnData`, under `OneBufferGroups` (buffer groups of one buffer, at
  most one buffer ring; fixed and own buffers without restriction): a buffer that
  a request is done with is not written before its completion is read.

**Handles**: `HandlesTypeOK` and `NoFdGoesAstray` under every liberty;
`HandlesActOnTheirOwn` and the action property `HandlesCloseTheirOwn` under `Strict`
(no liberties). `OwnInv` says that the number in a close in flight is still its
handle's, that a handle has one open or close in flight, and that an open handle
owns the number it has unless the kernel's close of it waits for the reader.

**Only model-checked**: liveness (`Delivered`, `CloseCompletes`, `CompletionRead`,
`ReadyRuns`, `TimerRuns`, `CloseReleases`), which needs fairness and `ENABLED`; the
violations, which are about instances.

## 5. Not modelled, and the plan

Next: what can be said of `Requests` between `OneShot` and all faults, in
particular `InFlightOwned` with failing submits and `BufferLive` with linked
timeouts; an abstract specification of a with statement that `ExecContext` refines.

Not modelled, and why:

* Entering a manager twice: the second enter of a FIXED manager reads a NULL
  vector and that of an `ExecutionContext` a context that was freed.
* A receive in a FIXED context, which the user guide excludes, and multishot reads
  and receives in `ExecContext` (their CQEs are in `Requests`).
* The memory an unprepared SQE makes the kernel use again (no property that is
  checked with such SQEs is about memory), and the addresses and paths in a slot.
* `provide_buffers` and `remove_buffers` as requests: they are sent with an old
  `user_data`, as linked timeouts are.
* Handles across the closing of the loop: `__aexit__` checks neither the thread nor
  whether the loop is closed.
* Signals: the user_data of the poll is a pointer, and the reader's branch for it
  is never taken. Construction failures of the loop and dealloc.
* The conversion of CQE results to Python objects, Python's error indicator and
  reference counts, allocation failures. Enums, type stubs, benchmarks and
  build files have no state.

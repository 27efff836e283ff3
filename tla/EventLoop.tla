----------------------------- MODULE EventLoop -----------------------------
(***************************************************************************)
(* UringioLoop._run_once: compute how long to wait, wait for a completion  *)
(* or the timeout, let the reader handle the completions, move the timers  *)
(* that are due to the ready queue and run what was ready at that point.   *)
(* Callbacks call back into the loop (call_soon, call_later, cancel, stop, *)
(* an awaited request); another thread may use call_soon_threadsafe.       *)
(*                                                                         *)
(* The loop never releases the GIL around the wait, so the other thread    *)
(* runs only while the loop's thread executes Python code.  Time is kept   *)
(* relative to now, in ticks; it passes in the wait, however short, and    *)
(* while a callback runs.                                                  *)
(***************************************************************************)
EXTENDS Integers, Sequences

CONSTANTS Handle,        \* the callbacks
          ThreadHandle,  \* those another thread passes to call_soon_threadsafe
          Second,        \* ticks of a second: timeouts are truncated to seconds
          MaxWait,       \* the longest wait, in ticks (86400 seconds in the program)
          Delays,        \* the delays passed to call_later, in ticks
          MaxLate        \* bound: how late callbacks make a timer

ASSUME LoopAssumption == /\ Second \in Nat \ {0} /\ MaxWait \in Nat /\ MaxLate \in Nat
                         /\ MaxWait % Second = 0
                         /\ Delays \subseteq Nat /\ ThreadHandle \subseteq Handle

VARIABLES pc,         \* where run_once is
          ready,      \* _ready, a deque
          remaining,  \* of a timer in _scheduled: ticks until its _when
          where,      \* of each handle
          cancelled,  \* the handles whose _cancelled is set
          stopping,   \* _stopping
          left,       \* ticks the wait still lasts
          ntodo,      \* handles drain_ready has still to run
          cq,         \* completions: the handle a future wakes, or "wakeup"
          armed,      \* the wakeup read is in the ring
          efd,        \* the eventfd's counter is not zero
          thread      \* the other thread: "idle" or about to "write" to the eventfd

vars == <<pc, ready, remaining, where, cancelled, stopping, left, ntodo, cq, armed, efd, thread>>
loopVars == <<pc, left, ntodo>>
wakeVars == <<armed, efd, thread>>

Scheduled == {h \in Handle : where[h] = "scheduled"}

\* UringioLoop_init: the eventfd is empty and the wakeup read submitted.
Init ==
  /\ pc = "stopped" /\ ready = << >> /\ remaining = [h \in Handle |-> 0]
  /\ where = [h \in Handle |-> "idle"] /\ cancelled = {} /\ stopping = FALSE
  /\ left = 0 /\ ntodo = 0 /\ cq = << >> /\ armed = TRUE /\ efd = FALSE /\ thread = "idle"
-----------------------------------------------------------------------------
(* run_once *)

\* Mutant: what is ready is looked at only when no timer is scheduled.
compute_timeout_TimersFirst ==
  /\ pc = "start"
  /\ \/ /\ (ready # << >> \/ stopping) /\ Scheduled = {}
        /\ pc' = "wait" /\ left' = 0
     \/ /\ ready = << >> /\ ~stopping /\ Scheduled = {}
        /\ pc' = "wait" /\ left' = MaxWait
     \/ /\ Scheduled # {}
        /\ pc' = "time" /\ left' = 0
  /\ UNCHANGED <<ready, remaining, where, cancelled, stopping, ntodo, cq, wakeVars>>

\* compute_timeout up to the call of time(), which is Python code: the other
\* thread can run between the look at _ready and the wait.
compute_timeout ==
  /\ pc = "start"
  /\ \/ /\ ready # << >> \/ stopping
        /\ pc' = "wait" /\ left' = 0
     \/ /\ ready = << >> /\ ~stopping /\ Scheduled = {}
        /\ pc' = "wait" /\ left' = MaxWait
     \/ /\ ready = << >> /\ ~stopping /\ Scheduled # {}
        /\ pc' = "time" /\ left' = 0
  /\ UNCHANGED <<ready, remaining, where, cancelled, stopping, ntodo, cq, wakeVars>>

First(h) == h \in Scheduled /\ \A g \in Scheduled : remaining[h] <= remaining[g]

\* Mutant: no upper limit.
Clamped_NoCap(d) == IF d < 0 THEN 0 ELSE d

Clamped(d) == IF d < 0 THEN 0 ELSE IF d > MaxWait THEN MaxWait ELSE d

\* Mutant: the delay is rounded up to seconds.
Truncated_Up(d) == ((d + Second - 1) \div Second) * Second

\* tv_sec is the truncated delay and tv_nsec is always 0.
Truncated(d) == (d \div Second) * Second

compute_timeout_delay ==
  /\ pc = "time"
  /\ \E h \in Handle : First(h) /\ left' = Truncated(Clamped(remaining[h]))
  /\ pc' = "wait"
  /\ UNCHANGED <<ready, remaining, where, cancelled, stopping, ntodo, cq, wakeVars>>

\* io_uring_submit_and_wait_timeout returns.
wait ==
  /\ pc = "wait" /\ (cq # << >> \/ left = 0)
  /\ pc' = "read" /\ left' = 0
  /\ UNCHANGED <<ready, remaining, where, cancelled, stopping, ntodo, cq, wakeVars>>

\* The reader: set_result schedules the future's callback.  WAKEUP_FD_TAG is no
\* index, so registry_get finds no slot and the reader skips the completion
\* before it gets to the code that would read the eventfd and re-arm the read.
on_uring_ready ==
  /\ pc = "read"
  /\ \/ /\ cq # << >> /\ Head(cq) \in Handle
        /\ ready' = Append(ready, Head(cq))
        /\ where' = [where EXCEPT ![Head(cq)] = "ready"]
        /\ cq' = Tail(cq) /\ UNCHANGED pc
     \/ /\ cq # << >> /\ Head(cq) = "wakeup"
        /\ cq' = Tail(cq) /\ UNCHANGED <<ready, where, pc>>
     \/ /\ cq = << >> /\ pc' = "promote" /\ UNCHANGED <<ready, where, cq>>
  /\ UNCHANGED <<remaining, cancelled, stopping, left, ntodo, wakeVars>>

IsDue(h) == First(h) /\ remaining[h] <= 0

\* Mutant: timers are looked at only when nothing else is ready.
promote_scheduled_IfIdle ==
  /\ pc = "promote"
  /\ \/ \E h \in Handle :
          /\ IsDue(h) /\ ready = << >>
          /\ ready' = Append(ready, h)
          /\ where' = [where EXCEPT ![h] = "ready"]
          /\ remaining' = [remaining EXCEPT ![h] = 0]
          /\ UNCHANGED <<pc, ntodo>>
     \/ /\ (\A h \in Handle : ~IsDue(h)) \/ ready # << >>
        /\ pc' = "drain" /\ ntodo' = Len(ready)
        /\ UNCHANGED <<ready, where, remaining>>
  /\ UNCHANGED <<cancelled, stopping, left, cq, wakeVars>>

\* promote_scheduled pops the timers that are due, earliest first; then
\* drain_ready takes the number of ready handles.
promote_scheduled ==
  /\ pc = "promote"
  /\ \/ \E h \in Handle :
          /\ IsDue(h)
          /\ ready' = Append(ready, h)
          /\ where' = [where EXCEPT ![h] = "ready"]
          /\ remaining' = [remaining EXCEPT ![h] = 0]
          /\ UNCHANGED <<pc, ntodo>>
     \/ /\ \A h \in Handle : ~IsDue(h)
        /\ pc' = "drain" /\ ntodo' = Len(ready)
        /\ UNCHANGED <<ready, where, remaining>>
  /\ UNCHANGED <<cancelled, stopping, left, cq, wakeVars>>

Popped(h) == [where EXCEPT ![h] = "idle"]

\* Mutant: drain_ready runs handles until none is ready.
drain_ready_UntilEmpty ==
  /\ pc = "drain"
  /\ \/ /\ ready # << >> /\ Head(ready) \in cancelled
        /\ cancelled' = cancelled \ {Head(ready)}
        /\ ready' = Tail(ready) /\ where' = Popped(Head(ready))
        /\ UNCHANGED <<pc, ntodo, stopping>>
     \/ /\ ready # << >> /\ Head(ready) \notin cancelled
        /\ pc' = "callback"
        /\ ready' = Tail(ready) /\ where' = Popped(Head(ready))
        /\ UNCHANGED <<cancelled, ntodo, stopping>>
     \/ /\ ready = << >>
        /\ pc' = (IF stopping THEN "stopped" ELSE "start") /\ stopping' = FALSE
        /\ UNCHANGED <<ready, where, cancelled, ntodo>>
  /\ UNCHANGED <<remaining, left, cq, wakeVars>>

\* Mutant: a cancelled handle is not counted.
drain_ready_CancelledNotCounted ==
  /\ pc = "drain"
  /\ \/ /\ ntodo > 0 /\ Head(ready) \in cancelled
        /\ cancelled' = cancelled \ {Head(ready)}
        /\ ready' = Tail(ready) /\ where' = Popped(Head(ready))
        /\ UNCHANGED <<pc, ntodo, stopping>>
     \/ /\ ntodo > 0 /\ Head(ready) \notin cancelled
        /\ pc' = "callback"
        /\ ready' = Tail(ready) /\ where' = Popped(Head(ready)) /\ ntodo' = ntodo - 1
        /\ UNCHANGED <<cancelled, stopping>>
     \/ /\ ntodo = 0
        /\ pc' = (IF stopping THEN "stopped" ELSE "start") /\ stopping' = FALSE
        /\ UNCHANGED <<ready, where, cancelled, ntodo>>
  /\ UNCHANGED <<remaining, left, cq, wakeVars>>

\* Mutant: the last handle is popped instead of the first.
drain_ready_Lifo ==
  /\ pc = "drain"
  /\ \/ /\ ntodo > 0 /\ ready[Len(ready)] \in cancelled
        /\ cancelled' = cancelled \ {ready[Len(ready)]}
        /\ ready' = SubSeq(ready, 1, Len(ready) - 1) /\ where' = Popped(ready[Len(ready)]) /\ ntodo' = ntodo - 1
        /\ UNCHANGED <<pc, stopping>>
     \/ /\ ntodo > 0 /\ ready[Len(ready)] \notin cancelled
        /\ pc' = "callback"
        /\ ready' = SubSeq(ready, 1, Len(ready) - 1) /\ where' = Popped(ready[Len(ready)]) /\ ntodo' = ntodo - 1
        /\ UNCHANGED <<cancelled, stopping>>
     \/ /\ ntodo = 0
        /\ pc' = (IF stopping THEN "stopped" ELSE "start") /\ stopping' = FALSE
        /\ UNCHANGED <<ready, where, cancelled, ntodo>>
  /\ UNCHANGED <<remaining, left, cq, wakeVars>>

\* drain_ready pops as many handles as were ready at its start, skips the
\* cancelled ones and runs the others; then run_forever looks at _stopping and,
\* leaving, resets it.
drain_ready ==
  /\ pc = "drain"
  /\ \/ /\ ntodo > 0 /\ Head(ready) \in cancelled
        /\ cancelled' = cancelled \ {Head(ready)}
        /\ ready' = Tail(ready) /\ where' = Popped(Head(ready)) /\ ntodo' = ntodo - 1
        /\ UNCHANGED <<pc, stopping>>
     \/ /\ ntodo > 0 /\ Head(ready) \notin cancelled
        /\ pc' = "callback"
        /\ ready' = Tail(ready) /\ where' = Popped(Head(ready)) /\ ntodo' = ntodo - 1
        /\ UNCHANGED <<cancelled, stopping>>
     \/ /\ ntodo = 0
        /\ pc' = (IF stopping THEN "stopped" ELSE "start") /\ stopping' = FALSE
        /\ UNCHANGED <<ready, where, cancelled, ntodo>>
  /\ UNCHANGED <<remaining, left, cq, wakeVars>>
-----------------------------------------------------------------------------
(* The program: a callback, or code outside the loop before run_forever.   *)

Mine == Handle \ ThreadHandle

call_soon(g) ==
  /\ pc \in {"callback", "stopped"} /\ where[g] = "idle"
  /\ where' = [where EXCEPT ![g] = "ready"] /\ ready' = Append(ready, g)
  /\ UNCHANGED <<loopVars, remaining, cancelled, stopping, cq, wakeVars>>

call_later(g, d) ==
  /\ pc = "callback" /\ where[g] = "idle"
  /\ where' = [where EXCEPT ![g] = "scheduled"]
  /\ remaining' = [remaining EXCEPT ![g] = d]
  /\ UNCHANGED <<loopVars, ready, cancelled, stopping, cq, wakeVars>>

\* The callback awaits a request: the handle is the one its completion wakes.
await_request(g) ==
  /\ pc = "callback" /\ where[g] = "idle"
  /\ where' = [where EXCEPT ![g] = "kernel"]
  /\ UNCHANGED <<loopVars, ready, remaining, cancelled, stopping, cq, wakeVars>>

cancel(g) ==
  /\ pc = "callback" /\ where[g] \in {"ready", "scheduled"} /\ g \notin cancelled
  /\ cancelled' = cancelled \cup {g}
  /\ UNCHANGED <<loopVars, ready, remaining, where, stopping, cq, wakeVars>>

\* Called before run_forever, it ends the first turn.
stop ==
  /\ pc \in {"callback", "stopped"} /\ ~stopping
  /\ stopping' = TRUE
  /\ UNCHANGED <<loopVars, ready, remaining, where, cancelled, cq, wakeVars>>

callback_returns ==
  /\ pc = "callback" /\ pc' = "drain"
  /\ UNCHANGED <<left, ntodo, ready, remaining, where, cancelled, stopping, cq, wakeVars>>

run_forever ==
  /\ pc = "stopped" /\ pc' = "start"
  /\ UNCHANGED <<left, ntodo, ready, remaining, where, cancelled, stopping, cq, wakeVars>>

Program == \/ \E g \in Mine : call_soon(g) \/ await_request(g) \/ cancel(g)
           \/ \E g \in Mine, d \in Delays : call_later(g, d)
           \/ stop \/ callback_returns \/ run_forever
-----------------------------------------------------------------------------
(* Time, the kernel and the other thread *)

Tick ==
  /\ \A h \in Scheduled : remaining[h] > -MaxLate
  /\ \/ pc = "wait" /\ left' = (IF left > 0 THEN left - 1 ELSE 0)
     \/ pc = "callback" /\ UNCHANGED left
  /\ remaining' = [h \in Handle |-> IF h \in Scheduled THEN remaining[h] - 1 ELSE 0]
  /\ UNCHANGED <<pc, ready, where, cancelled, stopping, ntodo, cq, wakeVars>>

\* The kernel completes a request.
kernel_completes(h) ==
  /\ where[h] = "kernel"
  /\ where' = [where EXCEPT ![h] = "cqe"] /\ cq' = Append(cq, h)
  /\ UNCHANGED <<loopVars, ready, remaining, cancelled, stopping, wakeVars>>

\* The kernel completes the wakeup read once the eventfd was written, and resets
\* the counter.
kernel_wakeup ==
  /\ armed /\ efd
  /\ armed' = FALSE /\ efd' = FALSE /\ cq' = Append(cq, "wakeup")
  /\ UNCHANGED <<loopVars, ready, remaining, where, cancelled, stopping, thread>>

\* The other thread needs the GIL, which the loop's thread keeps while it waits.
GilAvailable == pc # "wait"

\* call_soon_threadsafe: append to _ready, then UringioLoop_write_to_self.
call_soon_threadsafe(h) ==
  /\ GilAvailable /\ thread = "idle" /\ where[h] = "idle"
  /\ ready' = Append(ready, h) /\ where' = [where EXCEPT ![h] = "ready"]
  /\ thread' = "write"
  /\ UNCHANGED <<loopVars, remaining, cancelled, stopping, cq, armed, efd>>

write_to_self ==
  /\ GilAvailable /\ thread = "write"
  /\ efd' = TRUE /\ thread' = "idle"
  /\ UNCHANGED <<loopVars, ready, remaining, where, cancelled, stopping, cq, armed>>

run_once == \/ compute_timeout \/ compute_timeout_delay \/ wait \/ on_uring_ready
            \/ promote_scheduled \/ drain_ready

Next ==
  \/ run_once \/ Program \/ Tick
  \/ \E h \in Handle : kernel_completes(h)
  \/ kernel_wakeup
  \/ \E h \in ThreadHandle : call_soon_threadsafe(h)
  \/ write_to_self

Spec == Init /\ [][Next]_vars

\* The loop's thread keeps running run_once, callbacks return, and time passes
\* if the loop waits again and again.  The kernel and the other thread owe nothing.
FairSpec == /\ Spec
            /\ WF_vars(run_once) /\ WF_vars(callback_returns) /\ SF_vars(pc = "wait" /\ Tick)
-----------------------------------------------------------------------------
\* The type invariant; the queue, the timers and the completions each hold the
\* handles that where says they hold.
TypeOK ==
  /\ pc \in {"stopped", "start", "time", "wait", "read", "promote", "drain", "callback"}
  /\ ready \in Seq(Handle)
  /\ remaining \in [Handle -> Int]
  /\ where \in [Handle -> {"idle", "ready", "scheduled", "kernel", "cqe"}]
  /\ cancelled \subseteq Handle /\ stopping \in BOOLEAN
  /\ left \in 0 .. MaxWait /\ ntodo \in Nat
  /\ cq \in Seq(Handle \cup {"wakeup"})
  /\ armed \in BOOLEAN /\ efd \in BOOLEAN /\ thread \in {"idle", "write"}

\* Nothing that happened can end the wait before its time.
Asleep == pc = "wait" /\ left > 0 /\ cq = << >> /\ ~(armed /\ efd)

\* The loop does not sleep on what its own thread left for it, a ready callback
\* or a stop: compute_timeout sees all that was scheduled before the wait, and
\* nothing the thread does comes after its look at _ready.
NoSleepOnOwn == Asleep => ~stopping /\ \A n \in 1 .. Len(ready) : ready[n] \notin Mine

\* The byte another thread writes ends the wait: the read that waits for it is
\* in the ring.
WriteWakes == pc = "wait" /\ left > 0 /\ cq = << >> /\ efd => armed

\* The wait ends before the first timer is due, whatever the callbacks made of
\* the schedule: truncation to seconds makes the loop wake early, never late.
NeverOversleeps == pc = "wait" /\ left > 0 => \A h \in Scheduled : left <= remaining[h]

\* drain_ready never finds the ready queue shorter than it counted.
DrainInBounds == pc \in {"drain", "callback"} => ntodo <= Len(ready)

\* A completion is read although callbacks keep scheduling callbacks.
CompletionRead == \A h \in Handle : (where[h] = "cqe") ~> (where[h] # "cqe" \/ pc = "stopped")

\* A ready handle gets its turn unless the loop is stopped: drain_ready takes
\* the queue in order, so handles that schedule each other starve no other.
ReadyRuns == \A h \in Handle : (where[h] = "ready") ~> (where[h] # "ready" \/ pc = "stopped")

\* A timer leaves the schedule unless the loop is stopped: promote_scheduled
\* looks at the timers in every turn, however busy the ready queue is.
TimerRuns == \A h \in Handle : (where[h] = "scheduled") ~> (where[h] # "scheduled" \/ pc = "stopped")
=============================================================================

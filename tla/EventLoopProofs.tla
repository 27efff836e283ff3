-------------------------- MODULE EventLoopProofs --------------------------
(***************************************************************************)
(* Proofs about run_once for any callbacks, delays, tick length and        *)
(* longest wait, with another thread interfering.                          *)
(***************************************************************************)
EXTENDS EventLoop, TLAPS

\* Truncation to seconds never lengthens a wait.
LEMMA TruncatedBelow ==
  ASSUME NEW d \in Nat
  PROVE  Truncated(d) \in Nat /\ Truncated(d) <= d
<1> USE LoopAssumption
<1>1. PICK q \in Int : q = d \div Second
  OBVIOUS
<1>2. q * Second <= d /\ q >= 0
  BY <1>1
<1> QED
  BY <1>1, <1>2 DEF Truncated

\* A wait for a timer is no longer than the timer has left, and within bounds.
LEMMA DelayBounds ==
  ASSUME NEW d \in Int
  PROVE  LET w == Truncated(Clamped(d))
         IN  /\ w \in 0 .. MaxWait
             /\ w > 0 => w <= d
<1> USE LoopAssumption
<1>1. /\ Clamped(d) \in Nat /\ Clamped(d) <= MaxWait
      /\ Clamped(d) > 0 => Clamped(d) <= d
  BY DEF Clamped
<1> DEFINE c == Clamped(d)
<1>2. Truncated(c) \in Nat /\ Truncated(c) <= c
  BY <1>1, TruncatedBelow
<1> HIDE DEF c
<1> QED
  BY <1>1, <1>2 DEF c
-----------------------------------------------------------------------------
\* From compute_timeout's look at _ready to the end of a wait that may last,
\* there is no stop and nothing ready but what the other thread appended.
NothingOwn == pc = "time" \/ (pc = "wait" /\ left > 0) =>
  ~stopping /\ \A n \in 1 .. Len(ready) : ready[n] \notin Mine

\* The two halves of TypeOK: the flags, and everything else.
Flags == stopping \in BOOLEAN /\ armed \in BOOLEAN /\ efd \in BOOLEAN
Ranges ==
  /\ pc \in {"stopped", "start", "time", "wait", "read", "promote", "drain", "callback"}
  /\ ready \in Seq(Handle)
  /\ remaining \in [Handle -> Int]
  /\ where \in [Handle -> {"idle", "ready", "scheduled", "kernel", "cqe"}]
  /\ cancelled \subseteq Handle
  /\ left \in 0 .. MaxWait /\ ntodo \in Nat
  /\ cq \in Seq(Handle \cup {"wakeup"})
  /\ thread \in {"idle", "write"}

\* The flags only take values of flags.
LEMMA StepFlags == ASSUME Flags, [Next]_vars PROVE Flags'
<1> USE DEF Flags, wakeVars, loopVars
<1>1. CASE run_once
  <2>1. CASE drain_ready
    BY <2>1, Zenon DEF drain_ready
  <2> QED
    BY <1>1, <2>1, Zenon DEF run_once, compute_timeout, compute_timeout_delay, wait, on_uring_ready,
       promote_scheduled
<1>2. CASE Program
  BY <1>2, Zenon DEF Program, call_soon, await_request, cancel, call_later, stop, callback_returns,
     run_forever
<1>3. CASE Tick \/ kernel_wakeup \/ write_to_self
  BY <1>3, Zenon DEF Tick, kernel_wakeup, write_to_self
<1>4. ASSUME NEW h, kernel_completes(h) \/ call_soon_threadsafe(h) PROVE Flags'
  BY <1>4, Zenon DEF kernel_completes, call_soon_threadsafe
<1>5. CASE UNCHANGED vars
  BY <1>5, Zenon DEF vars
<1> QED
  BY <1>1, <1>2, <1>3, <1>4, <1>5 DEF Next

\* The inductive invariant.
LoopInv == Ranges /\ NothingOwn /\ NeverOversleeps /\ DrainInBounds

\* The loop starts in the invariant.
LEMMA InitLoopInv == Init => LoopInv /\ Flags
<1> SUFFICES ASSUME Init PROVE LoopInv /\ Flags
  OBVIOUS
<1> USE DEF Init
<1>1. Flags
  BY Zenon DEF Flags
<1>2. Ranges
  <2>1. remaining \in [Handle -> Int] /\ left \in 0 .. MaxWait /\ ntodo \in Nat
    BY LoopAssumption
  <2>2. where \in [Handle -> {"idle", "ready", "scheduled", "kernel", "cqe"}]
    OBVIOUS
  <2>3. ready \in Seq(Handle) /\ cq \in Seq(Handle \cup {"wakeup"})
    OBVIOUS
  <2> QED
    BY <2>1, <2>2, <2>3 DEF Ranges
<1> QED
  BY <1>1, <1>2 DEF LoopInv, NothingOwn, NeverOversleeps, DrainInBounds

\* The steps of run_once up to the wait.
LEMMA ComputeTimeoutInv ==
  ASSUME LoopInv, compute_timeout \/ compute_timeout_delay
  PROVE  LoopInv'
<1> USE DEF LoopInv, wakeVars
<1>1. CASE compute_timeout
  <2>1. Ranges'
    BY <1>1, LoopAssumption DEF compute_timeout, Ranges
  <2>2. NothingOwn'
    BY <1>1 DEF compute_timeout, Ranges, NothingOwn
  <2>3. NeverOversleeps' /\ DrainInBounds'
    BY <1>1 DEF compute_timeout, NeverOversleeps, DrainInBounds, Scheduled
  <2> QED
    BY <2>1, <2>2, <2>3
<1>2. CASE compute_timeout_delay
  <2>1. PICK h \in Handle : First(h) /\ left' = Truncated(Clamped(remaining[h]))
    BY <1>2 DEF compute_timeout_delay
  <2>2. remaining[h] \in Int /\ left' \in 0 .. MaxWait /\ (left' > 0 => left' <= remaining[h])
    BY <2>1, DelayBounds DEF Ranges
  <2>3. Ranges'
    BY <1>2, <2>2 DEF compute_timeout_delay, Ranges
  <2>4. NothingOwn' /\ DrainInBounds'
    BY <1>2 DEF compute_timeout_delay, NothingOwn, DrainInBounds, Mine
  <2>5. NeverOversleeps'
    BY <1>2, <2>1, <2>2, LoopAssumption
       DEF compute_timeout_delay, NeverOversleeps, First, Scheduled, Ranges
  <2> QED
    BY <2>3, <2>4, <2>5
<1> QED
  BY <1>1, <1>2

\* The steps of run_once from the wait to the callbacks.
LEMMA TurnInv ==
  ASSUME LoopInv, wait \/ on_uring_ready \/ promote_scheduled \/ drain_ready
  PROVE  LoopInv'
<1> USE DEF LoopInv, wakeVars
<1>1. CASE wait
  BY <1>1, LoopAssumption
     DEF wait, Ranges, NothingOwn, NeverOversleeps, DrainInBounds
<1>2. CASE on_uring_ready
  <2>1. Ranges'
    <3>1. cq # << >> => /\ Head(cq) \in Handle \cup {"wakeup"}
                        /\ Tail(cq) \in Seq(Handle \cup {"wakeup"})
      BY DEF Ranges
    <3>2. CASE cq # << >> /\ Head(cq) \in Handle /\ ready' = Append(ready, Head(cq))
               /\ where' = [where EXCEPT ![Head(cq)] = "ready"] /\ cq' = Tail(cq) /\ pc' = pc
      BY <1>2, <3>1, <3>2 DEF on_uring_ready, Ranges
    <3>3. CASE ready' = ready /\ where' = where
      <4>1. cq' \in Seq(Handle \cup {"wakeup"}) /\ pc' \in {"read", "promote"}
        BY <1>2, <3>1 DEF on_uring_ready, Ranges
      <4> QED
        BY <1>2, <3>3, <4>1 DEF on_uring_ready, Ranges
    <3> QED
      BY <1>2, <3>2, <3>3 DEF on_uring_ready
  <2> QED
    BY <1>2, <2>1 DEF on_uring_ready, NothingOwn, NeverOversleeps, DrainInBounds
<1>3. CASE promote_scheduled
  <2>1. pc' \in {"promote", "drain"} /\ (pc' = "drain" => ntodo' = Len(ready'))
    BY <1>3 DEF promote_scheduled
  <2>2. Ranges'
    <3>1. ASSUME NEW h \in Handle, ready' = Append(ready, h), pc' = pc, ntodo' = ntodo,
                 where' = [where EXCEPT ![h] = "ready"], remaining' = [remaining EXCEPT ![h] = 0]
          PROVE  Ranges'
      BY <1>3, <3>1 DEF promote_scheduled, Ranges
    <3>2. CASE UNCHANGED <<ready, where, remaining>> /\ pc' = "drain" /\ ntodo' = Len(ready)
      BY <1>3, <3>2 DEF promote_scheduled, Ranges
    <3> QED
      BY <1>3, <3>1, <3>2 DEF promote_scheduled
  <2> QED
    BY <2>1, <2>2 DEF NothingOwn, NeverOversleeps, DrainInBounds, Ranges
<1>4. CASE drain_ready
  <2>1. pc = "drain" /\ pc' \in {"drain", "callback", "start", "stopped"}
    BY <1>4 DEF drain_ready
  <2>2. CASE ntodo > 0
    <3>1. /\ ready \in Seq(Handle) /\ Len(ready) > 0 /\ ready # << >>
          /\ Head(ready) \in Handle /\ Tail(ready) \in Seq(Handle)
          /\ Len(Tail(ready)) = Len(ready) - 1
      BY <2>1, <2>2 DEF Ranges, DrainInBounds
    <3>2. ready' = Tail(ready) /\ ntodo' = ntodo - 1 /\ where' = Popped(Head(ready))
      BY <1>4, <2>2 DEF drain_ready
    <3>3. /\ cancelled' \subseteq Handle
          /\ UNCHANGED <<remaining, left, cq, thread>>
      BY <1>4, <2>2 DEF drain_ready, Ranges
    <3>4. ntodo' \in Nat /\ where' \in [Handle -> {"idle", "ready", "scheduled", "kernel", "cqe"}]
      BY <2>2, <3>1, <3>2 DEF Ranges, Popped
    <3>5. Ranges'
      BY <2>1, <3>1, <3>2, <3>3, <3>4 DEF Ranges
    <3>6. NothingOwn' /\ NeverOversleeps'
      BY <2>1 DEF NothingOwn, NeverOversleeps
    <3>7. Len(ready') = Len(ready) - 1 /\ ntodo <= Len(ready) /\ ntodo' = ntodo - 1
      BY <2>1, <3>1, <3>2 DEF DrainInBounds
    <3>8. ntodo' <= Len(ready')
      BY <2>2, <3>1, <3>7 DEF Ranges
    <3> QED
      BY <3>5, <3>6, <3>8 DEF DrainInBounds
  <2>3. CASE ntodo = 0
    <3>1. /\ pc' \in {"start", "stopped"}
          /\ UNCHANGED <<ready, where, cancelled, ntodo, remaining, left, cq, thread>>
      BY <1>4, <2>3 DEF drain_ready, Ranges
    <3>2. Ranges'
      BY <3>1 DEF Ranges
    <3> QED
      BY <3>1, <3>2 DEF NothingOwn, NeverOversleeps, DrainInBounds
  <2> QED
    BY <2>2, <2>3 DEF Ranges
<1> QED
  BY <1>1, <1>2, <1>3, <1>4

\* What the program does in a callback, or before it runs the loop.
LEMMA ProgramInv == ASSUME LoopInv, Program PROVE LoopInv'
<1> USE DEF LoopInv, wakeVars, loopVars
<1>1. pc \in {"callback", "stopped"} /\ pc' \in {"callback", "stopped", "drain", "start"}
  BY DEF Program, call_soon, await_request, cancel, call_later, stop, callback_returns, run_forever
<1>2. NothingOwn' /\ NeverOversleeps'
  BY <1>1 DEF NothingOwn, NeverOversleeps
<1>3. ASSUME NEW g \in Mine, call_soon(g) PROVE Ranges' /\ DrainInBounds'
  BY <1>3 DEF call_soon, Ranges, DrainInBounds, Mine
<1>4. ASSUME NEW g \in Mine, await_request(g) \/ cancel(g) PROVE Ranges' /\ DrainInBounds'
  BY <1>4 DEF await_request, cancel, Ranges, DrainInBounds, Mine
<1>5. ASSUME NEW g \in Mine, NEW d \in Delays, call_later(g, d) PROVE Ranges' /\ DrainInBounds'
  BY <1>5, LoopAssumption DEF call_later, Ranges, DrainInBounds, Mine
<1>6. CASE stop \/ callback_returns \/ run_forever
  <2>1. /\ pc' \in {"callback", "drain", "start", "stopped"}
        /\ (pc' \in {"callback", "drain"} => pc = "callback")
        /\ UNCHANGED <<ready, where, cancelled, ntodo, remaining, left, cq, thread>>
    BY <1>6 DEF stop, callback_returns, run_forever
  <2> QED
    BY <1>2, <2>1 DEF Ranges, DrainInBounds
<1> QED
  BY <1>2, <1>3, <1>4, <1>5, <1>6 DEF Program

\* Time passes for the wait and for the timers alike.
LEMMA TickInv == ASSUME LoopInv, Tick PROVE LoopInv'
<1> USE DEF LoopInv, wakeVars
<1>1. Ranges' /\ left' \in 0 .. left
  <2>1. left \in 0 .. MaxWait /\ left' \in 0 .. left /\ left' \in 0 .. MaxWait
    <3>1. left' = left \/ left' = (IF left > 0 THEN left - 1 ELSE 0)
      BY DEF Tick
    <3>2. left \in 0 .. MaxWait
      BY DEF Ranges
    <3> QED
      BY <3>1, <3>2, LoopAssumption
  <2>2. remaining' \in [Handle -> Int]
    BY DEF Tick, Ranges
  <2> QED
    BY <2>1, <2>2 DEF Tick, Ranges
<1>2. Scheduled' = Scheduled
  BY DEF Tick, Scheduled
<1>3. NothingOwn' /\ DrainInBounds'
  BY <1>1 DEF Tick, NothingOwn, DrainInBounds, Ranges, Mine
<1>4. NeverOversleeps'
  <2> SUFFICES ASSUME pc = "wait", left' > 0, NEW h \in Scheduled PROVE left' <= remaining'[h]
    BY <1>2 DEF NeverOversleeps, Tick
  <2>1. left > 0 /\ left' = left - 1 /\ left \in Int
    BY DEF Tick, Ranges
  <2>2. remaining'[h] = remaining[h] - 1 /\ remaining[h] \in Int
    BY DEF Tick, Ranges, Scheduled
  <2>3. left <= remaining[h]
    BY <2>1 DEF NeverOversleeps
  <2> QED
    BY <2>1, <2>2, <2>3
<1> QED
  BY <1>1, <1>3, <1>4

\* The kernel and the other thread: what they append is not the loop's own.
LEMMA OthersInv ==
  ASSUME LoopInv,
         \/ \E h \in Handle : kernel_completes(h)
         \/ kernel_wakeup
         \/ \E h \in ThreadHandle : call_soon_threadsafe(h)
         \/ write_to_self
  PROVE  LoopInv'
<1> USE DEF LoopInv, wakeVars, loopVars
<1>1. ASSUME NEW h \in Handle, kernel_completes(h) PROVE LoopInv'
  <2>1. Ranges'
    BY <1>1 DEF kernel_completes, Ranges
  <2>2. Scheduled' = Scheduled
    BY <1>1 DEF kernel_completes, Scheduled, Ranges
  <2> QED
    BY <1>1, <2>1, <2>2 DEF kernel_completes, NothingOwn, NeverOversleeps, DrainInBounds
<1>2. CASE kernel_wakeup
  <2>1. Ranges'
    BY <1>2 DEF kernel_wakeup, Ranges
  <2> QED
    BY <1>2, <2>1 DEF kernel_wakeup, NothingOwn, NeverOversleeps, DrainInBounds, Scheduled
<1>3. ASSUME NEW h \in ThreadHandle, call_soon_threadsafe(h) PROVE LoopInv'
  <2>1. h \in Handle /\ h \notin Mine
    BY LoopAssumption DEF Mine
  <2>2. /\ ready \in Seq(Handle) /\ ready' = Append(ready, h) /\ Len(ready') = Len(ready) + 1
        /\ Len(ready) \in Nat
    BY <1>3, <2>1 DEF call_soon_threadsafe, Ranges
  <2>3. Ranges'
    BY <1>3, <2>1, <2>2 DEF call_soon_threadsafe, Ranges
  <2>4. NothingOwn'
    BY <1>3, <2>1, <2>2 DEF call_soon_threadsafe, NothingOwn, Mine
  <2>5. NeverOversleeps' /\ DrainInBounds'
    BY <1>3, <2>2 DEF call_soon_threadsafe, GilAvailable, NeverOversleeps, DrainInBounds, Ranges
  <2> QED
    BY <2>3, <2>4, <2>5
<1>4. CASE write_to_self
  <2>1. Ranges'
    BY <1>4 DEF write_to_self, Ranges
  <2> QED
    BY <1>4, <2>1 DEF write_to_self, NothingOwn, NeverOversleeps, DrainInBounds, Scheduled
<1> QED
  BY <1>1, <1>2, <1>3, <1>4

\* Every step keeps the invariant.
LEMMA StepLoopInv == LoopInv /\ [Next]_vars => LoopInv'
<1> SUFFICES ASSUME LoopInv, [Next]_vars PROVE LoopInv'
  OBVIOUS
<1>1. CASE UNCHANGED vars
  BY <1>1 DEF vars, LoopInv, Ranges, NothingOwn, NeverOversleeps, DrainInBounds, Scheduled, Mine
<1>2. CASE Next
  BY <1>2, ComputeTimeoutInv, TurnInv, ProgramInv, TickInv, OthersInv DEF Next, run_once
<1> QED
  BY <1>1, <1>2

\* The invariant holds of the loop.
LEMMA LoopInvHolds == Spec => [](LoopInv /\ Flags)
BY InitLoopInv, StepLoopInv, StepFlags, PTL DEF Spec

\* The variables of the loop keep their types; the wait is never negative and
\* never longer than the limit of compute_timeout.
THEOREM LoopTypeOK == Spec => []TypeOK
<1>1. LoopInv /\ Flags => TypeOK
  BY Zenon DEF LoopInv, Flags, Ranges, TypeOK
<1> QED
  BY <1>1, LoopInvHolds, PTL

\* Whatever callbacks make of the schedule, and whatever delays and lengths of
\* a second there are, the loop does not sleep past a timer.
THEOREM LoopNeverOversleeps == Spec => []NeverOversleeps
BY LoopInvHolds, PTL DEF LoopInv

\* The loop does not sleep while a stop or a callback of its own thread waits,
\* although the other thread may run between the look at _ready and the wait.
THEOREM LoopNoSleepOnOwn == Spec => []NoSleepOnOwn
<1>1. LoopInv => NoSleepOnOwn
  BY DEF LoopInv, NothingOwn, NoSleepOnOwn, Asleep
<1> QED
  BY <1>1, LoopInvHolds, PTL

\* drain_ready never pops from an empty queue: callbacks and the other thread
\* only lengthen what it counted.
THEOREM LoopDrainInBounds == Spec => []DrainInBounds
BY LoopInvHolds, PTL DEF LoopInv
=============================================================================

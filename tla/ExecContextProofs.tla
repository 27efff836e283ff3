-------------------------- MODULE ExecContextProofs --------------------------
(***************************************************************************)
(* Proofs about execution contexts and their buffers, for any number of    *)
(* tasks, managers and requests and any programs.                          *)
(***************************************************************************)
EXTENDS ExecContext, SequenceTheorems, WellFoundedInduction, TLAPS

\* The steps, by what they do to contexts and buffers.
EnterStep(t, m) ==
  /\ Enters(t, m)
  /\ IF HasBuffers(m) THEN InitMode(m) ELSE UNCHANGED <<bufferVars, idx_registry>>
LeaveStep(t, m) ==
  /\ Leaves(t, m)
  /\ IF manager[m].type = "BufferMode" THEN CloseMode(m) ELSE UNCHANGED <<bufferVars, idx_registry>>
RequestStep(r) ==
  \/ \E t \in Task : read_fixed(t, r) \/ read_or_recv(t, r)
  \/ kernel_writes(r) \/ on_uring_ready_ok(r) \/ on_uring_ready_error(r)

\* Next is made of these steps.
LEMMA Steps ==
  ASSUME [Next]_vars, Running \subseteq Task
  PROVE  \/ \E t \in Running, u \in Task : create_task(t, u)
         \/ \E t \in Task, m \in Manager : EnterStep(t, m) \/ EnterFails(t, m) \/ LeaveStep(t, m)
         \/ \E r \in Request : RequestStep(r)
         \/ UNCHANGED vars
<1>1. ASSUME NEW t \in Task, NEW m \in Manager, Manage(t, m)
      PROVE  EnterStep(t, m) \/ EnterFails(t, m) \/ LeaveStep(t, m)
  <2>1. CASE BufferModeCtx_enter(t, m) \/ ExecutionContextCtx_enter(t, m)
    BY <2>1 DEF BufferModeCtx_enter, ExecutionContextCtx_enter, EnterStep, HasBuffers
  <2>2. CASE StreamStrategyCtx_enter(t, m) \/ TransferModeCtx_enter(t, m)
    BY <2>2 DEF StreamStrategyCtx_enter, TransferModeCtx_enter, EnterStep, HasBuffers
  <2>3. CASE \/ BufferModeCtx_exit(t, m) \/ ExecutionContextCtx_exit(t, m)
             \/ StreamStrategyCtx_exit(t, m) \/ TransferModeCtx_exit(t, m)
    BY <2>3 DEF BufferModeCtx_exit, ExecutionContextCtx_exit, StreamStrategyCtx_exit,
                TransferModeCtx_exit, LeaveStep
  <2> QED
    BY <1>1, <2>1, <2>2, <2>3 DEF Manage
<1> QED
  BY <1>1 DEF Next, RequestStep
-----------------------------------------------------------------------------
(* Tasks and with blocks *)

\* The contexts tasks see, and the managers they are in.
TaskTypes ==
  /\ manager \in Programs
  /\ context_var \in [Task -> Context] /\ token \in [Manager -> Context]
  /\ nest \in [Task -> Seq(Manager)]
  /\ Running \subseteq Task /\ base \in [Running -> Context]
  /\ phase \in [Manager -> {"new", "entered", "left"}]

\* A manager is entered while some task is in its with block, in one place.
NestOK ==
  /\ \A t \in Task \ Running : nest[t] = << >>
  /\ \A t \in Task : \A i \in 1 .. Len(nest[t]) : phase[nest[t][i]] = "entered"
  /\ \A t, u \in Task : \A i \in 1 .. Len(nest[t]), j \in 1 .. Len(nest[u]) :
       nest[t][i] = nest[u][j] => t = u /\ i = j

\* The payload of a context belongs to a manager that was entered.
Entered(ctx) == ctx.payload \in Manager => phase[ctx.payload] # "new"
PayloadsEntered ==
  /\ \A t \in Task : Entered(context_var[t])
  /\ \A t \in Running : Entered(base[t])
  /\ \A m \in Manager : Entered(token[m])

TaskInv == TaskTypes /\ NestOK /\ PayloadsEntered

\* What a manager is.
LEMMA ManagerFields ==
  ASSUME manager \in Programs, NEW m \in Manager
  PROVE  /\ manager[m].type \in ManagerType /\ manager[m].mode \in BufferMode
         /\ manager[m].amount \in Nat \ {0} /\ manager[m].stream \in StreamStrategy
         /\ manager[m].transfer \in TransferMode
BY ProgramAssumption

\* What a manager sets is a context.
LEMMA SetsType ==
  ASSUME manager \in Programs, NEW m \in Manager, NEW ctx \in Context
  PROVE  Sets(m, ctx) \in Context /\ (Sets(m, ctx).payload = m \/ Sets(m, ctx).payload = ctx.payload)
BY ManagerFields DEF Sets, Context

\* The context the loop starts with.
LEMMA InitContext == ContextVar_init \in Context /\ ContextVar_init.payload = NoManager
BY DEF ContextVar_init, Context, StreamStrategy, TransferMode

\* Every task starts outside of all with blocks.
LEMMA InitTaskInv == Init => TaskInv
<1> SUFFICES ASSUME Init PROVE TaskInv
  OBVIOUS
<1> USE DEF Init
<1>1. TaskTypes
  BY InitContext, TaskAssumption DEF TaskTypes, Running
<1>2. NestOK
  BY DEF NestOK
<1>3. PayloadsEntered
  BY InitContext, NoneAssumption DEF PayloadsEntered, Entered, Running
<1> QED
  BY <1>1, <1>2, <1>3 DEF TaskInv

\* A task is created in a copy of its creator's context.
LEMMA CreateTaskInv ==
  ASSUME TaskInv, NEW t \in Running, NEW u \in Task, create_task(t, u) PROVE TaskInv'
<1> USE DEF TaskInv
<1>1. /\ u \notin Running /\ context_var' = [context_var EXCEPT ![u] = context_var[t]]
      /\ base' = [x \in Running \cup {u} |-> IF x = u THEN context_var[t] ELSE base[x]]
      /\ UNCHANGED <<manager, nest, token, phase>>
  BY DEF create_task
<1>2. Running' = Running \cup {u} /\ t \in Task
  BY <1>1 DEF Running, TaskTypes
<1>3. TaskTypes'
  BY <1>1, <1>2 DEF TaskTypes
<1>4. NestOK'
  BY <1>1, <1>2 DEF NestOK
<1>5. PayloadsEntered'
  BY <1>1, <1>2 DEF PayloadsEntered, Entered, TaskTypes
<1> QED
  BY <1>3, <1>4, <1>5

\* A task enters a with block: its manager was in no other.
LEMMA EnterTaskInv ==
  ASSUME TaskInv, NEW t \in Task, NEW m \in Manager, Enters(t, m) PROVE TaskInv'
<1> USE DEF TaskInv
<1>1. /\ t \in Running /\ phase[m] = "new"
      /\ context_var' = [context_var EXCEPT ![t] = Sets(m, context_var[t])]
      /\ token' = [token EXCEPT ![m] = context_var[t]]
      /\ nest' = [nest EXCEPT ![t] = Append(nest[t], m)]
      /\ phase' = [phase EXCEPT ![m] = "entered"]
      /\ UNCHANGED <<manager, base>> /\ Running' = Running
  BY DEF Enters, ContextVar_set, Running
<1>2. /\ Sets(m, context_var[t]) \in Context
      /\ Sets(m, context_var[t]).payload = m \/ Sets(m, context_var[t]).payload = context_var[t].payload
  BY SetsType DEF TaskTypes
<1>3. TaskTypes'
  <2>1. nest' \in [Task -> Seq(Manager)]
    BY <1>1 DEF TaskTypes
  <2> QED
    BY <1>1, <1>2, <2>1 DEF TaskTypes
<1>4. /\ nest[t] \in Seq(Manager) /\ nest'[t] = Append(nest[t], m)
      /\ \A u \in Task : u # t => nest'[u] = nest[u]
      /\ Len(nest'[t]) = Len(nest[t]) + 1 /\ nest'[t][Len(nest[t]) + 1] = m
      /\ \A i \in 1 .. Len(nest[t]) : nest'[t][i] = nest[t][i]
  BY <1>1 DEF TaskTypes
<1>5. \A u \in Task : \A i \in 1 .. Len(nest[u]) : nest[u][i] # m /\ nest[u][i] \in Manager
  BY <1>1 DEF NestOK, TaskTypes
<1>6. \A u \in Task : \A i \in 1 .. Len(nest'[u]) :
        \/ i \in 1 .. Len(nest[u]) /\ nest'[u][i] = nest[u][i]
        \/ u = t /\ i = Len(nest[t]) + 1 /\ nest'[u][i] = m
  BY <1>4
<1>7. NestOK'
  <2>1. \A u \in Task \ Running' : nest'[u] = << >>
    BY <1>1, <1>4 DEF NestOK
  <2>2. \A u \in Task : \A i \in 1 .. Len(nest'[u]) : phase'[nest'[u][i]] = "entered"
    BY <1>1, <1>5, <1>6 DEF NestOK, TaskTypes
  <2>3. \A u, v \in Task : \A i \in 1 .. Len(nest'[u]), j \in 1 .. Len(nest'[v]) :
          nest'[u][i] = nest'[v][j] => u = v /\ i = j
    <3> SUFFICES ASSUME NEW u \in Task, NEW v \in Task,
                        NEW i \in 1 .. Len(nest'[u]), NEW j \in 1 .. Len(nest'[v]),
                        nest'[u][i] = nest'[v][j]
                 PROVE  u = v /\ i = j
      BY Zenon
    <3>1. CASE i \in 1 .. Len(nest[u]) /\ nest'[u][i] = nest[u][i]
      <4>1. nest[u][i] # m
        BY <1>5, <3>1, Zenon
      <4>2. j \in 1 .. Len(nest[v]) /\ nest'[v][j] = nest[v][j]
        BY <1>6, <3>1, <4>1, Zenon
      <4>3. nest[u][i] = nest[v][j]
        BY <3>1, <4>2, Zenon
      <4> QED
        BY <3>1, <4>2, <4>3 DEF NestOK
    <3>2. CASE u = t /\ i = Len(nest[t]) + 1 /\ nest'[u][i] = m
      <4>1. ~(j \in 1 .. Len(nest[v]) /\ nest'[v][j] = nest[v][j])
        BY <1>5, <3>2, Zenon
      <4> QED
        BY <1>6, <3>2, <4>1, Zenon
    <3> QED
      BY <1>6, <3>1, <3>2, Zenon
  <2> QED
    BY <2>1, <2>2, <2>3 DEF NestOK
<1>8. PayloadsEntered'
  <2>1. PICK new : new = Sets(m, context_var[t])
    OBVIOUS
  <2>2. \A x : Entered(x) => Entered(x)'
    BY <1>1 DEF Entered, TaskTypes
  <2>3. Entered(new)'
    BY <1>1, <1>2, <2>1 DEF PayloadsEntered, Entered, TaskTypes
  <2>4. ASSUME NEW u \in Task PROVE Entered(context_var[u])'
    BY <1>1, <2>1, <2>2, <2>3 DEF PayloadsEntered, TaskTypes, Entered
  <2>5. ASSUME NEW u \in Running PROVE Entered(base[u])'
    BY <1>1, <2>2 DEF PayloadsEntered, TaskTypes, Entered
  <2>6. ASSUME NEW n \in Manager PROVE Entered(token[n])'
    BY <1>1, <2>2 DEF PayloadsEntered, TaskTypes, Entered
  <2> QED
    BY <1>1, <2>4, <2>5, <2>6 DEF PayloadsEntered
<1> QED
  BY <1>3, <1>7, <1>8

\* Leaving a with block: the innermost one goes, the context its token kept is
\* back.
LEMMA Leaving ==
  ASSUME TaskInv, NEW t \in Task, NEW m \in Manager, Leaves(t, m)
  PROVE  /\ nest[t] # << >> /\ m = nest[t][Len(nest[t])]
         /\ context_var' = [context_var EXCEPT ![t] = token[m]]
         /\ token' = [token EXCEPT ![m] = ContextVar_init]
         /\ nest' = [nest EXCEPT ![t] = SubSeq(nest[t], 1, Len(nest[t]) - 1)]
         /\ phase' = [phase EXCEPT ![m] = "left"]
         /\ manager' = manager /\ base' = base /\ Running' = Running
         /\ Len(nest[t]) \in Nat \ {0} /\ Len(nest'[t]) = Len(nest[t]) - 1
         /\ \A u \in Task : u # t => nest'[u] = nest[u]
         /\ \A i \in 1 .. Len(nest'[t]) :
              i \in 1 .. Len(nest[t]) /\ i # Len(nest[t]) /\ nest'[t][i] = nest[t][i]
<1> USE DEF TaskInv
<1>1. /\ nest[t] # << >> /\ m = nest[t][Len(nest[t])]
      /\ context_var' = [context_var EXCEPT ![t] = token[m]]
      /\ token' = [token EXCEPT ![m] = ContextVar_init]
      /\ nest' = [nest EXCEPT ![t] = SubSeq(nest[t], 1, Len(nest[t]) - 1)]
      /\ phase' = [phase EXCEPT ![m] = "left"]
      /\ manager' = manager /\ base' = base /\ Running' = Running
  BY DEF Leaves, ContextVar_reset, Last, Front, Running
<1>2. /\ Len(nest[t]) \in Nat \ {0} /\ Len(nest'[t]) = Len(nest[t]) - 1
      /\ \A u \in Task : u # t => nest'[u] = nest[u]
      /\ \A i \in 1 .. Len(nest'[t]) : i \in 1 .. Len(nest[t]) /\ i # Len(nest[t]) /\ nest'[t][i] = nest[t][i]
  <2>1. PICK s \in Seq(Manager) : s = nest[t]
    BY DEF TaskTypes
  <2>2. Len(s) \in Nat \ {0}
    BY <1>1, <2>1
  <2>3. nest'[t] = SubSeq(s, 1, Len(s) - 1) /\ \A u \in Task : u # t => nest'[u] = nest[u]
    BY <1>1, <2>1 DEF TaskTypes
  <2>4. /\ Len(SubSeq(s, 1, Len(s) - 1)) = Len(s) - 1
        /\ \A i \in 1 .. Len(s) - 1 : SubSeq(s, 1, Len(s) - 1)[i] = s[i]
    <3>1. \A i \in 1 .. Len(s) - 1 : s[i] \in Manager
      BY <2>2
    <3>2. PICK n \in Nat : n = Len(s) - 1
      BY <2>2
    <3>3. /\ Len(SubSeq(s, 1, n)) = IF 1 <= n THEN n - 1 + 1 ELSE 0
          /\ \A i \in 1 .. n - 1 + 1 : SubSeq(s, 1, n)[i] = s[1 + i - 1]
      BY <3>1, <3>2, SubSeqProperties
    <3>4. n - 1 + 1 = n /\ (IF 1 <= n THEN n - 1 + 1 ELSE 0) = n
      OBVIOUS
    <3>5. ASSUME NEW i \in 1 .. n PROVE SubSeq(s, 1, n)[i] = s[i]
      <4>1. 1 + i - 1 = i
        OBVIOUS
      <4> QED
        BY <3>3, <3>4, <4>1, Zenon
    <3>6. Len(SubSeq(s, 1, n)) = n
      BY <3>3, <3>4, Zenon
    <3> QED
      BY <3>2, <3>5, <3>6, Zenon
  <2> QED
    BY <2>1, <2>2, <2>3, <2>4
<1> QED
  BY <1>1, <1>2

\* A task leaves its innermost with block.
LEMMA LeaveTaskInv ==
  ASSUME TaskInv, NEW t \in Task, NEW m \in Manager, Leaves(t, m) PROVE TaskInv'
<1> USE DEF TaskInv
<1>1. /\ nest[t] # << >> /\ m = nest[t][Len(nest[t])]
      /\ context_var' = [context_var EXCEPT ![t] = token[m]]
      /\ token' = [token EXCEPT ![m] = ContextVar_init]
      /\ nest' = [nest EXCEPT ![t] = SubSeq(nest[t], 1, Len(nest[t]) - 1)]
      /\ phase' = [phase EXCEPT ![m] = "left"]
      /\ UNCHANGED <<manager, base>> /\ Running' = Running
  BY Leaving
<1>2. TaskTypes'
  <2>1. nest' \in [Task -> Seq(Manager)]
    BY <1>1 DEF TaskTypes
  <2> QED
    BY <1>1, <2>1, InitContext DEF TaskTypes
<1>3. /\ Len(nest[t]) \in Nat \ {0} /\ Len(nest'[t]) = Len(nest[t]) - 1
      /\ \A u \in Task : u # t => nest'[u] = nest[u]
      /\ \A i \in 1 .. Len(nest'[t]) : i \in 1 .. Len(nest[t]) /\ i # Len(nest[t]) /\ nest'[t][i] = nest[t][i]
  BY Leaving
<1>4. \A u \in Task : \A i \in 1 .. Len(nest'[u]) :
        i \in 1 .. Len(nest[u]) /\ nest'[u][i] = nest[u][i] /\ ~(u = t /\ i = Len(nest[t]))
  BY <1>3
<1>5. \A u \in Task : \A i \in 1 .. Len(nest'[u]) : nest'[u][i] # m /\ nest'[u][i] \in Manager
  BY <1>1, <1>3, <1>4 DEF NestOK, TaskTypes
<1>6. NestOK'
  <2>1. \A u \in Task \ Running' : nest'[u] = << >>
    BY <1>1, <1>3 DEF NestOK
  <2>2. \A u \in Task : \A i \in 1 .. Len(nest'[u]) : phase'[nest'[u][i]] = "entered"
    <3> SUFFICES ASSUME NEW u \in Task, NEW i \in 1 .. Len(nest'[u])
                 PROVE  phase'[nest'[u][i]] = "entered"
      BY Zenon
    <3>1. PICK n \in Manager : n = nest'[u][i] /\ n # m
      BY <1>5, Zenon
    <3>2. phase[n] = "entered"
      <4>1. i \in 1 .. Len(nest[u]) /\ n = nest[u][i]
        BY <1>4, <3>1, Zenon
      <4> QED
        BY <4>1 DEF NestOK
    <3>3. phase'[n] = phase[n]
      BY <1>1, <3>1 DEF TaskTypes
    <3> QED
      BY <3>1, <3>2, <3>3, Zenon
  <2>3. \A u, v \in Task : \A i \in 1 .. Len(nest'[u]), j \in 1 .. Len(nest'[v]) :
          nest'[u][i] = nest'[v][j] => u = v /\ i = j
    BY <1>4 DEF NestOK
  <2> QED
    BY <2>1, <2>2, <2>3 DEF NestOK
<1>7. PayloadsEntered'
  <2>1. \A x : Entered(x) => Entered(x)'
    BY <1>1 DEF Entered, TaskTypes
  <2>2. Entered(ContextVar_init)'
    BY InitContext, NoneAssumption DEF Entered
  <2> QED
    BY <1>1, <2>1, <2>2 DEF PayloadsEntered, TaskTypes
<1> QED
  BY <1>2, <1>6, <1>7

\* Every step keeps this invariant.
LEMMA StepTaskInv == TaskInv /\ [Next]_vars => TaskInv'
<1> SUFFICES ASSUME TaskInv, [Next]_vars PROVE TaskInv'
  OBVIOUS
<1>1. ASSUME NEW t \in Task, NEW m \in Manager, EnterFails(t, m) PROVE TaskInv'
  <2>1. phase[m] = "new" /\ phase' = [phase EXCEPT ![m] = "left"]
        /\ UNCHANGED <<manager, context_var, nest, base, token>> /\ Running' = Running
    BY <1>1 DEF EnterFails, Running
  <2>2. TaskTypes'
    BY <2>1 DEF TaskInv, TaskTypes
  <2>3. NestOK'
    BY <2>1 DEF TaskInv, NestOK, TaskTypes
  <2>4. PayloadsEntered'
    BY <2>1 DEF TaskInv, PayloadsEntered, Entered, TaskTypes
  <2> QED
    BY <2>2, <2>3, <2>4 DEF TaskInv
<1>2. ASSUME UNCHANGED taskVars PROVE TaskInv'
  BY <1>2 DEF taskVars, TaskInv, TaskTypes, NestOK, PayloadsEntered, Entered, Running
<1>3. ASSUME NEW r \in Request, RequestStep(r) PROVE UNCHANGED taskVars
  BY <1>3 DEF RequestStep, read_fixed, read_or_recv, Calls, kernel_writes, on_uring_ready_ok,
              on_uring_ready_error
<1>4. UNCHANGED vars => UNCHANGED taskVars
  BY DEF vars, taskVars
<1>5. Running \subseteq Task
  BY DEF TaskInv, TaskTypes
<1> QED
  BY <1>1, <1>2, <1>3, <1>4, <1>5, Steps, CreateTaskInv, EnterTaskInv, LeaveTaskInv
  DEF EnterStep, LeaveStep
-----------------------------------------------------------------------------
(* Contexts nest *)

\* The with blocks among the first k of a nest s that set a field, and the
\* context that those k blocks make of the context b.
Setters(M, s, types, k) ==
  {i \in 1 .. k : M[s[i]].type \in types \cup {"ExecutionContext"}}
PayloadAt(M, s, k, b) ==
  IF Setters(M, s, {"BufferMode"}, k) = {} THEN b.payload ELSE s[Max(Setters(M, s, {"BufferMode"}, k))]
StreamAt(M, s, k, b) ==
  IF Setters(M, s, {"StreamStrategy"}, k) = {} THEN b.stream
  ELSE M[s[Max(Setters(M, s, {"StreamStrategy"}, k))]].stream
TransferAt(M, s, k, b) ==
  IF Setters(M, s, {"TransferMode"}, k) = {} THEN b.transfer
  ELSE M[s[Max(Setters(M, s, {"TransferMode"}, k))]].transfer
ContextAt(M, s, k, b) ==
  [payload |-> PayloadAt(M, s, k, b), stream |-> StreamAt(M, s, k, b), transfer |-> TransferAt(M, s, k, b)]

\* A task sees what its with blocks make of the context it was created in, and
\* the token of each block keeps what those around it make.
Nested == \A t \in Running :
  /\ context_var[t] = ContextAt(manager, nest[t], Len(nest[t]), base[t])
  /\ \A i \in 1 .. Len(nest[t]) : token[nest[t][i]] = ContextAt(manager, nest[t], i - 1, base[t])

\* The largest of a set that has one.
LEMMA MaxIs ==
  ASSUME NEW S, S \subseteq Int, NEW n \in S, \A x \in S : x <= n
  PROVE  Max(S) = n
<1>1. \A x \in S : n >= x
  OBVIOUS
<1>2. Max(S) \in S /\ \A x \in S : Max(S) >= x
  BY <1>1 DEF Max
<1>3. Max(S) \in Int /\ n \in Int /\ Max(S) >= n /\ Max(S) <= n
  BY <1>2, Zenon
<1> QED
  BY <1>3

\* Some numbers from 1 to k have a largest one: it is at the least distance
\* from k.
LEMMA MaxIn ==
  ASSUME NEW k \in Nat, NEW S, S \subseteq 1 .. k, S # {}
  PROVE  Max(S) \in S
<1>1. PICK T, R : T = {k - i : i \in S} /\ R = OpToRel(<, Nat)
  OBVIOUS
<1>2. T \subseteq Nat /\ T # {}
  <2>1. \A i \in 1 .. k : k - i \in Nat
    OBVIOUS
  <2> QED
    BY <1>1, <2>1, Zenon
<1>3. PICK d \in T : \A e \in T : <<e, d>> \notin R
  BY <1>1, <1>2, NatLessThanWellFounded, WFMin, Zenon
<1>4. PICK n \in S : d = k - n
  BY <1>1, <1>3, Zenon
<1>5. ASSUME NEW x \in S PROVE x <= n
  <2>1. k - x \in T /\ k - x \in Nat /\ d \in Nat /\ x \in 1 .. k /\ n \in 1 .. k
    BY <1>1, <1>2, <1>3, <1>4, Zenon
  <2>2. R = {ss \in Nat \X Nat : ss[1] < ss[2]}
    BY <1>1 DEF OpToRel
  <2>3. ~(k - x < d)
    BY <1>3, <2>1, <2>2
  <2> QED
    BY <1>4, <2>1, <2>3
<1>6. S \subseteq Int
  OBVIOUS
<1> QED
  BY <1>5, <1>6, MaxIs, Zenon

\* The blocks that set a field, with one block more.
LEMMA SettersNext ==
  ASSUME NEW M, NEW s, NEW types, NEW k \in Nat
  PROVE  IF M[s[k + 1]].type \in types \cup {"ExecutionContext"}
         THEN Setters(M, s, types, k + 1) # {} /\ Max(Setters(M, s, types, k + 1)) = k + 1
         ELSE Setters(M, s, types, k + 1) = Setters(M, s, types, k)
<1>1. CASE M[s[k + 1]].type \in types \cup {"ExecutionContext"}
  <2>1. /\ Setters(M, s, types, k + 1) \subseteq Int /\ k + 1 \in Setters(M, s, types, k + 1)
        /\ \A x \in Setters(M, s, types, k + 1) : x <= k + 1
    BY <1>1 DEF Setters
  <2> QED
    BY <1>1, <2>1, MaxIs
<1>2. CASE M[s[k + 1]].type \notin types \cup {"ExecutionContext"}
  BY <1>2 DEF Setters
<1> QED
  BY <1>1, <1>2

\* The next block makes of a context what its manager sets.
LEMMA ContextNext ==
  ASSUME manager \in Programs, NEW s, NEW k \in Nat, s[k + 1] \in Manager, NEW b, NEW M, M = manager
  PROVE  ContextAt(M, s, k + 1, b) = Sets(s[k + 1], ContextAt(M, s, k, b))
<1>1. M[s[k + 1]].type \in {"BufferMode", "StreamStrategy", "TransferMode", "ExecutionContext"}
  BY ManagerFields DEF ManagerType
<1>2. PayloadAt(M, s, k + 1, b) = IF M[s[k + 1]].type \in {"BufferMode", "ExecutionContext"}
                               THEN s[k + 1] ELSE PayloadAt(M, s, k, b)
  BY SettersNext DEF PayloadAt
<1>3. StreamAt(M, s, k + 1, b) = IF M[s[k + 1]].type \in {"StreamStrategy", "ExecutionContext"}
                              THEN M[s[k + 1]].stream ELSE StreamAt(M, s, k, b)
  BY SettersNext DEF StreamAt
<1>4. TransferAt(M, s, k + 1, b) = IF M[s[k + 1]].type \in {"TransferMode", "ExecutionContext"}
                                THEN M[s[k + 1]].transfer ELSE TransferAt(M, s, k, b)
  BY SettersNext DEF TransferAt
<1> QED
  BY <1>1, <1>2, <1>3, <1>4 DEF ContextAt, Sets

\* Only the blocks counted matter.
LEMMA ContextPrefix ==
  ASSUME NEW M, NEW s, NEW v, NEW k \in Nat, \A i \in 1 .. k : s[i] = v[i], NEW b
  PROVE  ContextAt(M, s, k, b) = ContextAt(M, v, k, b)
<1>1. \A types : Setters(M, s, types, k) = Setters(M, v, types, k)
  BY DEF Setters
<1>2. ASSUME NEW types, Setters(M, v, types, k) # {}
      PROVE  s[Max(Setters(M, v, types, k))] = v[Max(Setters(M, v, types, k))]
  <2>1. Setters(M, v, types, k) \subseteq 1 .. k
    BY DEF Setters
  <2> QED
    BY <1>2, <2>1, MaxIn
<1> QED
  BY <1>1, <1>2 DEF ContextAt, PayloadAt, StreamAt, TransferAt

\* No block leaves a context as it is.
LEMMA ContextNone ==
  ASSUME NEW M, NEW s, NEW b \in Context PROVE ContextAt(M, s, 0, b) = b
<1>1. \A types : Setters(M, s, types, 0) = {}
  BY DEF Setters
<1> QED
  BY <1>1 DEF ContextAt, PayloadAt, StreamAt, TransferAt, Context

\* A task is created outside of all with blocks.
LEMMA CreateNested ==
  ASSUME TaskInv, Nested, NEW t \in Running, NEW u \in Task, create_task(t, u) PROVE Nested'
<1>1. /\ u \notin Running /\ context_var' = [context_var EXCEPT ![u] = context_var[t]]
      /\ base' = [x \in Running \cup {u} |-> IF x = u THEN context_var[t] ELSE base[x]]
      /\ UNCHANGED <<manager, nest, token, phase>>
  BY DEF create_task
<1>2. Running' = Running \cup {u} /\ t \in Task
  BY <1>1 DEF Running, TaskInv, TaskTypes
<1>3. nest[u] = << >> /\ Len(nest[u]) = 0
  BY <1>1 DEF TaskInv, NestOK
<1>4. ASSUME NEW x \in Running'
      PROVE  /\ context_var'[x] = ContextAt(manager', nest'[x], Len(nest'[x]), base'[x])
             /\ \A i \in 1 .. Len(nest'[x]) :
                  token'[nest'[x][i]] = ContextAt(manager', nest'[x], i - 1, base'[x])
  <2>1. CASE x = u
    BY <1>1, <1>2, <1>3, <2>1, ContextNone DEF TaskInv, TaskTypes
  <2>2. CASE x # u
    <3>1. x \in Running /\ x \in Task
      BY <1>2, <2>2 DEF TaskInv, TaskTypes
    <3>2. /\ context_var'[x] = context_var[x] /\ base'[x] = base[x] /\ nest'[x] = nest[x]
          /\ token' = token /\ manager' = manager
      BY <1>1, <2>2, <3>1 DEF TaskInv, TaskTypes
    <3> QED
      BY <3>1, <3>2 DEF Nested
  <2> QED
    BY <2>1, <2>2
<1> QED
  BY <1>4 DEF Nested

\* A task enters a with block.
LEMMA EnterNested ==
  ASSUME TaskInv, Nested, NEW t \in Task, NEW m \in Manager, Enters(t, m) PROVE Nested'
<1>1. /\ t \in Running /\ phase[m] = "new"
      /\ context_var' = [context_var EXCEPT ![t] = Sets(m, context_var[t])]
      /\ token' = [token EXCEPT ![m] = context_var[t]]
      /\ nest' = [nest EXCEPT ![t] = Append(nest[t], m)]
      /\ UNCHANGED <<manager, base>> /\ Running' = Running /\ Running \subseteq Task
  BY DEF Enters, ContextVar_set, Running, TaskInv, TaskTypes
<1>2. \A u \in Task : \A i \in 1 .. Len(nest[u]) : nest[u][i] # m /\ nest[u][i] \in Manager
  BY <1>1 DEF TaskInv, NestOK, TaskTypes
<1>3. ASSUME NEW u \in Running, u # t
      PROVE  /\ context_var'[u] = ContextAt(manager', nest'[u], Len(nest'[u]), base'[u])
             /\ \A i \in 1 .. Len(nest'[u]) :
                  token'[nest'[u][i]] = ContextAt(manager', nest'[u], i - 1, base'[u])
  <2>1. /\ context_var'[u] = context_var[u] /\ nest'[u] = nest[u] /\ base'[u] = base[u]
        /\ \A i \in 1 .. Len(nest[u]) : token'[nest[u][i]] = token[nest[u][i]]
        /\ manager' = manager
    BY <1>1, <1>2, <1>3 DEF TaskInv, TaskTypes
  <2> QED
    BY <2>1 DEF Nested
<1>4. /\ context_var'[t] = ContextAt(manager', nest'[t], Len(nest'[t]), base'[t])
      /\ \A i \in 1 .. Len(nest'[t]) :
           token'[nest'[t][i]] = ContextAt(manager', nest'[t], i - 1, base'[t])
  <2>1. PICK n \in Nat, s \in Seq(Manager), v \in Seq(Manager), b \in Context :
          n = Len(s) /\ s = nest[t] /\ v = nest'[t] /\ b = base[t] /\ v = Append(s, m)
    <3>1. nest[t] \in Seq(Manager) /\ nest'[t] = Append(nest[t], m) /\ base[t] \in Context
      BY <1>1 DEF TaskInv, TaskTypes
    <3>2. Len(nest[t]) \in Nat /\ Append(nest[t], m) \in Seq(Manager)
      BY <3>1
    <3> QED
      BY <3>1, <3>2, Zenon
  <2>2. Len(v) = n + 1 /\ v[n + 1] = m /\ \A i \in 1 .. n : v[i] = s[i]
    BY <2>1
  <2>3. \A k \in 0 .. n : ContextAt(manager, v, k, b) = ContextAt(manager, s, k, b)
    BY <2>2, ContextPrefix
  <2>4. context_var[t] = ContextAt(manager, s, n, b)
    BY <1>1, <2>1 DEF Nested
  <2>5. context_var'[t] = ContextAt(manager, v, n + 1, b)
    <3>1. ContextAt(manager, v, n + 1, b) = Sets(v[n + 1], ContextAt(manager, v, n, b))
      BY <2>2, ContextNext DEF TaskInv, TaskTypes
    <3>2. context_var'[t] = Sets(m, context_var[t])
      BY <1>1 DEF TaskInv, TaskTypes
    <3>3. ContextAt(manager, v, n, b) = ContextAt(manager, s, n, b)
      BY <2>3
    <3> QED
      BY <2>2, <2>4, <3>1, <3>2, <3>3, Zenon
  <2>6. ASSUME NEW i \in 1 .. n + 1 PROVE token'[v[i]] = ContextAt(manager, v, i - 1, b)
    <3>1. CASE i = n + 1
      BY <1>1, <2>1, <2>2, <2>3, <2>4, <3>1 DEF TaskInv, TaskTypes
    <3>2. CASE i \in 1 .. n
      <4>1. token[s[i]] = ContextAt(manager, s, i - 1, b) /\ s[i] # m /\ s[i] \in Manager
        BY <1>1, <1>2, <2>1, <3>2 DEF Nested
      <4>2. token'[s[i]] = token[s[i]]
        BY <1>1, <4>1 DEF TaskInv, TaskTypes
      <4>3. i - 1 \in 0 .. n
        BY <3>2
      <4> QED
        BY <2>2, <2>3, <3>2, <4>1, <4>2, <4>3
    <3> QED
      BY <3>1, <3>2
  <2> QED
    BY <1>1, <2>1, <2>2, <2>5, <2>6
<1> QED
  BY <1>1, <1>3, <1>4 DEF Nested

\* A task leaves its innermost with block.
LEMMA LeaveNested ==
  ASSUME TaskInv, Nested, NEW t \in Task, NEW m \in Manager, Leaves(t, m) PROVE Nested'
<1>1. /\ nest[t] # << >> /\ m = nest[t][Len(nest[t])]
      /\ context_var' = [context_var EXCEPT ![t] = token[m]]
      /\ token' = [token EXCEPT ![m] = ContextVar_init]
      /\ manager' = manager /\ base' = base /\ Running' = Running /\ Running \subseteq Task
  BY Leaving DEF TaskInv, TaskTypes
<1>2. /\ Len(nest[t]) \in Nat \ {0} /\ Len(nest'[t]) = Len(nest[t]) - 1
      /\ \A u \in Task : u # t => nest'[u] = nest[u]
      /\ \A i \in 1 .. Len(nest'[t]) : i \in 1 .. Len(nest[t]) /\ i # Len(nest[t]) /\ nest'[t][i] = nest[t][i]
  BY Leaving
<1>3. t \in Running
  BY <1>1 DEF TaskInv, NestOK
<1>4. \A u \in Task : \A i \in 1 .. Len(nest[u]) : nest[u][i] \in Manager /\ (nest[u][i] = m => u = t /\ i = Len(nest[t]))
  <2>1. Len(nest[t]) \in 1 .. Len(nest[t]) /\ nest[t][Len(nest[t])] = m
    BY <1>1, <1>2
  <2>2. ASSUME NEW u \in Task, NEW i \in 1 .. Len(nest[u])
        PROVE  nest[u][i] \in Manager /\ (nest[u][i] = m => u = t /\ i = Len(nest[t]))
    <3>1. nest[u] \in Seq(Manager)
      BY DEF TaskInv, TaskTypes
    <3>2. nest[u][i] \in Manager
      BY <3>1
    <3> QED
      BY <2>1, <3>2 DEF TaskInv, NestOK
  <2> QED
    BY <2>2
<1>5. ASSUME NEW u \in Running, u # t
      PROVE  /\ context_var'[u] = ContextAt(manager', nest'[u], Len(nest'[u]), base'[u])
             /\ \A i \in 1 .. Len(nest'[u]) :
                  token'[nest'[u][i]] = ContextAt(manager', nest'[u], i - 1, base'[u])
  <2>1. /\ context_var'[u] = context_var[u] /\ nest'[u] = nest[u] /\ base'[u] = base[u]
        /\ \A i \in 1 .. Len(nest[u]) : token'[nest[u][i]] = token[nest[u][i]]
        /\ manager' = manager
    BY <1>1, <1>2, <1>4, <1>5 DEF TaskInv, TaskTypes
  <2> QED
    BY <2>1 DEF Nested
<1>6. /\ context_var'[t] = ContextAt(manager', nest'[t], Len(nest'[t]), base'[t])
      /\ \A i \in 1 .. Len(nest'[t]) :
           token'[nest'[t][i]] = ContextAt(manager', nest'[t], i - 1, base'[t])
  <2>0. PICK n \in Nat : n + 1 = Len(nest[t])
    <3>1. Len(nest[t]) - 1 \in Nat /\ (Len(nest[t]) - 1) + 1 = Len(nest[t])
      BY <1>2
    <3> QED
      BY <3>1, Zenon
  <2>1. PICK s, v, b : n + 1 = Len(s) /\ s = nest[t] /\ v = nest'[t] /\ b = base[t]
    BY <2>0, Zenon
  <2>2. Len(v) = n /\ s[n + 1] = m /\ \A i \in 1 .. n : v[i] = s[i]
    <3>1. Len(v) = Len(s) - 1 /\ \A i \in 1 .. Len(v) : v[i] = s[i]
      BY <1>2, <2>1, Zenon
    <3>2. s[n + 1] = m
      BY <1>1, <2>1, Zenon
    <3> QED
      BY <2>1, <3>1, <3>2
  <2>3. \A k \in 0 .. n : ContextAt(manager, v, k, b) = ContextAt(manager, s, k, b)
    BY <2>2, ContextPrefix
  <2>4. \A i \in 1 .. n + 1 : token[s[i]] = ContextAt(manager, s, i - 1, b)
    BY <1>3, <2>1 DEF Nested
  <2>5. context_var'[t] = ContextAt(manager, v, n, b)
    <3>1. context_var'[t] = token[s[n + 1]]
      BY <1>1, <2>2 DEF TaskInv, TaskTypes
    <3>2. token[s[n + 1]] = ContextAt(manager, s, n, b)
      BY <2>4
    <3> QED
      BY <2>3, <3>1, <3>2
  <2>6. ASSUME NEW i \in 1 .. n PROVE token'[v[i]] = ContextAt(manager, v, i - 1, b)
    <3>1. token[s[i]] = ContextAt(manager, s, i - 1, b) /\ s[i] # m /\ s[i] \in Manager
      BY <1>4, <2>1, <2>4
    <3>2. token'[s[i]] = token[s[i]]
      BY <1>1, <3>1 DEF TaskInv, TaskTypes
    <3>3. i - 1 \in 0 .. n
      OBVIOUS
    <3> QED
      BY <2>2, <2>3, <3>1, <3>2, <3>3
  <2> QED
    BY <1>1, <2>1, <2>2, <2>5, <2>6
<1> QED
  BY <1>1, <1>5, <1>6 DEF Nested

\* A step that touches neither contexts nor with blocks.
LEMMA OtherNested ==
  ASSUME Nested, UNCHANGED <<manager, context_var, nest, base, token>> PROVE Nested'
BY DEF Nested, Running

\* Every step keeps contexts nested.
LEMMA StepNested == TaskInv /\ Nested /\ [Next]_vars => Nested'
<1> SUFFICES ASSUME TaskInv, Nested, [Next]_vars PROVE Nested'
  OBVIOUS
<1>1. ASSUME NEW t \in Task, NEW m \in Manager, EnterFails(t, m) PROVE Nested'
  BY <1>1, OtherNested DEF EnterFails
<1>2. ASSUME NEW r \in Request, RequestStep(r) PROVE Nested'
  BY <1>2, OtherNested DEF RequestStep, read_fixed, read_or_recv, Calls, kernel_writes,
                           on_uring_ready_ok, on_uring_ready_error, taskVars
<1>3. UNCHANGED vars => Nested'
  BY OtherNested DEF vars
<1>4. Running \subseteq Task
  BY DEF TaskInv, TaskTypes
<1> QED
  BY <1>1, <1>2, <1>3, <1>4, Steps, CreateNested, EnterNested, LeaveNested DEF EnterStep, LeaveStep

\* ContextNests, for any programs and any interleaving of their tasks: what a
\* task sees is what its own with blocks set, whatever the others enter, leave
\* or fail to enter.  (ContextVar_set and ContextVar_reset of the four managers.)
THEOREM ContextsNest == Spec => []ContextNests
<1>1. Init => Nested
  <2> SUFFICES ASSUME Init PROVE Nested
    OBVIOUS
  <2>1. Running = {Main} /\ Main \in Task /\ base[Main] = ContextVar_init
    BY TaskAssumption DEF Init, Running
  <2>2. nest[Main] = << >> /\ Len(nest[Main]) = 0 /\ context_var[Main] = ContextVar_init
    BY <2>1 DEF Init
  <2>3. ContextAt(manager, nest[Main], 0, ContextVar_init) = ContextVar_init
    BY ContextNone, InitContext
  <2> QED
    BY <2>1, <2>2, <2>3 DEF Nested
<1>2. Nested => ContextNests
  <2> SUFFICES ASSUME Nested, NEW t \in Running
               PROVE  context_var[t] =
                        [payload |-> InForce(t, {"BufferMode"}, LAMBDA m : m, base[t].payload),
                         stream |-> InForce(t, {"StreamStrategy"}, LAMBDA m : manager[m].stream,
                                            base[t].stream),
                         transfer |-> InForce(t, {"TransferMode"}, LAMBDA m : manager[m].transfer,
                                              base[t].transfer)]
    BY DEF ContextNests
  <2>1. \A types : SettersIn(t, types) = Setters(manager, nest[t], types, Len(nest[t]))
    BY DEF SettersIn, Setters
  <2>2. context_var[t] = ContextAt(manager, nest[t], Len(nest[t]), base[t])
    BY DEF Nested
  <2>3. /\ InForce(t, {"BufferMode"}, LAMBDA m : m, base[t].payload)
           = PayloadAt(manager, nest[t], Len(nest[t]), base[t])
        /\ InForce(t, {"StreamStrategy"}, LAMBDA m : manager[m].stream, base[t].stream)
           = StreamAt(manager, nest[t], Len(nest[t]), base[t])
        /\ InForce(t, {"TransferMode"}, LAMBDA m : manager[m].transfer, base[t].transfer)
           = TransferAt(manager, nest[t], Len(nest[t]), base[t])
    BY <2>1 DEF InForce, PayloadAt, StreamAt, TransferAt
  <2> QED
    BY <2>2, <2>3 DEF ContextAt
<1> QED
  BY <1>1, <1>2, InitTaskInv, StepTaskInv, StepNested, PTL DEF Spec
-----------------------------------------------------------------------------
(* The fixed buffers the kernel has *)

\* No manager is an ExecutionContext with FIXED buffers, whose exit leaves the
\* buffers registered (ExecutionContextCtx_exit resets the contextvar only).
NoFixedExecution == \A p \in Programs, m \in Manager :
  ~(p[m].type = "ExecutionContext" /\ p[m].mode = "FIXED")

\* The kernel has no buffers, or those of a manager of fixed buffers.
RegisteredFixed ==
  registered = NoManager \/ (registered \in Manager /\ HasBuffers(registered) /\ Mode(registered) = "FIXED")

\* What entering a with block does to the fixed buffers.
LEMMA EnterFixed ==
  ASSUME NEW t \in Task, NEW m \in Manager, EnterStep(t, m)
  PROVE  /\ phase[m] = "new" /\ phase' = [phase EXCEPT ![m] = "entered"] /\ manager' = manager
         /\ req' = req /\ buf_idx' = buf_idx /\ memory' = memory
         /\ IF HasBuffers(m) /\ Mode(m) = "FIXED"
            THEN /\ registered = NoManager /\ registered' = m
                 /\ idx_registry' = [idx_registry EXCEPT ![m] = buffer_idx_registry_create(Amount(m))]
            ELSE registered' = registered /\ idx_registry' = idx_registry
<1>1. CASE HasBuffers(m)
  BY <1>1 DEF EnterStep, Enters, InitMode, init_fixed_mode, bufferVars
<1>2. CASE ~HasBuffers(m)
  BY <1>2 DEF EnterStep, Enters, bufferVars
<1> QED
  BY <1>1, <1>2

\* What leaving one does to them.
LEMMA LeaveFixed ==
  ASSUME TaskInv, NEW t \in Task, NEW m \in Manager, LeaveStep(t, m)
  PROVE  /\ phase[m] = "entered" /\ phase' = [phase EXCEPT ![m] = "left"] /\ manager' = manager
         /\ req' = req /\ buf_idx' = buf_idx /\ memory' = memory
         /\ IF manager[m].type = "BufferMode" /\ Mode(m) = "FIXED"
            THEN /\ registered' = NoManager
                 /\ idx_registry' = [idx_registry EXCEPT ![m] = NoIndices]
            ELSE registered' = registered /\ idx_registry' = idx_registry
<1>1. phase[m] = "entered"
  <2>1. m = nest[t][Len(nest[t])] /\ Len(nest[t]) \in Nat \ {0}
    BY Leaving DEF LeaveStep
  <2>2. Len(nest[t]) \in 1 .. Len(nest[t])
    BY <2>1
  <2> QED
    BY <2>1, <2>2 DEF TaskInv, NestOK
<1>2. /\ phase' = [phase EXCEPT ![m] = "left"] /\ manager' = manager
      /\ req' = req /\ buf_idx' = buf_idx /\ memory' = memory
  BY DEF LeaveStep, Leaves
<1>3. CASE manager[m].type = "BufferMode"
  BY <1>1, <1>2, <1>3 DEF LeaveStep, CloseMode, close_fixed_mode, bufferVars, buffer_idx_registry_destroy
<1>4. CASE manager[m].type # "BufferMode"
  BY <1>1, <1>2, <1>4 DEF LeaveStep, bufferVars
<1> QED
  BY <1>3, <1>4

\* A request changes neither managers nor the buffers the kernel has.
LEMMA RequestFixed ==
  ASSUME NEW r \in Request, RequestStep(r)
  PROVE  manager' = manager /\ phase' = phase /\ registered' = registered
BY DEF RequestStep, read_fixed, read_or_recv, Calls, kernel_writes, on_uring_ready_ok,
       on_uring_ready_error, taskVars, bufferVars

\* Every step keeps the registration with the one FIXED context that is entered.
LEMMA StepRegistration ==
  ASSUME NoFixedExecution, TaskInv, RegisteredFixed, RegistrationMatches, [Next]_vars
  PROVE  RegisteredFixed' /\ RegistrationMatches'
<1> USE DEF RegisteredFixed, RegistrationMatches, HasBuffers, Mode
<1>1. ASSUME NEW t \in Task, NEW m \in Manager, EnterStep(t, m)
      PROVE  RegisteredFixed' /\ RegistrationMatches'
  <2>1. phase \in [Manager -> {"new", "entered", "left"}]
    BY DEF TaskInv, TaskTypes
  <2> QED
    BY <1>1, <2>1, EnterFixed, NoneAssumption
<1>2. ASSUME NEW t \in Task, NEW m \in Manager, LeaveStep(t, m)
      PROVE  RegisteredFixed' /\ RegistrationMatches'
  <2>1. phase \in [Manager -> {"new", "entered", "left"}]
    BY DEF TaskInv, TaskTypes
  <2>2. ~(manager[m].type = "ExecutionContext" /\ manager[m].mode = "FIXED")
    BY DEF NoFixedExecution, TaskInv, TaskTypes
  <2> QED
    BY <1>2, <2>1, <2>2, LeaveFixed, NoneAssumption
<1>3. ASSUME NEW t \in Task, NEW m \in Manager, EnterFails(t, m)
      PROVE  RegisteredFixed' /\ RegistrationMatches'
  <2>1. phase \in [Manager -> {"new", "entered", "left"}]
    BY DEF TaskInv, TaskTypes
  <2> QED
    BY <1>3, <2>1 DEF EnterFails, bufferVars
<1>4. ASSUME manager' = manager, phase' = phase, registered' = registered
      PROVE  RegisteredFixed' /\ RegistrationMatches'
  BY <1>4
<1>5. ASSUME NEW t \in Running, NEW u \in Task, create_task(t, u)
      PROVE  RegisteredFixed' /\ RegistrationMatches'
  BY <1>4, <1>5 DEF create_task, bufferVars
<1>6. UNCHANGED vars => RegisteredFixed' /\ RegistrationMatches'
  BY <1>4 DEF vars
<1>7. Running \subseteq Task
  BY DEF TaskInv, TaskTypes
<1>8. ASSUME NEW r \in Request, RequestStep(r) PROVE RegisteredFixed' /\ RegistrationMatches'
  BY <1>4, <1>8, RequestFixed
<1> HIDE DEF RegisteredFixed, RegistrationMatches
<1> QED
  BY <1>1, <1>2, <1>3, <1>5, <1>6, <1>7, <1>8, Steps

\* RegistrationMatches: in programs without FIXED ExecutionContexts, the kernel
\* has the fixed buffers of the one FIXED context that is entered and not left.
\* A second one that fails to enter does not take them away.
\* (init_fixed_mode, close_fixed_mode and the error path of BufferModeCtx_enter.)
THEOREM RegistrationFollowsContexts == ASSUME NoFixedExecution PROVE Spec => []RegistrationMatches
<1>1. Init => RegisteredFixed /\ RegistrationMatches
  BY NoneAssumption DEF Init, RegisteredFixed, RegistrationMatches
<1>2. TaskInv /\ RegisteredFixed /\ RegistrationMatches /\ [Next]_vars
        => RegisteredFixed' /\ RegistrationMatches'
  BY StepRegistration
<1> QED
  BY <1>1, <1>2, InitTaskInv, StepTaskInv, PTL DEF Spec
-----------------------------------------------------------------------------
(* The indices of the fixed buffers *)

\* A registry of n indices: the indices below the top are in order, since only
\* the request that took index 0 completes with one to give back; what it gives
\* back is what the payload holds by then: 0, or the -1 of a later request.
Pool(reg, n) ==
  /\ reg = [available_indices |-> reg.available_indices, top |-> reg.top, size |-> reg.size]
  /\ reg.size \in {0, n}
  /\ reg.available_indices \in [0 .. reg.size - 1 -> -1 .. reg.size - 1]
  /\ reg.top \in -1 .. reg.size - 1
  /\ \/ \A j \in 0 .. reg.top : reg.available_indices[j] = j
     \/ reg.top = 0 /\ reg.available_indices[0] = -1

\* A new registry has all its indices.
LEMMA PoolCreate ==
  ASSUME NEW n \in Nat \ {0}
  PROVE  Pool(buffer_idx_registry_create(n), n) /\ buffer_idx_registry_create(n).top = n - 1
BY DEF Pool, buffer_idx_registry_create

\* A destroyed one has no room.
LEMMA PoolDestroy ==
  ASSUME NEW n \in Nat \ {0} PROVE Pool(NoIndices, n) /\ NoIndices.top = -1 /\ NoIndices.size = 0
<1>1. << >> \in [0 .. 0 - 1 -> -1 .. 0 - 1]
  <2>1. 0 .. 0 - 1 = {} /\ DOMAIN << >> = {}
    OBVIOUS
  <2> QED
    BY <2>1
<1> QED
  BY <1>1 DEF Pool, NoIndices

\* Taking an index.
LEMMA PoolGet ==
  ASSUME NEW n \in Nat \ {0}, NEW reg, Pool(reg, n)
  PROVE  /\ Pool(AfterGet(reg), n) /\ AfterGet(reg).size = reg.size
         /\ get_buffer_idx(reg) \in -1 .. n - 1
         /\ \/ reg.top = -1 /\ AfterGet(reg) = reg /\ get_buffer_idx(reg) = -1
            \/ /\ reg.top >= 0 /\ AfterGet(reg).top = reg.top - 1
               /\ get_buffer_idx(reg) = reg.top \/ (get_buffer_idx(reg) = -1 /\ reg.top = 0)
<1>1. CASE reg.top < 0
  BY <1>1 DEF Pool, AfterGet, get_buffer_idx
<1>2. CASE reg.top >= 0
  <2>1. AfterGet(reg) = [available_indices |-> reg.available_indices, top |-> reg.top - 1, size |-> reg.size]
    BY <1>2 DEF Pool, AfterGet
  <2>2. get_buffer_idx(reg) = reg.available_indices[reg.top]
    BY <1>2 DEF Pool, get_buffer_idx
  <2>3. reg.top \in 0 .. reg.top
    BY <1>2 DEF Pool
  <2>4. get_buffer_idx(reg) = reg.top \/ (get_buffer_idx(reg) = -1 /\ reg.top = 0)
    BY <2>2, <2>3 DEF Pool
  <2>5. Pool(AfterGet(reg), n)
    BY <1>2, <2>1 DEF Pool
  <2> QED
    BY <1>2, <2>1, <2>4, <2>5 DEF Pool
<1> QED
  BY <1>1, <1>2 DEF Pool

\* Giving back an index to an empty registry.
LEMMA PoolRelease ==
  ASSUME NEW n \in Nat \ {0}, NEW reg, Pool(reg, n), reg.top = -1,
         NEW idx, reg.size # 0 => idx \in {0, -1}
  PROVE  /\ Pool(release_buffer_idx(reg, idx), n)
         /\ \/ reg.size = 0 /\ release_buffer_idx(reg, idx) = reg
            \/ reg.size = n /\ release_buffer_idx(reg, idx).top = 0
<1>1. CASE reg.size = 0
  BY <1>1 DEF Pool, release_buffer_idx
<1>2. CASE reg.size = n /\ idx \in {0, -1}
  <2>1. release_buffer_idx(reg, idx) =
          [available_indices |-> [reg.available_indices EXCEPT ![0] = idx], top |-> 0, size |-> n]
    <3>1. PICK a : a = reg.available_indices
      OBVIOUS
    <3>2. reg = [available_indices |-> a, top |-> -1, size |-> n]
      BY <1>2, <3>1 DEF Pool
    <3>3. reg.top + 1 = 0 /\ ~(reg.top + 1 >= reg.size)
      BY <1>2
    <3>4. release_buffer_idx(reg, idx) =
            [reg EXCEPT !.top = reg.top + 1,
                        !.available_indices = [reg.available_indices EXCEPT ![reg.top + 1] = idx]]
      BY <3>3, Zenon DEF release_buffer_idx
    <3>5. release_buffer_idx(reg, idx) =
            [reg EXCEPT !.top = 0, !.available_indices = [a EXCEPT ![0] = idx]]
      BY <3>1, <3>3, <3>4, Zenon
    <3>6. PICK f : f = [a EXCEPT ![0] = idx]
      OBVIOUS
    <3>7. PICK moved : moved = [reg EXCEPT !.top = 0]
      OBVIOUS
    <3>8. moved = [available_indices |-> a, top |-> 0, size |-> n]
      BY <3>2, <3>7
    <3>9. [moved EXCEPT !.available_indices = f] = [available_indices |-> f, top |-> 0, size |-> n]
      BY <3>8
    <3>10. [reg EXCEPT !.top = 0, !.available_indices = f] = [moved EXCEPT !.available_indices = f]
      BY <3>7
    <3> QED
      BY <3>1, <3>5, <3>6, <3>9, <3>10, Zenon
  <2>2. /\ [reg.available_indices EXCEPT ![0] = idx] \in [0 .. n - 1 -> -1 .. n - 1]
        /\ [reg.available_indices EXCEPT ![0] = idx][0] = idx
    BY <1>2 DEF Pool
  <2> QED
    BY <1>2, <2>1, <2>2 DEF Pool
<1> QED
  BY <1>1, <1>2 DEF Pool

\* A request, with the fields that tell which buffer it may use.
RequestRecord ==
  [state : {"new", "sent", "ok", "answered", "failed"}, payload : Manager \cup {NoManager},
   own : BOOLEAN, idx : Int, fits : BOOLEAN, result : Request \cup {NoRequest}]

\* A request that waits for its completion and shares a payload.
Holds(r) == req[r].state \in {"sent", "ok"} /\ ~req[r].own

PoolTypes ==
  /\ req \in [Request -> RequestRecord]
  /\ buf_idx \in [Manager -> Int]
  /\ DOMAIN idx_registry = Manager /\ idx_registry = [m \in Manager |-> idx_registry[m]]
  /\ \A m \in Manager : Pool(idx_registry[m], Amount(m))

\* When the registry is empty, the payload keeps index 0 or no index.
LastTaken == \A m \in Manager :
  idx_registry[m].top = -1 /\ idx_registry[m].size # 0 => buf_idx[m] \in {0, -1}

\* A request's index is above the free ones, and only a request with index 0 can
\* be done.
HeldAbove == \A r \in Request : Holds(r) =>
  /\ req[r].payload \in Manager /\ phase[req[r].payload] # "new"
  /\ Mode(req[r].payload) = "FIXED" =>
       /\ req[r].idx = -1 \/ req[r].idx > idx_registry[req[r].payload].top
       /\ req[r].fits \/ req[r].state = "ok" => req[r].idx = 0

\* No two requests have the same index.
HeldOnce == \A r, s \in Request :
  /\ Holds(r) /\ Holds(s) /\ req[r].payload = req[s].payload /\ Mode(req[r].payload) = "FIXED"
  /\ req[r].idx >= 0 /\ req[r].idx = req[s].idx
  => r = s

PoolInv == PoolTypes /\ LastTaken /\ HeldAbove /\ HeldOnce

\* Nobody holds an index at the start.
LEMMA InitPoolInv == Init => PoolInv
<1> SUFFICES ASSUME Init PROVE PoolInv
  OBVIOUS
<1>1. req = [r \in Request |-> NewRequest] /\ NewRequest \in RequestRecord /\ NewRequest.state = "new"
  BY DEF Init, NewRequest, RequestRecord
<1>2. \A m \in Manager : Amount(m) \in Nat \ {0}
  BY ManagerFields DEF Init, Amount
<1>3. PoolTypes
  BY <1>1, <1>2, PoolDestroy DEF Init, PoolTypes
<1>4. LastTaken
  BY PoolDestroy DEF Init, LastTaken
<1>5. HeldAbove /\ HeldOnce
  BY <1>1 DEF HeldAbove, HeldOnce, Holds
<1> QED
  BY <1>3, <1>4, <1>5 DEF PoolInv

\* Entering creates a registry, before any request shares the payload.
LEMMA EnterPoolInv ==
  ASSUME TaskInv, PoolInv, NEW t \in Task, NEW m \in Manager, EnterStep(t, m) PROVE PoolInv'
<1> USE DEF PoolInv
<1>1. /\ phase[m] = "new" /\ phase' = [phase EXCEPT ![m] = "entered"] /\ manager' = manager
      /\ req' = req /\ buf_idx' = buf_idx
  BY EnterFixed
<1>2. Amount(m) \in Nat \ {0} /\ phase \in [Manager -> {"new", "entered", "left"}]
  BY ManagerFields DEF Amount, TaskInv, TaskTypes
<1>3. PICK new : new = buffer_idx_registry_create(Amount(m))
  OBVIOUS
<1>4. Pool(new, Amount(m)) /\ new.top = Amount(m) - 1
  BY <1>2, <1>3, PoolCreate
<1>5. idx_registry' = idx_registry \/ idx_registry' = [idx_registry EXCEPT ![m] = new]
  BY <1>3, EnterFixed
<1>6. /\ DOMAIN idx_registry' = Manager /\ idx_registry' = [n \in Manager |-> idx_registry'[n]]
      /\ idx_registry'[m] = idx_registry[m] \/ idx_registry'[m] = new
      /\ \A n \in Manager \ {m} : idx_registry'[n] = idx_registry[n]
  BY <1>5 DEF PoolTypes
<1>7. \A n : Amount(n)' = Amount(n) /\ Mode(n)' = Mode(n)
  BY <1>1 DEF Amount, Mode
<1>8. PoolTypes'
  <2>1. \A n \in Manager : Pool(idx_registry'[n], Amount(n))
    BY <1>4, <1>6 DEF PoolTypes
  <2> QED
    BY <1>1, <1>6, <1>7, <2>1 DEF PoolTypes
<1>9. LastTaken'
  <2>1. new.top # -1
    BY <1>2, <1>4
  <2> QED
    BY <1>1, <1>6, <2>1 DEF LastTaken
<1>10. HeldAbove'
  BY <1>1, <1>2, <1>6, <1>7 DEF HeldAbove, Holds, Mode
<1>11. HeldOnce'
  BY <1>1, <1>7 DEF HeldOnce, Holds, Mode
<1> QED
  BY <1>8, <1>9, <1>10, <1>11

\* Leaving destroys it, also under the requests that still hold an index.
LEMMA LeavePoolInv ==
  ASSUME TaskInv, PoolInv, NEW t \in Task, NEW m \in Manager, LeaveStep(t, m) PROVE PoolInv'
<1> USE DEF PoolInv
<1>1. /\ phase' = [phase EXCEPT ![m] = "left"] /\ manager' = manager
      /\ req' = req /\ buf_idx' = buf_idx
  BY LeaveFixed
<1>2. Amount(m) \in Nat \ {0} /\ phase \in [Manager -> {"new", "entered", "left"}]
  BY ManagerFields DEF Amount, TaskInv, TaskTypes
<1>3. Pool(NoIndices, Amount(m)) /\ NoIndices.top = -1 /\ NoIndices.size = 0
  BY <1>2, PoolDestroy
<1>4. idx_registry' = idx_registry \/ idx_registry' = [idx_registry EXCEPT ![m] = NoIndices]
  BY LeaveFixed
<1>5. /\ DOMAIN idx_registry' = Manager /\ idx_registry' = [n \in Manager |-> idx_registry'[n]]
      /\ idx_registry'[m] = idx_registry[m] \/ idx_registry'[m] = NoIndices
      /\ \A n \in Manager \ {m} : idx_registry'[n] = idx_registry[n]
  BY <1>4 DEF PoolTypes
<1>6. \A n : Amount(n)' = Amount(n) /\ Mode(n)' = Mode(n)
  BY <1>1 DEF Amount, Mode
<1>7. PoolTypes'
  <2>1. \A n \in Manager : Pool(idx_registry'[n], Amount(n))
    BY <1>3, <1>5 DEF PoolTypes
  <2> QED
    BY <1>1, <1>5, <1>6, <2>1 DEF PoolTypes
<1>8. LastTaken'
  BY <1>1, <1>3, <1>5 DEF LastTaken
<1>9. HeldAbove'
  <2> SUFFICES ASSUME NEW r \in Request, Holds(r)
               PROVE  /\ req[r].payload \in Manager /\ phase'[req[r].payload] # "new"
                      /\ Mode(req[r].payload) = "FIXED" =>
                           /\ req[r].idx = -1 \/ req[r].idx > idx_registry'[req[r].payload].top
                           /\ req[r].fits \/ req[r].state = "ok" => req[r].idx = 0
    BY <1>1, <1>6 DEF HeldAbove, Holds, Mode
  <2>1. req[r].idx \in Int /\ req[r].payload \in Manager /\ phase'[req[r].payload] # "new"
    BY <1>1, <1>2 DEF HeldAbove, PoolTypes, RequestRecord
  <2>2. Pool(idx_registry[req[r].payload], Amount(req[r].payload))
    BY <2>1 DEF PoolTypes
  <2>3. idx_registry[req[r].payload].top \in Int /\ idx_registry[req[r].payload].top >= -1
    BY <2>2, <1>2, <2>1, ManagerFields DEF Pool, Amount, TaskInv, TaskTypes
  <2> QED
    BY <1>3, <1>5, <2>1, <2>3 DEF HeldAbove
<1>10. HeldOnce'
  BY <1>1, <1>6 DEF HeldOnce, Holds, Mode
<1> QED
  BY <1>7, <1>8, <1>9, <1>10

\* A request that has ended.
LEMMA EndedIs ==
  ASSUME NEW state \in {"answered", "failed"}, NEW result \in Request \cup {NoRequest}
  PROVE  /\ Ended(state, result) \in RequestRecord
         /\ Ended(state, result).state = state /\ Ended(state, result).result = result
<1>1. PICK new \in RequestRecord : new = NewRequest
  <2>1. NewRequest \in RequestRecord
    BY DEF NewRequest, RequestRecord
  <2> QED
    BY <2>1, Zenon
<1>2. PICK ended : ended = [new EXCEPT !.state = state, !.result = result]
  OBVIOUS
<1>3. ended \in RequestRecord /\ ended.state = state /\ ended.result = result
  BY <1>2 DEF RequestRecord
<1> QED
  BY <1>1, <1>2, <1>3, Zenon DEF Ended

\* A request that was made, or whose call raised.
LEMMA RequestedIs ==
  ASSUME NEW p \in Manager \cup {NoManager}, NEW idx \in Int, NEW state \in Outcomes
  PROVE  /\ Requested(p, idx, state) \in RequestRecord
         /\ \/ Requested(p, idx, state).state = "failed"
            \/ /\ Requested(p, idx, state).state = "sent"
               /\ Requested(p, idx, state).payload = p /\ Requested(p, idx, state).idx = idx
               /\ Requested(p, idx, state).own <=> ~Shares(p)
               /\ Requested(p, idx, state).fits <=> (~IsFixed(p) \/ Fits(p, idx))
<1>1. state \in {"sent", "failed"}
  BY DEF Outcomes
<1>2. CASE state = "failed"
  BY <1>2, EndedIs DEF Requested
<1>3. CASE state = "sent"
  BY <1>3 DEF Requested, RequestRecord
<1> QED
  BY <1>1, <1>2, <1>3

\* A step of a request that leaves the registries alone.
LEMMA RequestPoolInv ==
  ASSUME PoolInv, manager' = manager, phase' = phase, idx_registry' = idx_registry,
         buf_idx' = buf_idx, NEW r \in Request, NEW q \in RequestRecord,
         req' = [req EXCEPT ![r] = q],
         q.state \in {"sent", "ok"} /\ ~q.own =>
           /\ q.payload \in Manager /\ phase[q.payload] # "new"
           /\ Mode(q.payload) = "FIXED" =>
                /\ Holds(r) /\ req[r].payload = q.payload /\ req[r].idx = q.idx
                /\ q.fits \/ q.state = "ok" => q.idx = 0
  PROVE  PoolInv'
<1> USE DEF PoolInv
<1>1. /\ req' \in [Request -> RequestRecord] /\ req'[r] = q
      /\ \A s \in Request \ {r} : req'[s] = req[s]
  BY DEF PoolTypes
<1>2. \A n : Amount(n)' = Amount(n) /\ Mode(n)' = Mode(n)
  BY DEF Amount, Mode
<1>3. PoolTypes' /\ LastTaken'
  BY <1>1, <1>2 DEF PoolTypes, LastTaken
<1>4. HeldAbove'
  <2> SUFFICES ASSUME NEW s \in Request, Holds(s)'
               PROVE  /\ req'[s].payload \in Manager /\ phase[req'[s].payload] # "new"
                      /\ Mode(req'[s].payload) = "FIXED" =>
                           /\ req'[s].idx = -1 \/ req'[s].idx > idx_registry[req'[s].payload].top
                           /\ req'[s].fits \/ req'[s].state = "ok" => req'[s].idx = 0
    BY <1>2 DEF HeldAbove, Mode
  <2>1. CASE s = r
    BY <1>1, <2>1 DEF HeldAbove, Holds
  <2>2. CASE s # r
    BY <1>1, <2>2 DEF HeldAbove, Holds
  <2> QED
    BY <2>1, <2>2
<1>5. HeldOnce'
  <2> SUFFICES ASSUME NEW s \in Request, NEW u \in Request, Holds(s)', Holds(u)',
                      req'[s].payload = req'[u].payload, Mode(req'[s].payload) = "FIXED",
                      req'[s].idx >= 0, req'[s].idx = req'[u].idx
               PROVE  s = u
    BY <1>2 DEF HeldOnce, Mode
  <2>1. /\ Holds(s) /\ req[s].payload = req'[s].payload /\ req[s].idx = req'[s].idx
        /\ Holds(u) /\ req[u].payload = req'[u].payload /\ req[u].idx = req'[u].idx
    BY <1>1 DEF Holds
  <2> QED
    BY <2>1 DEF HeldOnce
<1> QED
  BY <1>3, <1>4, <1>5

\* A read takes an index of its payload, which has been entered.
LEMMA ReadFixedPoolInv ==
  ASSUME TaskInv, PoolInv, NEW t \in Task, NEW r \in Request, read_fixed(t, r) PROVE PoolInv'
<1> USE DEF PoolInv
<1>1. PICK p : p = context_var[t].payload
  OBVIOUS
<1>2. PICK idx : idx = get_buffer_idx(idx_registry[p])
  OBVIOUS
<1>3. PICK state \in Outcomes : req' = [req EXCEPT ![r] = Requested(p, idx, state)]
  BY <1>1, <1>2, Zenon DEF read_fixed
<1>4. /\ IsFixed(p) /\ req[r].state = "new" /\ manager' = manager /\ phase' = phase
      /\ idx_registry' = [idx_registry EXCEPT ![p] = AfterGet(idx_registry[p])]
      /\ buf_idx' = [buf_idx EXCEPT ![p] = idx]
  BY <1>1, <1>2 DEF read_fixed, Calls, taskVars
<1>5. p \in Manager /\ phase[p] # "new" /\ Shares(p) /\ Mode(p) = "FIXED"
  <2>1. context_var[t] \in Context /\ Entered(context_var[t])
    BY DEF TaskInv, TaskTypes, PayloadsEntered
  <2>2. p \in Manager \cup {NoManager}
    BY <1>1, <2>1 DEF Context
  <2> QED
    BY <1>1, <1>4, <2>1, <2>2 DEF IsFixed, Shares, Entered
<1>6. PICK reg, new : reg = idx_registry[p] /\ new = AfterGet(reg)
  OBVIOUS
<1>7. Amount(p) \in Nat \ {0} /\ Pool(reg, Amount(p)) /\ reg.top \in Int
  BY <1>5, <1>6, ManagerFields DEF PoolTypes, Pool, Amount, TaskInv, TaskTypes
<1>8. /\ Pool(new, Amount(p)) /\ new.size = reg.size /\ idx \in Int
      /\ \/ reg.top = -1 /\ new = reg /\ idx = -1
         \/ /\ reg.top >= 0 /\ new.top = reg.top - 1
            /\ idx = reg.top \/ (idx = -1 /\ reg.top = 0)
  BY <1>2, <1>6, <1>7, PoolGet
<1>9. /\ idx_registry'[p] = new /\ \A n \in Manager \ {p} : idx_registry'[n] = idx_registry[n]
      /\ DOMAIN idx_registry' = Manager /\ idx_registry' = [n \in Manager |-> idx_registry'[n]]
      /\ buf_idx'[p] = idx /\ \A n \in Manager \ {p} : buf_idx'[n] = buf_idx[n]
      /\ buf_idx' \in [Manager -> Int]
  BY <1>4, <1>5, <1>6, <1>8 DEF PoolTypes
<1>10. PICK q : q = Requested(p, idx, state)
  OBVIOUS
<1>11. /\ q \in RequestRecord
       /\ \/ q.state = "failed"
          \/ /\ q.state = "sent" /\ q.payload = p /\ q.idx = idx /\ ~q.own
             /\ q.fits => idx = 0
  BY <1>5, <1>8, <1>10, <1>4, RequestedIs DEF Fits
<1>12. /\ req' \in [Request -> RequestRecord] /\ req'[r] = q
       /\ \A s \in Request \ {r} : req'[s] = req[s]
  BY <1>3, <1>10, <1>11 DEF PoolTypes
<1>13. \A n : Amount(n)' = Amount(n) /\ Mode(n)' = Mode(n)
  BY <1>4 DEF Amount, Mode
<1>14. PoolTypes'
  <2>1. \A n \in Manager : Pool(idx_registry'[n], Amount(n))
    BY <1>8, <1>9 DEF PoolTypes
  <2> QED
    BY <1>9, <1>12, <1>13, <2>1 DEF PoolTypes
<1>15. LastTaken'
  <2> SUFFICES ASSUME NEW n \in Manager, idx_registry'[n].top = -1, idx_registry'[n].size # 0
               PROVE  buf_idx'[n] \in {0, -1}
    BY DEF LastTaken
  <2>1. CASE n = p
    BY <1>7, <1>8, <1>9, <2>1
  <2>2. CASE n # p
    BY <1>9, <2>2 DEF LastTaken
  <2> QED
    BY <2>1, <2>2
<1>16. \A s \in Request \ {r} : Holds(s)' => Holds(s)
  BY <1>12 DEF Holds
<1>17. ASSUME NEW s \in Request \ {r}, Holds(s), req[s].payload = p
       PROVE  req[s].idx \in Int /\ (req[s].idx = -1 \/ req[s].idx > reg.top)
  BY <1>5, <1>6, <1>17 DEF HeldAbove, PoolTypes, RequestRecord
<1>18. HeldAbove'
  <2> SUFFICES ASSUME NEW s \in Request, Holds(s)'
               PROVE  /\ req'[s].payload \in Manager /\ phase[req'[s].payload] # "new"
                      /\ Mode(req'[s].payload) = "FIXED" =>
                           /\ req'[s].idx = -1 \/ req'[s].idx > idx_registry'[req'[s].payload].top
                           /\ req'[s].fits \/ req'[s].state = "ok" => req'[s].idx = 0
    BY <1>4, <1>13 DEF HeldAbove, Mode
  <2>1. CASE s = r
    <3>1. q.state = "sent" /\ q.payload = p /\ q.idx = idx /\ (q.fits => idx = 0)
      BY <1>11, <1>12, <2>1 DEF Holds
    <3>2. idx = -1 \/ idx > new.top
      BY <1>7, <1>8
    <3> QED
      BY <1>5, <1>9, <1>12, <2>1, <3>1, <3>2
  <2>2. CASE s # r /\ req[s].payload = p
    <3>1. req[s].idx = -1 \/ req[s].idx > new.top
      BY <1>7, <1>8, <1>16, <1>17, <2>2
    <3> QED
      BY <1>9, <1>12, <1>16, <2>2, <3>1 DEF HeldAbove
  <2>3. CASE s # r /\ req[s].payload # p
    BY <1>9, <1>12, <1>16, <2>3 DEF HeldAbove
  <2> QED
    BY <2>1, <2>2, <2>3
<1>19. HeldOnce'
  <2> SUFFICES ASSUME NEW s \in Request, NEW u \in Request, Holds(s)', Holds(u)',
                      req'[s].payload = req'[u].payload, Mode(req'[s].payload) = "FIXED",
                      req'[s].idx >= 0, req'[s].idx = req'[u].idx
               PROVE  s = u
    BY <1>13 DEF HeldOnce, Mode
  <2>1. CASE s # r /\ u # r
    BY <1>12, <1>16, <2>1 DEF HeldOnce
  <2>2. ASSUME NEW v \in Request \ {r}, Holds(v), req[v].payload = p, Holds(r)',
               q.idx >= 0, req[v].idx = q.idx
        PROVE  FALSE
    <3>1. q.idx = idx
      BY <1>11, <1>12, <2>2 DEF Holds
    <3> QED
      BY <1>7, <1>8, <1>17, <2>2, <3>1
  <2>3. Holds(r)' => q.payload = p
    BY <1>11, <1>12 DEF Holds
  <2> QED
    BY <1>12, <1>16, <2>1, <2>2, <2>3
<1> QED
  BY <1>14, <1>15, <1>18, <1>19

\* A call in any other context takes no index.
LEMMA ReadPoolInv ==
  ASSUME TaskInv, PoolInv, NEW t \in Task, NEW r \in Request, read_or_recv(t, r) PROVE PoolInv'
<1>1. PICK p : p = context_var[t].payload
  OBVIOUS
<1>2. PICK state \in Outcomes : req' = [req EXCEPT ![r] = Requested(p, -1, state)]
  BY <1>1, Zenon DEF read_or_recv
<1>3. /\ ~IsFixed(p) /\ manager' = manager /\ phase' = phase
      /\ idx_registry' = idx_registry /\ buf_idx' = buf_idx
  BY <1>1 DEF read_or_recv, Calls, taskVars, fixedVars
<1>4. p \in Manager \cup {NoManager} /\ (p \in Manager => phase[p] # "new")
  <2>1. context_var[t] \in Context /\ Entered(context_var[t])
    BY DEF TaskInv, TaskTypes, PayloadsEntered
  <2> QED
    BY <1>1, <2>1 DEF Context, Entered
<1>5. PICK q : q = Requested(p, -1, state)
  OBVIOUS
<1>6. /\ q \in RequestRecord
      /\ q.state = "failed" \/ (q.state = "sent" /\ q.payload = p /\ (q.own <=> ~Shares(p)))
  BY <1>4, <1>5, RequestedIs
<1>7. q.state \in {"sent", "ok"} /\ ~q.own =>
        q.payload \in Manager /\ phase[q.payload] # "new" /\ Mode(q.payload) # "FIXED"
  BY <1>3, <1>4, <1>6 DEF Shares, IsFixed
<1> QED
  BY <1>2, <1>3, <1>5, <1>6, <1>7, RequestPoolInv

\* The kernel does a request that fits, or fails one.
LEMMA KernelPoolInv ==
  ASSUME PoolInv, NEW r \in Request, kernel_writes(r) \/ on_uring_ready_error(r) PROVE PoolInv'
<1>1. manager' = manager /\ phase' = phase /\ idx_registry' = idx_registry /\ buf_idx' = buf_idx
  BY DEF kernel_writes, on_uring_ready_error, taskVars, fixedVars
<1>2. CASE kernel_writes(r)
  <2>1. req[r].state = "sent" /\ req[r].fits /\ req' = [req EXCEPT ![r] = [req[r] EXCEPT !.state = "ok"]]
    BY <1>2 DEF kernel_writes
  <2>2. PICK q : q = [req[r] EXCEPT !.state = "ok"]
    OBVIOUS
  <2>3. /\ q \in RequestRecord /\ q.state = "ok" /\ q.payload = req[r].payload /\ q.idx = req[r].idx
        /\ q.own <=> req[r].own
    BY <2>2 DEF PoolInv, PoolTypes, RequestRecord
  <2>4. ~q.own => /\ Holds(r) /\ q.payload \in Manager /\ phase[q.payload] # "new"
                  /\ Mode(q.payload) = "FIXED" => q.idx = 0
    BY <2>1, <2>3 DEF PoolInv, HeldAbove, Holds
  <2> QED
    BY <1>1, <2>1, <2>2, <2>3, <2>4, RequestPoolInv
<1>3. CASE on_uring_ready_error(r)
  <2>1. PICK q : q = Ended("failed", NoRequest)
    OBVIOUS
  <2>2. q \in RequestRecord /\ q.state = "failed" /\ req' = [req EXCEPT ![r] = q]
    BY <1>3, <2>1, EndedIs DEF on_uring_ready_error
  <2> QED
    BY <1>1, <2>2, RequestPoolInv
<1> QED
  BY <1>2, <1>3

\* The reader gives back what the payload holds: the registry is empty then,
\* since the request that is done had index 0.
LEMMA ReaderPoolInv ==
  ASSUME TaskInv, PoolInv, NEW r \in Request, on_uring_ready_ok(r),
         memory \in [Manager \cup Request -> Request \cup {NoRequest}]
  PROVE  PoolInv'
<1> USE DEF PoolInv
<1>1. PICK p, res : p = req[r].payload /\ res = memory[IF req[r].own THEN r ELSE p]
  OBVIOUS
<1>2. PICK q : q = Ended("answered", res)
  OBVIOUS
<1>3. /\ req[r].state = "ok" /\ req' = [req EXCEPT ![r] = q] /\ manager' = manager /\ phase' = phase
      /\ buf_idx' = buf_idx
      /\ idx_registry' = IF req[r].own \/ ~IsFixed(p) THEN idx_registry
                         ELSE [idx_registry EXCEPT ![p] = release_buffer_idx(idx_registry[p], buf_idx[p])]
  BY <1>1, <1>2 DEF on_uring_ready_ok, taskVars
<1>4. q \in RequestRecord /\ q.state = "answered"
  <2>1. ~req[r].own => p \in Manager
    BY <1>1, <1>3 DEF HeldAbove, Holds
  <2>2. res \in Request \cup {NoRequest}
    BY <1>1, <2>1
  <2> QED
    BY <1>2, <2>2, EndedIs
<1>5. CASE req[r].own \/ ~IsFixed(p)
  BY <1>3, <1>4, <1>5, RequestPoolInv
<1>6. CASE ~req[r].own /\ IsFixed(p)
  <2>1. PICK reg, new : reg = idx_registry[p] /\ new = release_buffer_idx(reg, buf_idx[p])
    OBVIOUS
  <2>2. Holds(r) /\ p \in Manager /\ Mode(p) = "FIXED" /\ req[r].idx = 0
    BY <1>1, <1>3, <1>6 DEF HeldAbove, Holds, IsFixed
  <2>3. Amount(p) \in Nat \ {0} /\ Pool(reg, Amount(p))
    BY <2>1, <2>2, ManagerFields DEF PoolTypes, Amount, TaskInv, TaskTypes
  <2>4. reg.top = -1
    <3>1. 0 > reg.top
      BY <1>1, <2>1, <2>2 DEF HeldAbove
    <3> QED
      BY <2>3, <3>1 DEF Pool
  <2>5. reg.size # 0 => buf_idx[p] \in {0, -1}
    BY <2>1, <2>2, <2>4 DEF LastTaken
  <2>6. /\ Pool(new, Amount(p))
        /\ (reg.size = 0 /\ new = reg) \/ new.top = 0
    BY <2>1, <2>3, <2>4, <2>5, PoolRelease
  <2>7. /\ idx_registry'[p] = new /\ \A n \in Manager \ {p} : idx_registry'[n] = idx_registry[n]
        /\ DOMAIN idx_registry' = Manager /\ idx_registry' = [n \in Manager |-> idx_registry'[n]]
    BY <1>3, <1>6, <2>1, <2>2 DEF PoolTypes
  <2>8. /\ req' \in [Request -> RequestRecord] /\ req'[r] = q
        /\ \A s \in Request \ {r} : req'[s] = req[s]
    BY <1>3, <1>4 DEF PoolTypes
  <2>9. \A n : Amount(n)' = Amount(n) /\ Mode(n)' = Mode(n)
    BY <1>3 DEF Amount, Mode
  <2>10. \A s \in Request : Holds(s)' => Holds(s) /\ s # r /\ req'[s] = req[s]
    BY <1>4, <2>8 DEF Holds
  <2>11. PoolTypes'
    <3>1. \A n \in Manager : Pool(idx_registry'[n], Amount(n))
      BY <2>6, <2>7 DEF PoolTypes
    <3> QED
      BY <1>3, <2>7, <2>8, <2>9, <3>1 DEF PoolTypes
  <2>12. LastTaken'
    <3> SUFFICES ASSUME NEW n \in Manager, idx_registry'[n].top = -1, idx_registry'[n].size # 0
                 PROVE  buf_idx'[n] \in {0, -1}
      BY DEF LastTaken
    <3>1. CASE n = p
      BY <2>6, <2>7, <3>1
    <3>2. CASE n # p
      BY <1>3, <2>7, <3>2 DEF LastTaken
    <3> QED
      BY <3>1, <3>2
  <2>13. HeldAbove'
    <3> SUFFICES ASSUME NEW s \in Request, Holds(s)'
                 PROVE  /\ req'[s].payload \in Manager /\ phase[req'[s].payload] # "new"
                        /\ Mode(req'[s].payload) = "FIXED" =>
                             /\ req'[s].idx = -1 \/ req'[s].idx > idx_registry'[req'[s].payload].top
                             /\ req'[s].fits \/ req'[s].state = "ok" => req'[s].idx = 0
      BY <1>3, <2>9 DEF HeldAbove, Mode
    <3>1. Holds(s) /\ s # r /\ req'[s] = req[s]
      BY <2>10
    <3>2. CASE req[s].payload = p
      <4>1. req[s].idx \in Int /\ (req[s].idx = -1 \/ req[s].idx > reg.top)
        BY <2>1, <2>2, <3>1, <3>2 DEF HeldAbove, PoolTypes, RequestRecord
      <4>2. req[s].idx # 0
        BY <1>1, <2>2, <3>1, <3>2 DEF HeldOnce
      <4>3. req[s].idx = -1 \/ req[s].idx > new.top
        BY <2>4, <2>6, <4>1, <4>2
      <4> QED
        BY <2>7, <3>1, <3>2, <4>3 DEF HeldAbove
    <3>3. CASE req[s].payload # p
      BY <2>7, <3>1, <3>3 DEF HeldAbove
    <3> QED
      BY <3>2, <3>3
  <2>14. HeldOnce'
    <3> SUFFICES ASSUME NEW s \in Request, NEW u \in Request, Holds(s)', Holds(u)',
                        req'[s].payload = req'[u].payload, Mode(req'[s].payload) = "FIXED",
                        req'[s].idx >= 0, req'[s].idx = req'[u].idx
                 PROVE  s = u
      BY <2>9 DEF HeldOnce, Mode
    <3> QED
      BY <2>10 DEF HeldOnce
  <2> QED
    BY <2>11, <2>12, <2>13, <2>14
<1> QED
  BY <1>5, <1>6
-----------------------------------------------------------------------------
(* Buffer groups and memory *)

Entry == [owner : Manager, bid : Nat]
BufferTypes ==
  /\ registered \in Manager \cup {NoManager} /\ buf_ring \subseteq Manager
  /\ group \in [Manager \cup {NoManager} -> Seq(Entry)]
  /\ memory \in [Manager \cup Request -> Request \cup {NoRequest}]

\* The entries a manager puts in its group.
LEMMA BuffersType ==
  ASSUME TaskInv, NEW m \in Manager
  PROVE  Buffers(m) \in Seq(Entry) /\ Bgid(m) \in Manager \cup {NoManager}
<1>1. Amount(m) \in Nat
  BY ManagerFields DEF Amount, TaskInv, TaskTypes
<1>2. \A i \in 1 .. Amount(m) : [owner |-> m, bid |-> i - 1] \in Entry
  BY <1>1 DEF Entry
<1>3. Buffers(m) \in [1 .. Amount(m) -> Entry]
  BY <1>2 DEF Buffers
<1> QED
  BY <1>1, <1>3, SeqDef DEF Bgid

\* Entering fills a group, leaving empties one.
LEMMA ManageBufferTypes ==
  ASSUME TaskInv, BufferTypes, NEW t \in Task, NEW m \in Manager,
         EnterStep(t, m) \/ LeaveStep(t, m)
  PROVE  BufferTypes'
<1>1. registered' \in Manager \cup {NoManager} /\ memory' = memory
  BY EnterFixed, LeaveFixed DEF BufferTypes
<1>2. PICK b \in Seq(Entry), g \in Manager \cup {NoManager} : b = Buffers(m) /\ g = Bgid(m)
  BY BuffersType, Zenon
<1>3. /\ buf_ring' \in {buf_ring, buf_ring \cup {m}, buf_ring \ {m}}
      /\ \/ group' = group \/ group' = [group EXCEPT ![g] = << >>]
         \/ group' = [group EXCEPT ![g] = group[g] \o b] \/ group' = [group EXCEPT ![g] = b]
  <2>1. CASE EnterStep(t, m)
    <3>1. CASE HasBuffers(m)
      BY <1>2, <2>1, <3>1 DEF EnterStep, InitMode, init_provided_mode, init_buf_ring_mode, bufferVars
    <3>2. CASE ~HasBuffers(m)
      BY <2>1, <3>2 DEF EnterStep, bufferVars
    <3> QED
      BY <3>1, <3>2
  <2>2. CASE LeaveStep(t, m)
    <3>1. CASE manager[m].type = "BufferMode"
      BY <1>2, <2>2, <3>1 DEF LeaveStep, CloseMode, close_provided_mode, close_buf_ring_mode, bufferVars
    <3>2. CASE manager[m].type # "BufferMode"
      BY <2>2, <3>2 DEF LeaveStep, bufferVars
    <3> QED
      BY <3>1, <3>2
  <2> QED
    BY <2>1, <2>2
<1>4. group' \in [Manager \cup {NoManager} -> Seq(Entry)]
  <2>1. group[g] \o b \in Seq(Entry) /\ << >> \in Seq(Entry)
    BY DEF BufferTypes
  <2> QED
    BY <1>3, <2>1 DEF BufferTypes
<1> QED
  BY <1>1, <1>3, <1>4 DEF BufferTypes

\* The kernel takes an entry from a group and writes to its owner's buffer, or
\* to that of the request's payload.
LEMMA WriteBufferTypes ==
  ASSUME PoolInv, BufferTypes, NEW r \in Request, kernel_writes(r) PROVE BufferTypes'
<1>1. PICK p, g : p = req[r].payload /\ g = Bgid(p)
  OBVIOUS
<1>2. registered' = registered /\ buf_ring' = buf_ring /\ req[r].state = "sent"
  BY DEF kernel_writes
<1>3. ~req[r].own => p \in Manager
  BY <1>1, <1>2 DEF PoolInv, HeldAbove, Holds
<1>4. CASE ~req[r].own /\ Selects(p)
  <2>1. PICK e : e = Head(group[g])
    OBVIOUS
  <2>2. /\ group[g] # << >> /\ group' = [group EXCEPT ![g] = Tail(group[g])]
        /\ memory' = memory \/ memory' = [memory EXCEPT ![e.owner] = r]
    BY <1>1, <1>4, <2>1 DEF kernel_writes
  <2>3. g \in Manager \cup {NoManager}
    BY <1>1, <1>3, <1>4 DEF Bgid
  <2>4. e \in Entry /\ Tail(group[g]) \in Seq(Entry)
    BY <2>1, <2>2, <2>3 DEF BufferTypes
  <2>5. e.owner \in Manager
    BY <2>4 DEF Entry
  <2> QED
    BY <1>2, <2>2, <2>4, <2>5 DEF BufferTypes
<1>5. CASE ~(~req[r].own /\ Selects(p))
  <2>1. group' = group /\ memory' = [memory EXCEPT ![IF req[r].own THEN r ELSE p] = r]
    BY <1>1, <1>5 DEF kernel_writes
  <2> QED
    BY <1>2, <1>3, <2>1 DEF BufferTypes
<1> QED
  BY <1>4, <1>5

ContextInv == TaskInv /\ PoolInv /\ BufferTypes

\* The initial states have it.
LEMMA InitContextInv == Init => ContextInv
<1>1. Init => BufferTypes
  BY DEF Init, BufferTypes
<1> QED
  BY <1>1, InitTaskInv, InitPoolInv DEF ContextInv

\* Every step keeps the invariant of contexts, registries and buffers.
LEMMA StepContextInv == ContextInv /\ [Next]_vars => ContextInv'
<1> SUFFICES ASSUME ContextInv, [Next]_vars PROVE PoolInv' /\ BufferTypes'
  BY StepTaskInv DEF ContextInv
<1> USE DEF ContextInv
<1>1. ASSUME NEW t \in Task, NEW m \in Manager, EnterStep(t, m) \/ LeaveStep(t, m)
      PROVE  PoolInv' /\ BufferTypes'
  BY <1>1, EnterPoolInv, LeavePoolInv, ManageBufferTypes
<1>2. ASSUME UNCHANGED <<manager, bufferVars, fixedVars, req, memory>>,
             phase' = phase \/ \E m \in Manager : phase[m] = "new" /\ phase' = [phase EXCEPT ![m] = "left"]
      PROVE  PoolInv' /\ BufferTypes'
  <2>1. manager' = manager /\ idx_registry' = idx_registry /\ buf_idx' = buf_idx /\ req' = req
    BY <1>2 DEF fixedVars
  <2>2. \A n : Amount(n)' = Amount(n) /\ Mode(n)' = Mode(n)
    BY <2>1 DEF Amount, Mode
  <2>3. PoolTypes' /\ LastTaken' /\ HeldOnce'
    BY <2>1, <2>2 DEF PoolInv, PoolTypes, LastTaken, HeldOnce, Holds, Mode
  <2>4. \A m \in Manager : phase[m] # "new" => phase'[m] # "new"
    BY <1>2 DEF TaskInv, TaskTypes
  <2>5. HeldAbove'
    BY <2>1, <2>2, <2>4 DEF PoolInv, HeldAbove, Holds, Mode
  <2>6. BufferTypes'
    BY <1>2 DEF BufferTypes, bufferVars
  <2> QED
    BY <2>3, <2>5, <2>6 DEF PoolInv
<1>3. ASSUME NEW t \in Task, NEW m \in Manager, EnterFails(t, m) PROVE PoolInv' /\ BufferTypes'
  BY <1>2, <1>3 DEF EnterFails
<1>4. ASSUME NEW t \in Running, NEW u \in Task, create_task(t, u) PROVE PoolInv' /\ BufferTypes'
  BY <1>2, <1>4 DEF create_task
<1>5. UNCHANGED vars => PoolInv' /\ BufferTypes'
  BY <1>2 DEF vars, bufferVars, fixedVars
<1>6. ASSUME NEW r \in Request, RequestStep(r) PROVE PoolInv' /\ BufferTypes'
  <2>1. PoolInv'
    BY <1>6, ReadFixedPoolInv, ReadPoolInv, KernelPoolInv, ReaderPoolInv DEF RequestStep, BufferTypes
  <2>2. CASE kernel_writes(r)
    BY <2>1, <2>2, WriteBufferTypes
  <2>3. CASE ~kernel_writes(r)
    <3>1. UNCHANGED <<bufferVars, memory>>
      BY <1>6, <2>3 DEF RequestStep, read_fixed, read_or_recv, Calls, on_uring_ready_ok, on_uring_ready_error
    <3> QED
      BY <2>1, <3>1 DEF BufferTypes, bufferVars
  <2> QED
    BY <2>2, <2>3
<1>7. Running \subseteq Task
  BY DEF TaskInv, TaskTypes
<1> QED
  BY <1>1, <1>3, <1>4, <1>5, <1>6, <1>7, Steps

\* The type invariant.
THEOREM ContextsTypeOK == Spec => []TypeOK
<1>1. ContextInv => TypeOK
  <2> SUFFICES ASSUME ContextInv PROVE TypeOK
    OBVIOUS
  <2> USE DEF ContextInv
  <2>1. ASSUME NEW m \in Manager PROVE idx_registry[m] \in IdxRegistry
    <3>1. Amount(m) \in Nat \ {0} /\ Pool(idx_registry[m], Amount(m))
      BY ManagerFields DEF PoolInv, PoolTypes, Amount, TaskInv, TaskTypes
    <3>2. PICK a, top, size : /\ a = idx_registry[m].available_indices
                              /\ top = idx_registry[m].top /\ size = idx_registry[m].size
      OBVIOUS
    <3>3. /\ idx_registry[m] = [available_indices |-> a, top |-> top, size |-> size]
          /\ size \in {0, Amount(m)} /\ a \in [0 .. size - 1 -> -1 .. size - 1]
          /\ top \in -1 .. size - 1
      BY <3>1, <3>2, Zenon DEF Pool
    <3>4. size \in {0} \cup {Amount(n) : n \in Manager} /\ size \in Nat /\ top \in Nat \cup {-1}
      BY <3>1, <3>3
    <3>5. a \in UNION {[0 .. n - 1 -> -1 .. n - 1] : n \in {0} \cup {Amount(k) : k \in Manager}}
      BY <3>3, <3>4, Zenon
    <3> QED
      BY <3>3, <3>4, <3>5 DEF IdxRegistry
  <2>2. idx_registry \in [Manager -> IdxRegistry]
    BY <2>1 DEF PoolInv, PoolTypes
  <2>3. \A r \in Request : req[r].state \in {"new", "sent", "ok", "answered", "failed"}
    BY DEF PoolInv, PoolTypes, RequestRecord
  <2> QED
    BY <2>2, <2>3 DEF TypeOK, TaskInv, TaskTypes, BufferTypes, Entry
<1> QED
  BY <1>1, InitContextInv, StepContextInv, PTL DEF Spec

\* PoolSound, for any programs: the stack of indices stays in its array, also
\* for completions read after the context was left, and no index is free and
\* held, or held twice.  (get_buffer_idx, release_buffer_idx, and the one
\* buf_idx that the requests of a payload share.)
THEOREM PoolStaysSound == Spec => []PoolSound
<1>1. ContextInv => PoolSound
  <2> SUFFICES ASSUME ContextInv, NEW m \in Manager, Mode(m) = "FIXED"
               PROVE  /\ InArray(idx_registry[m])
                      /\ \A j, k \in 0 .. idx_registry[m].top :
                           /\ idx_registry[m].available_indices[j] = idx_registry[m].available_indices[k]
                           /\ idx_registry[m].available_indices[j] >= 0
                           => j = k
                      /\ \A r \in InFlight(m) : req[r].idx >= 0 =>
                           /\ req[r].idx \notin FreeIdx(idx_registry[m])
                           /\ \A s \in InFlight(m) : req[s].idx = req[r].idx => s = r
    BY DEF PoolSound
  <2> USE DEF ContextInv, PoolInv
  <2>1. PICK reg : reg = idx_registry[m]
    OBVIOUS
  <2>2. Amount(m) \in Nat \ {0} /\ Pool(reg, Amount(m))
    BY <2>1, ManagerFields DEF PoolTypes, Amount, TaskInv, TaskTypes
  <2>3. InArray(reg)
    BY <2>2 DEF Pool, InArray
  <2>4. \A j, k \in 0 .. reg.top :
          reg.available_indices[j] = reg.available_indices[k] /\ reg.available_indices[j] >= 0 => j = k
    BY <2>2 DEF Pool
  <2>5. \A r \in InFlight(m) : /\ r \in Request /\ Holds(r) /\ req[r].payload = m /\ req[r].idx \in Int
                               /\ req[r].idx = -1 \/ req[r].idx > reg.top
    BY <2>1 DEF InFlight, Holds, HeldAbove, PoolTypes, RequestRecord
  <2>6. \A f \in FreeIdx(reg) : f = -1 \/ f <= reg.top
    BY <2>2 DEF FreeIdx, Pool
  <2>7. \A r \in InFlight(m) : req[r].idx >= 0 => req[r].idx \notin FreeIdx(reg)
    BY <2>2, <2>5, <2>6 DEF Pool
  <2>8. \A r, s \in InFlight(m) : req[r].idx >= 0 /\ req[s].idx = req[r].idx => s = r
    BY <2>5 DEF HeldOnce
  <2> QED
    BY <2>1, <2>3, <2>4, <2>7, <2>8
<1> QED
  BY <1>1, InitContextInv, StepContextInv, PTL DEF Spec
-----------------------------------------------------------------------------
(* Every request reads its own data *)

\* The contexts whose requests cannot meet in one buffer: a group of one buffer
\* (or a ring that is never set up), and one ring, since all rings share bgid 0.
\* Contexts of fixed buffers may have any number of them.  (Managers and requests
\* are told apart: each names a buffer in memory.)
OneBufferGroups ==
  /\ Manager \cap Request = {}
  /\ \A p \in Programs, m \in Manager :
       /\ p[m].mode = "PROVIDED" => p[m].amount = 1
       /\ p[m].mode = "BUF_RING" => p[m].amount = 1 \/ ~IsPowerOfTwo(p[m].amount)
       /\ \A n \in Manager : p[m].mode = "BUF_RING" /\ p[n].mode = "BUF_RING" => m = n

SelectMode(m) == Mode(m) \in {"PROVIDED", "BUF_RING"}
Done(r, m) == req[r].state = "ok" /\ ~req[r].own /\ req[r].payload = m

\* A group has the one buffer of its manager, until a request is done with it.
GroupOK == \A m \in Manager : SelectMode(m) =>
  /\ Len(group[Bgid(m)]) \in {0, 1}
  /\ Len(group[Bgid(m)]) = 1 => group[Bgid(m)][1] = [owner |-> m, bid |-> 0]
  /\ phase[m] = "new" \/ (\E r \in Request : Done(r, m)) => Len(group[Bgid(m)]) = 0

\* What is in the buffer that the reader will copy from is the request's.
WrittenOK == \A r \in Request :
  /\ Holds(r) => Mode(req[r].payload) # "NORMAL_BUF"
  /\ req[r].state = "ok" => memory[IF req[r].own THEN r ELSE req[r].payload] = r
  /\ req[r].state = "answered" => req[r].result = r

\* Only the manager itself has its group.
LEMMA OwnGroup ==
  ASSUME OneBufferGroups, TaskInv, NEW m \in Manager, NEW n \in Manager, SelectMode(m), SelectMode(n),
         Bgid(m) = Bgid(n)
  PROVE  m = n
BY NoneAssumption DEF OneBufferGroups, TaskInv, TaskTypes, SelectMode, Bgid, Mode

\* A manager that selects puts one buffer in its group, if any.
LEMMA OneBuffer ==
  ASSUME OneBufferGroups, TaskInv, NEW m \in Manager, SelectMode(m), Mode(m) = "PROVIDED" \/ IsPowerOfTwo(Amount(m))
  PROVE  Buffers(m) \in Seq(Entry) /\ Len(Buffers(m)) = 1 /\ Buffers(m)[1] = [owner |-> m, bid |-> 0]
<1>1. Amount(m) = 1
  BY DEF OneBufferGroups, TaskInv, TaskTypes, SelectMode, Mode, Amount
<1>2. Buffers(m) = [i \in 1 .. 1 |-> [owner |-> m, bid |-> i - 1]]
  BY <1>1 DEF Buffers
<1> QED
  BY <1>2, BuffersType

\* Entering and leaving with blocks.
LEMMA ManageGroups ==
  ASSUME OneBufferGroups, ContextInv, GroupOK, WrittenOK, NEW t \in Task, NEW m \in Manager,
         EnterStep(t, m) \/ LeaveStep(t, m)
  PROVE  GroupOK' /\ WrittenOK'
<1> USE DEF ContextInv
<1>1. /\ manager' = manager /\ req' = req /\ memory' = memory
      /\ phase' = [phase EXCEPT ![m] = "entered"] \/ phase' = [phase EXCEPT ![m] = "left"]
  BY EnterFixed, LeaveFixed
<1>2. WrittenOK'
  BY <1>1 DEF WrittenOK, Holds, Mode
<1>3. \/ group' = group
      \/ /\ SelectMode(m)
         /\ \A g \in Manager \cup {NoManager} : g # Bgid(m) => group'[g] = group[g]
         /\ \/ Len(group'[Bgid(m)]) = 0
            \/ /\ phase[m] = "new" /\ Len(group'[Bgid(m)]) = 1
               /\ group'[Bgid(m)][1] = [owner |-> m, bid |-> 0]
  <2>1. PICK b \in Seq(Entry), g \in Manager \cup {NoManager} : b = Buffers(m) /\ g = Bgid(m)
    BY BuffersType, Zenon
  <2>2. group \in [Manager \cup {NoManager} -> Seq(Entry)]
    BY DEF BufferTypes
  <2>3. CASE EnterStep(t, m)
    <3>1. phase[m] = "new"
      BY <2>3, EnterFixed
    <3>2. \/ group' = group
          \/ Mode(m) = "PROVIDED" /\ group' = [group EXCEPT ![g] = group[g] \o b]
          \/ Mode(m) = "BUF_RING" /\ IsPowerOfTwo(Amount(m)) /\ group' = [group EXCEPT ![g] = b]
      <4>1. CASE HasBuffers(m)
        BY <2>1, <2>3, <4>1 DEF EnterStep, InitMode, init_provided_mode, init_buf_ring_mode, CanSetUp, bufferVars
      <4>2. CASE ~HasBuffers(m)
        BY <2>3, <4>2 DEF EnterStep, bufferVars
      <4> QED
        BY <4>1, <4>2
    <3>3. CASE Mode(m) = "PROVIDED" /\ group' = [group EXCEPT ![g] = group[g] \o b]
      <4>1. SelectMode(m) /\ Len(group[g]) = 0 /\ group[g] \in Seq(Entry)
        BY <2>1, <2>2, <3>1, <3>3 DEF SelectMode, GroupOK
      <4>2. Len(b) = 1 /\ b[1] = [owner |-> m, bid |-> 0]
        BY <2>1, <3>3, <4>1, OneBuffer
      <4>3. Len(group[g] \o b) = 1 /\ (group[g] \o b)[1] = b[1]
        <5>1. group[g] = << >>
          BY <4>1
        <5>2. << >> \o b = b
          BY ConcatEmptySeq
        <5> QED
          BY <4>2, <5>1, <5>2
      <4>4. group'[g] = group[g] \o b /\ \A h \in Manager \cup {NoManager} : h # g => group'[h] = group[h]
        BY <2>2, <3>3
      <4> QED
        BY <2>1, <3>1, <4>1, <4>2, <4>3, <4>4
    <3>4. CASE Mode(m) = "BUF_RING" /\ IsPowerOfTwo(Amount(m)) /\ group' = [group EXCEPT ![g] = b]
      <4>1. SelectMode(m)
        BY <3>4 DEF SelectMode
      <4>2. Len(b) = 1 /\ b[1] = [owner |-> m, bid |-> 0]
        BY <2>1, <3>4, <4>1, OneBuffer
      <4>3. group'[g] = b /\ \A h \in Manager \cup {NoManager} : h # g => group'[h] = group[h]
        BY <2>2, <3>4
      <4> QED
        BY <2>1, <3>1, <4>1, <4>2, <4>3
    <3> QED
      BY <3>2, <3>3, <3>4
  <2>4. CASE LeaveStep(t, m)
    <3>1. group' = group \/ (SelectMode(m) /\ group' = [group EXCEPT ![g] = << >>])
      <4>1. CASE manager[m].type = "BufferMode"
        BY <2>1, <2>4, <4>1 DEF LeaveStep, CloseMode, close_provided_mode, close_buf_ring_mode, bufferVars, SelectMode
      <4>2. CASE manager[m].type # "BufferMode"
        BY <2>4, <4>2 DEF LeaveStep, bufferVars
      <4> QED
        BY <4>1, <4>2
    <3>2. Len(<< >>) = 0
      OBVIOUS
    <3> QED
      BY <2>1, <2>2, <3>1, <3>2
  <2> QED
    BY <2>3, <2>4
<1>4. GroupOK'
  <2> SUFFICES ASSUME NEW n \in Manager, SelectMode(n)
               PROVE  /\ Len(group'[Bgid(n)]) \in {0, 1}
                      /\ Len(group'[Bgid(n)]) = 1 => group'[Bgid(n)][1] = [owner |-> n, bid |-> 0]
                      /\ phase'[n] = "new" \/ (\E r \in Request : Done(r, n)) => Len(group'[Bgid(n)]) = 0
    BY <1>1 DEF GroupOK, SelectMode, Mode, Bgid, Done
  <2>1. phase'[n] = "new" => phase[n] = "new" /\ n # m
    BY <1>1 DEF TaskInv, TaskTypes
  <2>2. Bgid(n) \in Manager \cup {NoManager}
    BY DEF Bgid
  <2>3. CASE group'[Bgid(n)] = group[Bgid(n)]
    BY <2>1, <2>3 DEF GroupOK
  <2>4. CASE group'[Bgid(n)] # group[Bgid(n)]
    <3>1. n = m
      BY <1>3, <2>2, <2>4, OwnGroup
    <3>2. phase[m] = "new" => ~\E r \in Request : Done(r, m)
      BY DEF PoolInv, HeldAbove, Holds, Done
    <3> QED
      BY <1>3, <2>1, <2>4, <3>1, <3>2
  <2> QED
    BY <2>3, <2>4
<1> QED
  BY <1>2, <1>4

\* A request is made, fails, or is answered.
LEMMA RequestData ==
  ASSUME ContextInv, GroupOK, WrittenOK, NEW r \in Request, NEW q \in RequestRecord,
         manager' = manager, phase' = phase, group' = group, memory' = memory,
         req' = [req EXCEPT ![r] = q], q.state \in {"sent", "answered", "failed"},
         q.state = "sent" /\ ~q.own => Mode(q.payload) # "NORMAL_BUF",
         q.state = "answered" => q.result = r
  PROVE  GroupOK' /\ WrittenOK'
<1>1. req'[r] = q /\ \A s \in Request \ {r} : req'[s] = req[s]
  BY DEF ContextInv, PoolInv, PoolTypes
<1>2. \A m : \A s \in Request : Done(s, m)' => Done(s, m)
  BY <1>1 DEF Done
<1>3. \A m : SelectMode(m)' = SelectMode(m) /\ Bgid(m)' = Bgid(m) /\ Mode(m)' = Mode(m)
  BY DEF SelectMode, Bgid, Mode
<1>4. GroupOK'
  BY <1>2, <1>3 DEF GroupOK
<1>5. WrittenOK'
  <2> SUFFICES ASSUME NEW s \in Request
               PROVE  /\ Holds(s)' => Mode(req'[s].payload) # "NORMAL_BUF"
                      /\ req'[s].state = "ok" => memory[IF req'[s].own THEN s ELSE req'[s].payload] = s
                      /\ req'[s].state = "answered" => req'[s].result = s
    BY <1>3 DEF WrittenOK, Mode
  <2>1. CASE s = r
    BY <1>1, <2>1 DEF Holds
  <2>2. CASE s # r
    BY <1>1, <2>2 DEF Holds, WrittenOK
  <2> QED
    BY <2>1, <2>2
<1> QED
  BY <1>4, <1>5

\* The kernel writes to a buffer that no other request is done with.
LEMMA WriteData ==
  ASSUME OneBufferGroups, ContextInv, GroupOK, WrittenOK, NEW r \in Request, kernel_writes(r)
  PROVE  GroupOK' /\ WrittenOK'
<1> USE DEF ContextInv
<1>1. PICK p, g : p = req[r].payload /\ g = Bgid(p)
  OBVIOUS
<1>2. /\ req[r].state = "sent" /\ req[r].fits /\ manager' = manager /\ phase' = phase
      /\ req' = [req EXCEPT ![r] = [req[r] EXCEPT !.state = "ok"]]
  BY DEF kernel_writes, taskVars
<1>3. PICK q : q = [req[r] EXCEPT !.state = "ok"]
  OBVIOUS
<1>4. q.state = "ok" /\ q.payload = p /\ (q.own <=> req[r].own)
  BY <1>1, <1>3 DEF PoolInv, PoolTypes, RequestRecord
<1>5. req'[r] = q /\ \A s \in Request \ {r} : req'[s] = req[s]
  BY <1>2, <1>3 DEF PoolInv, PoolTypes
<1>6. \A m : SelectMode(m)' = SelectMode(m) /\ Bgid(m)' = Bgid(m) /\ Mode(m)' = Mode(m)
  BY <1>2 DEF SelectMode, Bgid, Mode
<1>7. ~req[r].own => /\ Holds(r) /\ p \in Manager /\ phase[p] # "new"
                     /\ Mode(p) # "NORMAL_BUF" /\ p # NoManager
  BY <1>1, <1>2, NoneAssumption DEF Holds, PoolInv, HeldAbove, WrittenOK
<1>8. \A s \in Request : ~req[s].own /\ req[s].state = "ok" => Holds(s) /\ req[s].payload \in Manager
  BY DEF Holds, PoolInv, HeldAbove
<1>9. memory \in [Manager \cup Request -> Request \cup {NoRequest}]
  BY DEF BufferTypes
<1>10. ASSUME NEW x \in Manager \cup Request, memory' = [memory EXCEPT ![x] = r],
              x = IF q.own THEN r ELSE q.payload,
              \A s \in Request \ {r} : req[s].state = "ok" => x # (IF req[s].own THEN s ELSE req[s].payload)
       PROVE  WrittenOK'
  <2> SUFFICES ASSUME NEW s \in Request
               PROVE  /\ Holds(s)' => Mode(req'[s].payload) # "NORMAL_BUF"
                      /\ req'[s].state = "ok" => memory'[IF req'[s].own THEN s ELSE req'[s].payload] = s
                      /\ req'[s].state = "answered" => req'[s].result = s
    BY <1>6 DEF WrittenOK, Mode
  <2>1. CASE s = r
    BY <1>4, <1>5, <1>7, <1>9, <1>10, <2>1 DEF Holds
  <2>2. CASE s # r
    <3>1. req'[s] = req[s] /\ (Holds(s)' <=> Holds(s))
      BY <1>5, <2>2 DEF Holds
    <3>2. PICK y : y = IF req[s].own THEN s ELSE req[s].payload
      OBVIOUS
    <3>3. req[s].state = "ok" => y \in Manager \cup Request /\ y # x /\ memory[y] = s
      BY <1>8, <1>10, <2>2, <3>2 DEF WrittenOK
    <3>4. req[s].state = "ok" => memory'[y] = s
      BY <1>9, <1>10, <3>3
    <3> QED
      BY <3>1, <3>2, <3>4 DEF WrittenOK
  <2> QED
    BY <2>1, <2>2
<1>11. CASE req[r].own
  <2>1. group' = group /\ memory' = [memory EXCEPT ![r] = r]
    BY <1>1, <1>11 DEF kernel_writes
  <2>2. WrittenOK'
    <3>1. r = (IF q.own THEN r ELSE q.payload) /\ r \in Manager \cup Request
      BY <1>4, <1>11
    <3>2. \A s \in Request \ {r} : req[s].state = "ok" => r # (IF req[s].own THEN s ELSE req[s].payload)
      BY <1>8 DEF OneBufferGroups
    <3> QED
      BY <1>10, <2>1, <3>1, <3>2, Zenon
  <2>3. \A m : \A s \in Request : Done(s, m)' => Done(s, m)
    BY <1>4, <1>5, <1>11 DEF Done
  <2>4. GroupOK'
    BY <1>2, <1>6, <2>1, <2>3 DEF GroupOK
  <2> QED
    BY <2>2, <2>4
<1>12. CASE ~req[r].own /\ ~Selects(p)
  <2>1. group' = group /\ memory' = [memory EXCEPT ![p] = r]
    BY <1>1, <1>12 DEF kernel_writes
  <2>2. Mode(p) = "FIXED"
    BY <1>7, <1>12, ManagerFields DEF Selects, Shares, Mode, BufferMode, TaskInv, TaskTypes
  <2>3. req[r].idx = 0
    BY <1>1, <1>2, <1>7, <1>12, <2>2 DEF PoolInv, HeldAbove
  <2>4. ASSUME NEW s \in Request \ {r}, req[s].state = "ok"
        PROVE  p # (IF req[s].own THEN s ELSE req[s].payload)
    <3>1. CASE req[s].own
      BY <1>7, <1>12, <3>1 DEF OneBufferGroups
    <3>2. CASE ~req[s].own /\ req[s].payload = p
      <4>1. req[s].idx = 0
        BY <1>8, <2>2, <2>4, <3>2 DEF PoolInv, HeldAbove
      <4> QED
        BY <1>1, <1>7, <1>8, <1>12, <2>2, <2>3, <2>4, <3>2, <4>1 DEF PoolInv, HeldOnce
    <3> QED
      BY <3>1, <3>2
  <2>5. WrittenOK'
    <3>1. p = (IF q.own THEN r ELSE q.payload) /\ p \in Manager \cup Request
      BY <1>4, <1>7, <1>12
    <3>2. \A s \in Request \ {r} : req[s].state = "ok" => p # (IF req[s].own THEN s ELSE req[s].payload)
      BY <2>4
    <3> QED
      BY <1>10, <2>1, <3>1, <3>2, Zenon
  <2>6. \A m : SelectMode(m) => \A s \in Request : Done(s, m)' => Done(s, m)
    BY <1>4, <1>5, <2>2 DEF Done, SelectMode
  <2>7. GroupOK'
    BY <1>2, <1>6, <2>1, <2>6 DEF GroupOK
  <2> QED
    BY <2>5, <2>7
<1>13. CASE ~req[r].own /\ Selects(p)
  <2>1. PICK e : e = Head(group[g])
    OBVIOUS
  <2>2. /\ group[g] # << >> /\ group' = [group EXCEPT ![g] = Tail(group[g])]
        /\ memory' = IF e.bid = 0 THEN [memory EXCEPT ![e.owner] = r] ELSE memory
    BY <1>1, <1>13, <2>1 DEF kernel_writes
  <2>3. SelectMode(p) /\ p \in Manager /\ g \in Manager \cup {NoManager}
    BY <1>1, <1>7, <1>13 DEF Selects, SelectMode, Bgid
  <2>4. group[g] \in Seq(Entry) /\ group \in [Manager \cup {NoManager} -> Seq(Entry)]
    BY <2>3 DEF BufferTypes
  <2>5. Len(group[g]) = 1 /\ e = [owner |-> p, bid |-> 0] /\ Len(Tail(group[g])) = 0
    <3>1. Len(group[g]) # 0
      BY <2>2, <2>4
    <3>2. Len(group[g]) = 1 /\ group[g][1] = [owner |-> p, bid |-> 0]
      BY <1>1, <2>3, <3>1 DEF GroupOK
    <3> QED
      BY <2>1, <2>4, <3>2
  <2>6. memory' = [memory EXCEPT ![p] = r]
    BY <2>2, <2>5
  <2>7. ASSUME NEW s \in Request \ {r}, req[s].state = "ok"
        PROVE  p # (IF req[s].own THEN s ELSE req[s].payload)
    <3>1. ~Done(s, p)
      BY <1>1, <2>3, <2>5 DEF GroupOK
    <3> QED
      BY <2>3, <2>7, <3>1 DEF Done, OneBufferGroups
  <2>8. WrittenOK'
    <3>1. p = (IF q.own THEN r ELSE q.payload) /\ p \in Manager \cup Request
      BY <1>4, <1>7, <1>13
    <3>2. \A s \in Request \ {r} : req[s].state = "ok" => p # (IF req[s].own THEN s ELSE req[s].payload)
      BY <2>7
    <3> QED
      BY <1>10, <2>6, <3>1, <3>2, Zenon
  <2>9. GroupOK'
    <3> SUFFICES ASSUME NEW n \in Manager, SelectMode(n)
                 PROVE  /\ Len(group'[Bgid(n)]) \in {0, 1}
                        /\ Len(group'[Bgid(n)]) = 1 => group'[Bgid(n)][1] = [owner |-> n, bid |-> 0]
                        /\ phase[n] = "new" \/ (\E s \in Request : Done(s, n)') => Len(group'[Bgid(n)]) = 0
      BY <1>2, <1>6 DEF GroupOK, SelectMode, Mode, Bgid, Done
    <3>1. Bgid(n) \in Manager \cup {NoManager}
      BY DEF Bgid
    <3>2. CASE n = p
      <4>1. group'[g] = Tail(group[g])
        BY <2>2, <2>3, <2>4
      <4> QED
        BY <1>1, <2>5, <3>2, <4>1
    <3>3. CASE n # p
      <4>1. Bgid(n) # g
        BY <1>1, <2>3, <3>3, OwnGroup
      <4>2. group'[Bgid(n)] = group[Bgid(n)]
        BY <2>2, <2>4, <3>1, <4>1
      <4>3. \A s \in Request : Done(s, n)' => Done(s, n)
        BY <1>4, <1>5, <3>3 DEF Done
      <4> QED
        BY <4>2, <4>3 DEF GroupOK
    <3> QED
      BY <3>2, <3>3
  <2> QED
    BY <2>8, <2>9
<1> QED
  BY <1>11, <1>12, <1>13

\* Every step keeps the buffers of requests that are done.
LEMMA StepData ==
  ASSUME OneBufferGroups, ContextInv, GroupOK, WrittenOK, [Next]_vars
  PROVE  GroupOK' /\ WrittenOK'
<1> USE DEF ContextInv
<1>1. ASSUME manager' = manager, group' = group, req' = req, memory' = memory,
             phase' = phase \/ \E m \in Manager : phase' = [phase EXCEPT ![m] = "left"]
      PROVE  GroupOK' /\ WrittenOK'
  <2>1. \A m \in Manager : phase'[m] = "new" => phase[m] = "new"
    BY <1>1 DEF TaskInv, TaskTypes
  <2>2. GroupOK'
    BY <1>1, <2>1 DEF GroupOK, SelectMode, Mode, Bgid, Done
  <2>3. WrittenOK'
    BY <1>1 DEF WrittenOK, Holds, Mode
  <2> QED
    BY <2>2, <2>3
<1>2. ASSUME NEW t \in Task, NEW m \in Manager, EnterFails(t, m) PROVE GroupOK' /\ WrittenOK'
  BY <1>1, <1>2 DEF EnterFails, bufferVars
<1>3. ASSUME NEW t \in Running, NEW u \in Task, create_task(t, u) PROVE GroupOK' /\ WrittenOK'
  BY <1>1, <1>3 DEF create_task, bufferVars
<1>4. UNCHANGED vars => GroupOK' /\ WrittenOK'
  BY <1>1 DEF vars
<1>5. ASSUME NEW r \in Request, RequestStep(r) PROVE GroupOK' /\ WrittenOK'
  <2>1. ASSUME NEW t \in Task, read_fixed(t, r) \/ read_or_recv(t, r) PROVE GroupOK' /\ WrittenOK'
    <3>1. PICK p : p = context_var[t].payload
      OBVIOUS
    <3>2. p \in Manager \cup {NoManager}
      BY <3>1 DEF TaskInv, TaskTypes, Context
    <3>3. manager' = manager /\ phase' = phase /\ group' = group /\ memory' = memory
      BY <2>1 DEF read_fixed, read_or_recv, Calls, taskVars, bufferVars
    <3>4. PICK idx \in Int, state \in Outcomes : req' = [req EXCEPT ![r] = Requested(p, idx, state)]
      <4>1. CASE read_or_recv(t, r)
        <5>1. -1 \in Int
          OBVIOUS
        <5> QED
          BY <3>1, <4>1, <5>1, Zenon DEF read_or_recv
      <4>2. CASE read_fixed(t, r)
        <5>1. p \in Manager
          BY <3>1, <3>2, <4>2 DEF read_fixed, IsFixed, Shares
        <5>2. Amount(p) \in Nat \ {0} /\ Pool(idx_registry[p], Amount(p))
          BY <5>1, ManagerFields DEF PoolInv, PoolTypes, Amount, TaskInv, TaskTypes
        <5>3. get_buffer_idx(idx_registry[p]) \in Int
          BY <5>2, PoolGet
        <5> QED
          BY <3>1, <4>2, <5>3, Zenon DEF read_fixed
      <4> QED
        BY <2>1, <4>1, <4>2
    <3>5. PICK q : q = Requested(p, idx, state)
      OBVIOUS
    <3>6. /\ q \in RequestRecord /\ q.state \in {"sent", "answered", "failed"}
          /\ q.state # "answered" /\ (q.state = "sent" /\ ~q.own => Mode(q.payload) # "NORMAL_BUF")
      BY <3>2, <3>5, RequestedIs DEF Shares
    <3> QED
      BY <3>3, <3>4, <3>5, <3>6, RequestData
  <2>2. CASE on_uring_ready_error(r)
    <3>1. PICK q : q = Ended("failed", NoRequest)
      OBVIOUS
    <3>2. q \in RequestRecord /\ q.state = "failed"
      BY <3>1, EndedIs
    <3>3. /\ manager' = manager /\ phase' = phase /\ group' = group /\ memory' = memory
          /\ req' = [req EXCEPT ![r] = q]
      BY <2>2, <3>1 DEF on_uring_ready_error, taskVars, bufferVars
    <3> QED
      BY <3>2, <3>3, RequestData
  <2>3. CASE on_uring_ready_ok(r)
    <3>1. memory[IF req[r].own THEN r ELSE req[r].payload] = r
      BY <2>3 DEF on_uring_ready_ok, WrittenOK
    <3>2. PICK q : q = Ended("answered", r)
      OBVIOUS
    <3>3. q \in RequestRecord /\ q.state = "answered" /\ q.result = r
      BY <3>2, EndedIs
    <3>4. /\ manager' = manager /\ phase' = phase /\ group' = group /\ memory' = memory
          /\ req' = [req EXCEPT ![r] = q]
      BY <2>3, <3>1, <3>2 DEF on_uring_ready_ok, taskVars, bufferVars
    <3> QED
      BY <3>3, <3>4, RequestData
  <2> QED
    BY <1>5, <2>1, <2>2, <2>3, WriteData DEF RequestStep
<1>6. Running \subseteq Task
  BY DEF TaskInv, TaskTypes
<1> QED
  BY <1>2, <1>3, <1>4, <1>5, <1>6, ManageGroups, Steps

\* ReadsOwnData: in contexts of fixed buffers, of own buffers and of groups of
\* one buffer, a request returns what the kernel wrote for it, in whatever order
\* requests are made, written and read.  (The run MCProvided shows that groups
\* of two buffers do not have this.)
THEOREM RequestsReadOwnData == ASSUME OneBufferGroups PROVE Spec => []ReadsOwnData
<1>1. Init => GroupOK /\ WrittenOK
  <2> SUFFICES ASSUME Init PROVE GroupOK /\ WrittenOK
    OBVIOUS
  <2>1. \A r \in Request : req[r].state = "new"
    BY DEF Init, NewRequest
  <2>2. \A m \in Manager : Len(group[Bgid(m)]) = 0
    BY DEF Init, Bgid
  <2> QED
    BY <2>1, <2>2 DEF GroupOK, WrittenOK, Holds
<1>2. ContextInv /\ GroupOK /\ WrittenOK /\ [Next]_vars => GroupOK' /\ WrittenOK'
  BY StepData
<1>3. WrittenOK => ReadsOwnData
  BY DEF WrittenOK, ReadsOwnData
<1> QED
  BY <1>1, <1>2, <1>3, InitContextInv, StepContextInv, PTL DEF Spec
=============================================================================

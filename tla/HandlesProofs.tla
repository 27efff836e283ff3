---------------------------- MODULE HandlesProofs ----------------------------
(***************************************************************************)
(* Proofs about handles and descriptors, for any number of files, sockets, *)
(* requests and descriptors.  Types and the bookkeeping of descriptors     *)
(* hold whatever the program and the kernel do; that handles act on and    *)
(* close only their own descriptors holds without the liberties.           *)
(***************************************************************************)
EXTENDS Handles, TLAPS

\* The fields of a request.
LEMMA RequestFields ==
  ASSUME NEW e \in RequestRecord
  PROVE  /\ e.phase \in {"free", "sent", "done"} /\ e.op \in {"none", "open", "close"}
         /\ e.handle \in Handle \cup {NoHandle} /\ e.via \in Sockets \cup {NoHandle}
         /\ e.fd \in Fd \cup {NoFd}
         /\ e.ok \in BOOLEAN /\ e.kept \in BOOLEAN /\ e.cancelled \in BOOLEAN
BY DEF RequestRecord

\* A request that is not in use is a request.
LEMMA NoReqRecord == NoReq \in RequestRecord
BY DEF NoReq, RequestRecord

\* A request with its slot, and one without.
IsSent(e, o, h, via, f) ==
  /\ e \in RequestRecord /\ e.phase = "sent" /\ e.op = o /\ e.handle = h
  /\ e.via = via /\ e.fd = f /\ e.ok
\* The fields of a request that was sent.
LEMMA SentFields ==
  ASSUME NEW o \in {"open", "close"}, NEW h \in Handle, NEW via \in Sockets \cup {NoHandle},
         NEW f \in Fd \cup {NoFd}
  PROVE  /\ IsSent(Sent(o, h, via, f, TRUE), o, h, via, f)
         /\ IsSent(Sent(o, h, via, f, FALSE), o, h, via, f)
         /\ Sent(o, h, via, f, TRUE).kept
         /\ ~Sent(o, h, via, f, FALSE).kept
<1>1. IsSent(Sent(o, h, via, f, TRUE), o, h, via, f) /\ Sent(o, h, via, f, TRUE).kept
  BY DEF Sent, IsSent, RequestRecord
<1>2. IsSent(Sent(o, h, via, f, FALSE), o, h, via, f) /\ ~Sent(o, h, via, f, FALSE).kept
  BY DEF Sent, IsSent, RequestRecord
<1> QED
  BY <1>1, <1>2

-----------------------------------------------------------------------------
(* Whatever the liberties *)

\* An open in flight whose slot is kept.
Opening(r) == req[r].phase # "free" /\ req[r].op = "open" /\ req[r].kept

\* Its object waits for it, and no other open is for the same object.
OpensWait == \A r \in Request :
  /\ req[r].phase = "sent" => req[r].ok
  /\ req[r].phase # "free" => req[r].handle \in Handle
  /\ req[r].phase = "done" /\ req[r].op = "open" /\ req[r].ok => req[r].fd \in Fd
  /\ Opening(r) => obj[req[r].handle] = "opening"
OneOpen == \A r, q \in Request :
  Opening(r) /\ Opening(q) /\ req[r].handle = req[q].handle => r = q

\* An open descriptor is known to its object or to the completion of an open
\* that the reader will take.
Known(f) ==
  \/ obj[kfd[f]] = "open" /\ fd[kfd[f]] = f
  \/ \E r \in Request : /\ Opening(r) /\ req[r].phase = "done" /\ req[r].ok
                        /\ req[r].handle = kfd[f] /\ req[r].fd = f
AllKnown == \A f \in Fd : kfd[f] \in Handle => Known(f)

\* The inductive invariant of any program.
FdInv == TypeOK /\ OpensWait /\ OneOpen /\ AllKnown

\* No object is open, and no request in flight, at the start.
LEMMA InitFdInv == Init => FdInv
<1> SUFFICES ASSUME Init PROVE FdInv
  OBVIOUS
<1> USE HandleAssumption, FdAssumption DEF Init
<1>1. TypeOK
  BY NoReqRecord DEF TypeOK
<1>2. \A r \in Request : req[r].phase = "free"
  BY DEF NoReq
<1> QED
  BY <1>1, <1>2 DEF FdInv, OpensWait, OneOpen, Opening, AllKnown

\* A call that opens: the object and the request it makes.
LEMMA OpensEffect ==
  ASSUME NEW h \in Handle, NEW r \in Request, NEW via \in Sockets \cup {NoHandle}, Opens(h, r, via)
  PROVE  \E e : /\ IsSent(e, "open", h, via, NoFd) /\ req' = [req EXCEPT ![r] = e]
                /\ \/ e.kept /\ obj' = [obj EXCEPT ![h] = "opening"]
                   \/ /\ ~e.kept /\ obj' = [obj EXCEPT ![h] = "new"]
                      /\ "submit fails" \in Liberties
<1>1. PICK outcome \in Outcomes :
        /\ outcome # "refused"
        /\ obj' = [obj EXCEPT ![h] = IF outcome = "sent" THEN "opening" ELSE "new"]
        /\ req' = [req EXCEPT ![r] = Sent("open", h, via, NoFd, outcome = "sent")]
  BY Zenon DEF Opens
<1> DEFINE kept == Sent("open", h, via, NoFd, TRUE)
           stray == Sent("open", h, via, NoFd, FALSE)
<1>2. /\ IsSent(kept, "open", h, via, NoFd) /\ kept.kept
      /\ IsSent(stray, "open", h, via, NoFd) /\ ~stray.kept
  BY SentFields
<1>3. CASE outcome = "sent"
  <2>1. (outcome = "sent") = TRUE
    BY <1>3
  <2>2. req' = [req EXCEPT ![r] = kept]
    BY <1>1, <2>1, Zenon
  <2> HIDE DEF kept, stray
  <2> QED
    BY <1>1, <1>2, <1>3, <2>2
<1>4. CASE outcome # "sent"
  <2>1. (outcome = "sent") = FALSE
    BY <1>4
  <2>2. req' = [req EXCEPT ![r] = stray]
    BY <1>1, <2>1, Zenon
  <2>3. "submit fails" \in Liberties
    BY <1>1, <1>4 DEF Outcomes
  <2> HIDE DEF kept, stray
  <2> QED
    BY <1>1, <1>2, <1>4, <2>2, <2>3
<1> QED
  BY <1>3, <1>4

\* The step puts the close of f in request r, kept when the submit went through.
SendsClose(h, r, f, outcome) ==
  \E e : /\ IsSent(e, "close", h, NoHandle, f) /\ req' = [req EXCEPT ![r] = e]
         /\ \/ e.kept /\ outcome = "sent"
            \/ ~e.kept /\ outcome # "sent" /\ "submit fails" \in Liberties

\* A call that closes: the request it makes, if any.
LEMMA ClosesEffect ==
  ASSUME NEW h \in Handle, NEW r \in Request, NEW f \in Fd \cup {NoFd}, f = fd[h],
         NEW outcome \in Outcomes, Closes(h, r, outcome)
  PROVE  \/ outcome = "refused" /\ req' = req
         \/ SendsClose(h, r, f, outcome)
<1>1. req' = IF outcome = "refused" THEN req
             ELSE [req EXCEPT ![r] = Sent("close", h, NoHandle, f, outcome = "sent")]
  BY Zenon DEF Closes
<1> DEFINE kept == Sent("close", h, NoHandle, f, TRUE)
           stray == Sent("close", h, NoHandle, f, FALSE)
<1>2. /\ IsSent(kept, "close", h, NoHandle, f) /\ kept.kept
      /\ IsSent(stray, "close", h, NoHandle, f) /\ ~stray.kept
  BY SentFields
<1>3. CASE outcome = "sent"
  <2>1. (outcome = "sent") = TRUE /\ outcome # "refused"
    BY <1>3
  <2>2. req' = [req EXCEPT ![r] = kept]
    BY <1>1, <2>1, Zenon
  <2> HIDE DEF kept, stray
  <2> QED
    BY <1>2, <1>3, <2>2 DEF SendsClose
<1>4. CASE outcome # "sent" /\ outcome # "refused"
  <2>1. (outcome = "sent") = FALSE
    BY <1>4
  <2>2. req' = [req EXCEPT ![r] = stray]
    BY <1>1, <1>4, <2>1, Zenon
  <2>3. "submit fails" \in Liberties
    BY <1>4 DEF Outcomes
  <2> HIDE DEF kept, stray
  <2> QED
    BY <1>2, <1>4, <2>2, <2>3 DEF SendsClose
<1>5. CASE outcome = "refused"
  BY <1>1, <1>5
<1> QED
  BY <1>3, <1>4, <1>5

\* A call of open, socket or accept.
LEMMA OpensFdInv ==
  ASSUME FdInv, NEW h \in Handle, NEW r \in Request, NEW via \in Sockets \cup {NoHandle},
         Opens(h, r, via)
  PROVE  FdInv'
<1> USE DEF FdInv
<1>1. obj[h] = "new" /\ req[r].phase = "free" /\ UNCHANGED <<fd, closed, kfd>>
  BY DEF Opens
<1>2. PICK e :
        /\ IsSent(e, "open", h, via, NoFd) /\ req' = [req EXCEPT ![r] = e]
        /\ \/ e.kept /\ obj' = [obj EXCEPT ![h] = "opening"]
           \/ /\ ~e.kept /\ obj' = [obj EXCEPT ![h] = "new"]
              /\ "submit fails" \in Liberties
  BY OpensEffect, Zenon
<1>3. /\ e \in RequestRecord /\ e.phase = "sent" /\ e.op = "open" /\ e.handle = h /\ e.fd = NoFd
      /\ e.ok
  BY <1>2 DEF IsSent
<1>4. req'[r] = e /\ \A q \in Request : q # r => req'[q] = req[q]
  BY <1>2 DEF TypeOK
<1>5. /\ obj'[h] \in {"opening", "new"} /\ (e.kept => obj'[h] = "opening")
      /\ \A g \in Handle : g # h => obj'[g] = obj[g]
  BY <1>2, <1>3 DEF TypeOK
<1>6. TypeOK'
  <2>1. obj' \in [Handle -> {"new", "opening", "open"}]
    BY <1>2 DEF TypeOK
  <2>2. req' \in [Request -> RequestRecord]
    BY <1>2, <1>3 DEF TypeOK
  <2>3. \A g \in Handle : obj'[g] = "open" <=> fd'[g] # NoFd
    BY <1>1, <1>5 DEF TypeOK
  <2> QED
    BY <1>1, <2>1, <2>2, <2>3 DEF TypeOK
<1>7. OpensWait'
  BY <1>1, <1>3, <1>4, <1>5 DEF OpensWait, Opening
<1>8. OneOpen'
  BY <1>1, <1>3, <1>4 DEF OneOpen, OpensWait, Opening
<1>9. AllKnown'
  <2> SUFFICES ASSUME NEW f \in Fd, kfd[f] \in Handle PROVE Known(f)'
    BY <1>1 DEF AllKnown
  <2>1. Known(f)
    BY DEF AllKnown
  <2> QED
    BY <1>1, <1>4, <1>5, <2>1 DEF Known, Opening
<1> QED
  BY <1>6, <1>7, <1>8, <1>9

\* A call of close, or an __aexit__.
LEMMA ClosesFdInv ==
  ASSUME FdInv, NEW h \in Handle, NEW r \in Request, NEW outcome \in Outcomes,
         Closes(h, r, outcome), closed' \in [Handle -> BOOLEAN]
  PROVE  FdInv'
<1> USE DEF FdInv
<1>1. req[r].phase = "free" /\ UNCHANGED <<obj, fd, kfd>>
  BY DEF Closes
<1>2. CASE req' = req
  BY <1>1, <1>2 DEF TypeOK, OpensWait, OneOpen, Opening, AllKnown, Known
<1>3. CASE req' # req
  <2>1. PICK f \in Fd \cup {NoFd} : f = fd[h]
    BY DEF TypeOK
  <2>2. PICK e : /\ IsSent(e, "close", h, NoHandle, f) /\ req' = [req EXCEPT ![r] = e]
                 /\ \/ e.kept /\ outcome = "sent"
                    \/ ~e.kept /\ outcome # "sent" /\ "submit fails" \in Liberties
    <3>1. SendsClose(h, r, f, outcome)
      BY <1>3, <2>1, ClosesEffect, Zenon
    <3> QED
      BY <3>1, Zenon DEF SendsClose
  <2>3. e \in RequestRecord /\ e.phase = "sent" /\ e.op = "close" /\ e.handle = h /\ e.ok
    BY <2>2 DEF IsSent
  <2>4. req'[r] = e /\ \A q \in Request : q # r => req'[q] = req[q]
    BY <2>2 DEF TypeOK
  <2>5. TypeOK'
    <3>1. req' \in [Request -> RequestRecord]
      BY <2>2, <2>3 DEF TypeOK
    <3> QED
      BY <1>1, <3>1 DEF TypeOK
  <2>6. OpensWait' /\ OneOpen'
    BY <1>1, <2>3, <2>4 DEF OpensWait, OneOpen, Opening
  <2>7. AllKnown'
    BY <1>1, <2>4 DEF AllKnown, Known, Opening
  <2> QED
    BY <2>5, <2>6, <2>7
<1> QED
  BY <1>2, <1>3

\* The kernel's side of an open.
LEMMA KernelOpenFdInv == ASSUME FdInv, NEW r \in Request, kernel_open(r) PROVE FdInv'
<1> USE DEF FdInv
<1>1. /\ req[r].phase = "sent" /\ req[r].op = "open" /\ UNCHANGED <<obj, fd, closed>>
      /\ req[r] \in RequestRecord /\ req[r].handle \in Handle
  BY DEF kernel_open, TypeOK, OpensWait
<1>2. ASSUME NEW f \in Fd, kfd[f] = NoHandle,
             kfd' = [kfd EXCEPT ![f] = IF req[r].kept THEN req[r].handle ELSE Lost],
             req' = [req EXCEPT ![r].phase = "done", ![r].fd = f]
      PROVE  FdInv'
  <2>1. PICK e : e = [req[r] EXCEPT !.phase = "done", !.fd = f]
    OBVIOUS
  <2>2. /\ e \in RequestRecord /\ e.phase = "done" /\ e.op = "open" /\ e.handle = req[r].handle
        /\ e.fd = f /\ (e.kept <=> req[r].kept) /\ (e.ok <=> req[r].ok)
    BY <1>1, <2>1 DEF RequestRecord
  <2>3. req' = [req EXCEPT ![r] = e]
    BY <1>2, <2>1 DEF TypeOK
  <2>4. req'[r] = e /\ \A q \in Request : q # r => req'[q] = req[q]
    BY <2>3 DEF TypeOK
  <2>5. /\ kfd'[f] = (IF req[r].kept THEN req[r].handle ELSE Lost)
        /\ \A g \in Fd : g # f => kfd'[g] = kfd[g]
    BY <1>2 DEF TypeOK
  <2>6. TypeOK'
    <3>1. req' \in [Request -> RequestRecord]
      BY <2>2, <2>3 DEF TypeOK
    <3>2. kfd' \in [Fd -> Handle \cup {NoHandle, Lost}]
      BY <1>1, <1>2 DEF TypeOK
    <3> QED
      BY <1>1, <3>1, <3>2 DEF TypeOK
  <2>7. OpensWait' /\ OneOpen'
    BY <1>1, <2>2, <2>4 DEF OpensWait, OneOpen, Opening
  <2>8. AllKnown'
    <3> SUFFICES ASSUME NEW g \in Fd, kfd'[g] \in Handle PROVE Known(g)'
      BY DEF AllKnown
    <3>1. CASE g = f
      <4>1. req[r].kept /\ req[r].ok /\ kfd'[g] = req[r].handle
        BY <1>1, <2>5, <3>1, HandleAssumption DEF OpensWait
      <4>2. Opening(r)'
        BY <2>2, <2>4, <4>1 DEF Opening
      <4> QED
        BY <2>2, <2>4, <3>1, <4>1, <4>2 DEF Known
    <3>2. CASE g # f
      <4>1. Known(g)
        BY <2>5, <3>2 DEF AllKnown
      <4> QED
        BY <1>1, <2>4, <2>5, <3>2, <4>1 DEF Known, Opening
    <3> QED
      BY <3>1, <3>2
  <2> QED
    BY <2>6, <2>7, <2>8
<1>3. ASSUME req' = [req EXCEPT ![r].phase = "done", ![r].ok = FALSE], kfd' = kfd
      PROVE  FdInv'
  <2>1. PICK e : e = [req[r] EXCEPT !.phase = "done", !.ok = FALSE]
    OBVIOUS
  <2>2. /\ e \in RequestRecord /\ e.phase = "done" /\ e.op = "open" /\ e.handle = req[r].handle
        /\ (e.kept <=> req[r].kept) /\ ~e.ok
    BY <1>1, <2>1 DEF RequestRecord
  <2>3. req' = [req EXCEPT ![r] = e]
    BY <1>3, <2>1 DEF TypeOK
  <2>4. req'[r] = e /\ \A q \in Request : q # r => req'[q] = req[q]
    BY <2>3 DEF TypeOK
  <2>5. TypeOK'
    <3>1. req' \in [Request -> RequestRecord]
      BY <2>2, <2>3 DEF TypeOK
    <3> QED
      BY <1>1, <1>3, <3>1 DEF TypeOK
  <2>6. OpensWait' /\ OneOpen'
    BY <1>1, <2>2, <2>4 DEF OpensWait, OneOpen, Opening
  <2>7. AllKnown'
    <3> SUFFICES ASSUME NEW f \in Fd, kfd[f] \in Handle PROVE Known(f)'
      BY <1>3 DEF AllKnown
    <3>1. Known(f)
      BY DEF AllKnown
    <3> QED
      BY <1>1, <1>3, <2>4, <3>1 DEF Known, Opening
  <2> QED
    BY <2>5, <2>6, <2>7
<1> QED
  BY <1>2, <1>3 DEF kernel_open

\* The reader takes the completion of an open.
LEMMA ReadyOpenFdInv == ASSUME FdInv, NEW r \in Request, on_uring_ready_open(r) PROVE FdInv'
<1> USE DEF FdInv
<1> DEFINE h == req[r].handle
           taken == req[r].ok /\ ~req[r].cancelled
<1>1. /\ req[r].phase = "done" /\ req[r].op = "open" /\ req' = [req EXCEPT ![r] = NoReq]
      /\ closed' = closed /\ req[r] \in RequestRecord /\ h \in Handle
      /\ req[r].ok => req[r].fd \in Fd
  BY DEF on_uring_ready_open, TypeOK, OpensWait
<1>2. req'[r] = NoReq /\ \A q \in Request : q # r => req'[q] = req[q]
  BY <1>1 DEF TypeOK
<1>3. req' \in [Request -> RequestRecord] /\ NoReq.phase = "free"
  BY <1>1, NoReqRecord DEF TypeOK, NoReq
<1>4. OneOpen'
  BY <1>2, <1>3 DEF OneOpen, Opening
<1>5. CASE ~req[r].kept
  <2>1. UNCHANGED <<obj, fd, kfd>>
    BY <1>5 DEF on_uring_ready_open
  <2>2. TypeOK' /\ OpensWait'
    BY <1>1, <1>2, <1>3, <2>1 DEF TypeOK, OpensWait, Opening
  <2>3. AllKnown'
    <3> SUFFICES ASSUME NEW f \in Fd, kfd[f] \in Handle PROVE Known(f)'
      BY <2>1 DEF AllKnown
    <3>1. Known(f)
      BY DEF AllKnown
    <3> QED
      BY <1>2, <1>5, <2>1, <3>1 DEF Known, Opening
  <2> QED
    BY <1>4, <2>2, <2>3
<1>6. CASE req[r].kept
  <2>1. Opening(r) /\ obj[h] = "opening"
    BY <1>1, <1>6 DEF OpensWait, Opening
  <2>2. \A q \in Request : q # r /\ Opening(q) => req[q].handle # h
    BY <2>1 DEF OneOpen
  <2>3. CASE taken
    <3>1. /\ obj' = [obj EXCEPT ![h] = "open"] /\ fd' = [fd EXCEPT ![h] = req[r].fd] /\ kfd' = kfd
          /\ req[r].fd \in Fd
      BY <1>1, <1>6, <2>3 DEF on_uring_ready_open
    <3>2. TypeOK'
      <4>1. /\ obj' \in [Handle -> {"new", "opening", "open"}] /\ fd' \in [Handle -> Fd \cup {NoFd}]
            /\ obj'[h] = "open" /\ fd'[h] # NoFd
            /\ \A g \in Handle : g # h => obj'[g] = obj[g] /\ fd'[g] = fd[g]
        BY <1>1, <3>1, FdAssumption DEF TypeOK
      <4> HIDE DEF h
      <4>2. \A g \in Handle : obj'[g] = "open" <=> fd'[g] # NoFd
        BY <4>1 DEF TypeOK
      <4> QED
        BY <1>1, <1>3, <3>1, <4>1, <4>2 DEF TypeOK
    <3>3. OpensWait'
      BY <1>1, <1>2, <1>3, <2>2, <3>1 DEF OpensWait, Opening, TypeOK
    <3>4. AllKnown'
      <4> SUFFICES ASSUME NEW f \in Fd, kfd[f] \in Handle PROVE Known(f)'
        BY <3>1 DEF AllKnown
      <4>1. Known(f)
        BY DEF AllKnown
      <4>2. CASE kfd[f] = h
        <5>1. PICK q \in Request : Opening(q) /\ req[q].handle = h /\ req[q].fd = f
          BY <2>1, <4>1, <4>2 DEF Known
        <5>2. req[r].fd = f
          BY <2>2, <5>1
        <5> QED
          BY <1>1, <3>1, <4>2, <5>2 DEF Known, TypeOK
      <4>3. CASE kfd[f] # h
        <5>1. obj'[kfd[f]] = obj[kfd[f]] /\ fd'[kfd[f]] = fd[kfd[f]]
          BY <3>1, <4>3 DEF TypeOK
        <5> QED
          BY <1>2, <3>1, <4>1, <4>3, <5>1 DEF Known, Opening
      <4> QED
        BY <4>2, <4>3
    <3> QED
      BY <1>4, <3>2, <3>3, <3>4
  <2>4. CASE ~taken
    <3>1. /\ obj' = [obj EXCEPT ![h] = "new"] /\ fd' = [fd EXCEPT ![h] = NoFd]
          /\ kfd' = IF req[r].ok THEN [kfd EXCEPT ![req[r].fd] = Lost] ELSE kfd
      BY <1>1, <1>6, <2>4 DEF on_uring_ready_open
    <3>2. TypeOK'
      <4>1. /\ obj' \in [Handle -> {"new", "opening", "open"}] /\ fd' \in [Handle -> Fd \cup {NoFd}]
            /\ obj'[h] = "new" /\ fd'[h] = NoFd
            /\ \A g \in Handle : g # h => obj'[g] = obj[g] /\ fd'[g] = fd[g]
        BY <1>1, <3>1 DEF TypeOK
      <4>2. kfd' \in [Fd -> Handle \cup {NoHandle, Lost}]
        BY <1>1, <3>1 DEF TypeOK
      <4> HIDE DEF h
      <4>3. \A g \in Handle : obj'[g] = "open" <=> fd'[g] # NoFd
        BY <4>1 DEF TypeOK
      <4> QED
        BY <1>1, <1>3, <3>1, <4>1, <4>2, <4>3 DEF TypeOK
    <3>3. OpensWait'
      BY <1>1, <1>2, <1>3, <2>2, <3>1 DEF OpensWait, Opening, TypeOK
    <3>4. AllKnown'
      <4> SUFFICES ASSUME NEW f \in Fd, kfd'[f] \in Handle PROVE Known(f)'
        BY DEF AllKnown
      <4>1. kfd'[f] = kfd[f] /\ (req[r].ok => f # req[r].fd)
        BY <1>1, <3>1, HandleAssumption DEF TypeOK
      <4>2. Known(f)
        BY <4>1 DEF AllKnown
      <4>3. kfd[f] # h
        <5> SUFFICES ASSUME kfd[f] = h PROVE FALSE
          OBVIOUS
        <5>1. PICK q \in Request : Opening(q) /\ req[q].ok /\ req[q].handle = h /\ req[q].fd = f
          BY <2>1, <4>2 DEF Known
        <5> QED
          BY <2>2, <4>1, <5>1
      <4>4. obj'[kfd[f]] = obj[kfd[f]] /\ fd'[kfd[f]] = fd[kfd[f]]
        BY <3>1, <4>1, <4>3 DEF TypeOK
      <4> QED
        BY <1>2, <4>1, <4>2, <4>3, <4>4 DEF Known, Opening
    <3> QED
      BY <1>4, <3>2, <3>3, <3>4
  <2> QED
    BY <2>3, <2>4
<1> QED
  BY <1>5, <1>6

\* The program cancels the future of an open, or drops an object.
LEMMA ProgramFdInv ==
  ASSUME FdInv, (\E r \in Request : cancel(r)) \/ (\E h \in Handle : dealloc(h))
  PROVE  FdInv'
<1> USE DEF FdInv
<1>1. ASSUME NEW r \in Request, cancel(r) PROVE FdInv'
  <2>1. /\ req' = [req EXCEPT ![r].cancelled = TRUE] /\ UNCHANGED <<obj, fd, closed, kfd>>
        /\ req[r] \in RequestRecord
    BY <1>1 DEF cancel, TypeOK
  <2>2. PICK e : e = [req[r] EXCEPT !.cancelled = TRUE]
    OBVIOUS
  <2>3. /\ e \in RequestRecord /\ e.phase = req[r].phase /\ e.op = req[r].op
        /\ e.handle = req[r].handle /\ e.fd = req[r].fd
        /\ (e.kept <=> req[r].kept) /\ (e.ok <=> req[r].ok)
    BY <2>1, <2>2 DEF RequestRecord
  <2>4. req' = [req EXCEPT ![r] = e]
    BY <2>1, <2>2
  <2>5. req'[r] = e /\ \A q \in Request : q # r => req'[q] = req[q]
    BY <2>4 DEF TypeOK
  <2>6. TypeOK'
    <3>1. req' \in [Request -> RequestRecord]
      BY <2>3, <2>4 DEF TypeOK
    <3> QED
      BY <2>1, <3>1 DEF TypeOK
  <2>7. \A q \in Request : Opening(q)' <=> Opening(q)
    BY <2>3, <2>5 DEF Opening
  <2>8. OpensWait' /\ OneOpen'
    BY <2>1, <2>3, <2>5, <2>7 DEF OpensWait, OneOpen
  <2>9. AllKnown'
    BY <2>1, <2>3, <2>5, <2>7 DEF AllKnown, Known
  <2> QED
    BY <2>6, <2>8, <2>9
<1>2. ASSUME NEW h \in Handle, dealloc(h) PROVE FdInv'
  <2>1. /\ obj[h] = "open" /\ obj' = [obj EXCEPT ![h] = "new"] /\ fd' = [fd EXCEPT ![h] = NoFd]
        /\ closed' = [closed EXCEPT ![h] = FALSE] /\ req' = req
        /\ kfd' = [f \in Fd |-> IF kfd[f] = h THEN Lost ELSE kfd[f]]
    BY <1>2 DEF dealloc
  <2>2. TypeOK'
    <3>1. /\ obj' \in [Handle -> {"new", "opening", "open"}] /\ fd' \in [Handle -> Fd \cup {NoFd}]
          /\ kfd' \in [Fd -> Handle \cup {NoHandle, Lost}]
      BY <2>1 DEF TypeOK
    <3>2. closed' \in [Handle -> BOOLEAN]
      BY <2>1 DEF TypeOK
    <3>3. \A g \in Handle : obj'[g] = "open" <=> fd'[g] # NoFd
      BY <2>1 DEF TypeOK
    <3> QED
      BY <2>1, <3>1, <3>2, <3>3 DEF TypeOK
  <2>3. OpensWait' /\ OneOpen'
    BY <2>1 DEF OpensWait, OneOpen, Opening, TypeOK
  <2>4. AllKnown'
    <3> SUFFICES ASSUME NEW f \in Fd, kfd'[f] \in Handle PROVE Known(f)'
      BY DEF AllKnown
    <3>1. kfd'[f] = kfd[f] /\ kfd[f] # h
      BY <2>1, HandleAssumption
    <3>2. Known(f) /\ obj'[kfd[f]] = obj[kfd[f]] /\ fd'[kfd[f]] = fd[kfd[f]]
      BY <2>1, <3>1 DEF AllKnown, TypeOK
    <3> QED
      BY <2>1, <3>1, <3>2 DEF Known, Opening
  <2> QED
    BY <2>2, <2>3, <2>4
<1> QED
  BY <1>1, <1>2

\* The kernel's side of a close: the request's number is freed, or nothing is.
LEMMA KernelCloseEffect ==
  ASSUME TypeOK, NEW r \in Request, kernel_close(r)
  PROVE  \E e :
           /\ e \in RequestRecord /\ req' = [req EXCEPT ![r] = e]
           /\ e.phase = "done" /\ e.op = "close" /\ e.handle = req[r].handle /\ e.via = req[r].via
           /\ e.fd = req[r].fd /\ (e.kept <=> req[r].kept)
           /\ \/ /\ kfd' = [kfd EXCEPT ![req[r].fd] = NoHandle]
                 /\ kfd[req[r].fd] # NoHandle => e.ok \/ "close fails" \in Liberties
              \/ kfd' = kfd /\ "close fails" \in Liberties
<1>1. PICK c \in CloseResults :
        /\ req' = [req EXCEPT ![r].phase = "done", ![r].ok = c.ok /\ kfd[req[r].fd] # NoHandle]
        /\ kfd' = IF c.frees THEN [kfd EXCEPT ![req[r].fd] = NoHandle] ELSE kfd
  BY Zenon DEF kernel_close
<1>2. (c.ok /\ c.frees) \/ (~c.ok /\ "close fails" \in Liberties)
  <2>1. CASE c = [ok |-> TRUE, frees |-> TRUE]
    BY <2>1
  <2>2. CASE c \in [ok : {FALSE}, frees : BOOLEAN] /\ "close fails" \in Liberties
    BY <2>2
  <2> QED
    BY <2>1, <2>2 DEF CloseResults
<1>3. req[r] \in RequestRecord /\ req[r].op = "close"
  BY DEF TypeOK, kernel_close
<1> DEFINE e == [req[r] EXCEPT !.phase = "done", !.ok = c.ok /\ kfd[req[r].fd] # NoHandle]
<1>4. req' = [req EXCEPT ![r] = e]
  BY <1>1 DEF TypeOK
<1>5. /\ e \in RequestRecord /\ e.phase = "done" /\ e.op = "close" /\ e.handle = req[r].handle
      /\ e.via = req[r].via /\ e.fd = req[r].fd /\ (e.kept <=> req[r].kept)
      /\ e.ok <=> (c.ok /\ kfd[req[r].fd] # NoHandle)
  BY <1>2, <1>3 DEF RequestRecord
<1> HIDE DEF e
<1>6. \/ /\ kfd' = [kfd EXCEPT ![req[r].fd] = NoHandle]
         /\ kfd[req[r].fd] # NoHandle => e.ok \/ "close fails" \in Liberties
      \/ kfd' = kfd /\ "close fails" \in Liberties
  BY <1>1, <1>2, <1>5
<1> QED
  BY <1>4, <1>5, <1>6, Zenon

\* The kernel closes a descriptor.
LEMMA KernelCloseFdInv == ASSUME FdInv, NEW r \in Request, kernel_close(r) PROVE FdInv'
<1> USE DEF FdInv
<1>1. /\ req[r].phase = "sent" /\ req[r].op = "close" /\ UNCHANGED <<obj, fd, closed>>
      /\ req[r].handle \in Handle
  BY DEF kernel_close, OpensWait
<1>2. PICK e :
        /\ e \in RequestRecord /\ req' = [req EXCEPT ![r] = e]
        /\ e.phase = "done" /\ e.op = "close" /\ e.handle = req[r].handle /\ e.via = req[r].via
        /\ e.fd = req[r].fd /\ (e.kept <=> req[r].kept)
        /\ \/ /\ kfd' = [kfd EXCEPT ![req[r].fd] = NoHandle]
              /\ kfd[req[r].fd] # NoHandle => e.ok \/ "close fails" \in Liberties
           \/ kfd' = kfd /\ "close fails" \in Liberties
  BY KernelCloseEffect, Zenon
<1>3. req'[r] = e /\ \A q \in Request : q # r => req'[q] = req[q]
  BY <1>2 DEF TypeOK
<1>4. TypeOK'
  <2>1. req' \in [Request -> RequestRecord]
    BY <1>2 DEF TypeOK
  <2>2. kfd' \in [Fd -> Handle \cup {NoHandle, Lost}]
    BY <1>2 DEF TypeOK
  <2> QED
    BY <1>1, <2>1, <2>2 DEF TypeOK
<1>5. OpensWait' /\ OneOpen'
  <2>1. e.phase = "done" /\ e.op = "close" /\ e.handle = req[r].handle
    BY <1>2
  <2> QED
    BY <1>1, <1>3, <2>1 DEF OpensWait, OneOpen, Opening
<1>6. AllKnown'
  <2> SUFFICES ASSUME NEW f \in Fd, kfd'[f] \in Handle PROVE Known(f)'
    BY DEF AllKnown
  <2>1. kfd'[f] = kfd[f]
    BY <1>2, HandleAssumption DEF TypeOK
  <2>2. Known(f)
    BY <2>1 DEF AllKnown
  <2> QED
    BY <1>1, <1>3, <2>1, <2>2 DEF Known, Opening
<1> QED
  BY <1>4, <1>5, <1>6

\* The reader takes the completion of a close.
LEMMA ReadyCloseFdInv == ASSUME FdInv, NEW r \in Request, on_uring_ready_close(r) PROVE FdInv'
<1> USE DEF FdInv
<1>1. /\ req[r].phase = "done" /\ req[r].op = "close" /\ UNCHANGED <<obj, fd, kfd>>
      /\ req' = [req EXCEPT ![r] = NoReq] /\ req[r].handle \in Handle
  BY DEF on_uring_ready_close, OpensWait
<1>2. req'[r] = NoReq /\ \A q \in Request : q # r => req'[q] = req[q]
  BY <1>1 DEF TypeOK
<1>3. req' \in [Request -> RequestRecord] /\ NoReq.phase = "free"
  BY <1>1, NoReqRecord DEF TypeOK, NoReq
<1>4. closed' \in [Handle -> BOOLEAN]
  BY <1>1 DEF on_uring_ready_close, TypeOK
<1>5. TypeOK'
  BY <1>1, <1>3, <1>4 DEF TypeOK
<1>6. OpensWait' /\ OneOpen'
  BY <1>1, <1>2, <1>3 DEF OpensWait, OneOpen, Opening
<1>7. AllKnown'
  <2> SUFFICES ASSUME NEW f \in Fd, kfd[f] \in Handle PROVE Known(f)'
    BY <1>1 DEF AllKnown
  <2>1. Known(f)
    BY DEF AllKnown
  <2> QED
    BY <1>1, <1>2, <2>1 DEF Known, Opening
<1> QED
  BY <1>5, <1>6, <1>7

\* Every call of close or __aexit__ is a Closes that keeps the type of closed.
LEMMA CloseCalls ==
  ASSUME TypeOK, NEW h \in Handle, NEW r \in Request,
         \/ UringioFile_close(h, r) \/ UringioSocket_close(h, r)
         \/ UringioFile_aexit(h, r) \/ UringioSocket_aexit(h, r)
  PROVE  \E outcome \in Outcomes :
           /\ Closes(h, r, outcome) /\ closed' \in [Handle -> BOOLEAN]
           /\ \/ h \in Files /\ Accepts(h) /\ closed' = closed
              \/ /\ (h \in Sockets /\ Accepts(h)) \/ MayExit(h)
                 /\ closed' = [closed EXCEPT ![h] = outcome = "sent"]
<1>1. CASE UringioFile_close(h, r)
  BY <1>1 DEF UringioFile_close, TypeOK
<1>2. CASE ~UringioFile_close(h, r)
  <2>1. PICK outcome \in Outcomes :
          /\ Closes(h, r, outcome)
          /\ (h \in Sockets /\ Accepts(h)) \/ MayExit(h)
          /\ closed' = [closed EXCEPT ![h] = outcome = "sent"]
    BY <1>2 DEF UringioSocket_close, UringioFile_aexit, UringioSocket_aexit, Exits
  <2>2. closed' \in [Handle -> BOOLEAN]
    BY <2>1 DEF TypeOK
  <2> QED
    BY <2>1, <2>2
<1> QED
  BY <1>1, <1>2

\* Every step of any program keeps the invariant.
LEMMA StepFdInv == FdInv /\ [Next]_vars => FdInv'
<1> SUFFICES ASSUME FdInv, [Next]_vars PROVE FdInv'
  OBVIOUS
<1>1. ASSUME NEW h \in Handle, NEW r \in Request,
             Uringio_open(h, r) \/ Uringio_prep_socket(h, r)
      PROVE  FdInv'
  BY <1>1, OpensFdInv DEF Uringio_open, Uringio_prep_socket
<1>2. ASSUME NEW t \in Sockets, NEW h \in Sockets, NEW r \in Request, UringioSocket_accept(t, h, r)
      PROVE  FdInv'
  BY <1>2, OpensFdInv DEF UringioSocket_accept, Handle
<1>3. ASSUME NEW h \in Handle, NEW r \in Request,
             \/ UringioFile_close(h, r) \/ UringioSocket_close(h, r)
             \/ UringioFile_aexit(h, r) \/ UringioSocket_aexit(h, r)
      PROVE  FdInv'
  <2>1. PICK outcome \in Outcomes : Closes(h, r, outcome) /\ closed' \in [Handle -> BOOLEAN]
    BY <1>3, CloseCalls DEF FdInv
  <2> QED
    BY <2>1, ClosesFdInv
<1>4. ASSUME NEW r \in Request,
             \/ kernel_open(r) \/ on_uring_ready_open(r) \/ cancel(r)
             \/ kernel_close(r) \/ on_uring_ready_close(r)
      PROVE  FdInv'
  BY <1>4, KernelOpenFdInv, ReadyOpenFdInv, ProgramFdInv, KernelCloseFdInv, ReadyCloseFdInv
<1>5. ASSUME NEW h \in Handle, dealloc(h) PROVE FdInv'
  BY <1>5, ProgramFdInv
<1>6. CASE UNCHANGED vars
  BY <1>6 DEF vars, FdInv, TypeOK, OpensWait, OneOpen, Opening, AllKnown, Known
<1> QED
  BY <1>1, <1>2, <1>3, <1>4, <1>5, <1>6 DEF Next

\* Handles, descriptors and requests keep their types, whatever the program and
\* the kernel do; in particular an object has a descriptor exactly while open.
THEOREM HandlesTypeOK == Spec => []TypeOK
<1>1. FdInv => TypeOK
  BY DEF FdInv
<1> QED
  BY <1>1, InitFdInv, StepFdInv, PTL DEF Spec

\* No descriptor goes astray, with any of the liberties: closing late, twice or
\* in vain, and failing submits, never leave a number open that the library
\* believes to be an object's and no object has.
THEOREM NoFdGoesAstray == Spec => []NoStrayFd
<1>1. FdInv => NoStrayFd
  BY DEF FdInv, AllKnown, Known, Opening, NoStrayFd
<1> QED
  BY <1>1, InitFdInv, StepFdInv, PTL DEF Spec
-----------------------------------------------------------------------------
(* Without the liberties *)

\* The program awaits the closes of its files and leaves an async with block with
\* its handle open; closes succeed, and a submit that fails sends nothing.
Strict == Liberties = {}

\* A request in flight has its slot and a purpose.
Tracked == \A r \in Request : req[r].kept /\ (req[r].phase # "free" => req[r].op # "none")

\* The descriptor in a completion of an open is that of its object.
OpenedOwn == \A r \in Request :
  req[r].phase = "done" /\ req[r].op = "open" /\ req[r].ok => kfd[req[r].fd] = req[r].handle

\* A close in flight has the number of an open object, which is the object's own
\* until the kernel has closed it.
Closing(r) == req[r].phase # "free" /\ req[r].op = "close"
CloseShape(r) ==
  /\ obj[req[r].handle] = "open" /\ req[r].fd = fd[req[r].handle] /\ req[r].ok
  /\ req[r].phase = "sent" => kfd[req[r].fd] = req[r].handle
ClosesShaped == \A r \in Request : Closing(r) => CloseShape(r)

\* A handle has one open or close in flight at a time.
OneRequest == \A r, q \in Request :
  req[r].phase # "free" /\ req[q].phase # "free" /\ req[r].handle = req[q].handle => r = q

\* An open object that is not being closed has its own descriptor.
OpenOwns == \A h \in Handle :
  obj[h] = "open" /\ ~closed[h] /\ ~ClosePending(h) => kfd[fd[h]] = h

\* A socket that is being closed says so.
SocketsMarked == \A h \in Sockets : ClosePending(h) => closed[h]

\* The inductive invariant of a strict program.
OwnInv == Tracked /\ OpenedOwn /\ ClosesShaped /\ OneRequest /\ OpenOwns /\ SocketsMarked

\* Nothing is open at the start.
LEMMA InitOwnInv == Init => OwnInv
<1> SUFFICES ASSUME Init PROVE OwnInv
  OBVIOUS
<1>1. \A r \in Request : req[r].phase = "free" /\ req[r].kept
  BY DEF Init, NoReq
<1>2. \A h \in Handle : obj[h] = "new"
  BY DEF Init
<1>3. \A h \in Handle : ~ClosePending(h)
  BY <1>1 DEF ClosePending
<1> QED
  BY <1>1, <1>2, <1>3 DEF OwnInv, Tracked, OpenedOwn, ClosesShaped, Closing, OneRequest, OpenOwns,
                          SocketsMarked, Handle

\* Nothing is in flight for a handle that has no object, or an open one that is
\* not being closed.
LEMMA Idle ==
  ASSUME FdInv, OwnInv, NEW h \in Handle,
         obj[h] = "new" \/ (obj[h] = "open" /\ ~ClosePending(h))
  PROVE  \A q \in Request : req[q].phase # "free" => req[q].handle # h
<1> SUFFICES ASSUME NEW q \in Request, req[q].phase # "free", req[q].handle = h PROVE FALSE
  OBVIOUS
<1>1. req[q].kept /\ (req[q].op = "open" \/ req[q].op = "close")
  <2>1. req[q].op \in {"none", "open", "close"}
    BY RequestFields DEF FdInv, TypeOK
  <2> QED
    BY <2>1 DEF OwnInv, Tracked
<1>2. CASE req[q].op = "open"
  BY <1>1, <1>2 DEF FdInv, OpensWait, Opening
<1>3. CASE req[q].op = "close"
  BY <1>1, <1>3 DEF OwnInv, ClosesShaped, Closing, CloseShape, ClosePending
<1> QED
  BY <1>1, <1>2, <1>3

\* A call that opens.
LEMMA OpensOwnInv ==
  ASSUME Strict, FdInv, OwnInv, NEW h \in Handle, NEW r \in Request,
         NEW via \in Sockets \cup {NoHandle}, Opens(h, r, via)
  PROVE  OwnInv'
<1> USE DEF OwnInv
<1>1. obj[h] = "new" /\ req[r].phase = "free" /\ UNCHANGED <<fd, closed, kfd>>
  BY DEF Opens
<1>2. PICK e :
        /\ IsSent(e, "open", h, via, NoFd) /\ req' = [req EXCEPT ![r] = e]
        /\ \/ e.kept /\ obj' = [obj EXCEPT ![h] = "opening"]
           \/ /\ ~e.kept /\ obj' = [obj EXCEPT ![h] = "new"]
              /\ "submit fails" \in Liberties
  BY OpensEffect, Zenon
<1>3. e.phase = "sent" /\ e.op = "open" /\ e.handle = h /\ e.kept
  BY <1>2 DEF IsSent, Strict
<1>4. req'[r] = e /\ \A q \in Request : q # r => req'[q] = req[q]
  BY <1>2 DEF FdInv, TypeOK
<1>5. obj'[h] = "opening" /\ \A g \in Handle : g # h => obj'[g] = obj[g]
  BY <1>2, <1>3 DEF FdInv, TypeOK
<1>6. \A q \in Request : req[q].phase # "free" => req[q].handle # h /\ req[q].handle \in Handle
  BY <1>1, Idle DEF FdInv, OpensWait
<1>7. Tracked' /\ OpenedOwn' /\ OneRequest'
  BY <1>1, <1>3, <1>4, <1>6 DEF Tracked, OpenedOwn, OneRequest
<1>8. ClosesShaped'
  BY <1>1, <1>3, <1>4, <1>5, <1>6 DEF ClosesShaped, Closing, CloseShape
<1>9. \A g \in Handle : ClosePending(g)' <=> ClosePending(g)
  BY <1>1, <1>3, <1>4 DEF ClosePending
<1>10. OpenOwns' /\ SocketsMarked'
  BY <1>1, <1>5, <1>9 DEF OpenOwns, SocketsMarked, Handle
<1> QED
  BY <1>7, <1>8, <1>10

\* A call that closes, and is let through.
LEMMA ClosesOwnInv ==
  ASSUME Strict, FdInv, OwnInv, NEW h \in Handle, NEW r \in Request,
         \/ UringioFile_close(h, r) \/ UringioSocket_close(h, r)
         \/ UringioFile_aexit(h, r) \/ UringioSocket_aexit(h, r)
  PROVE  OwnInv'
<1> USE DEF OwnInv
<1>1. PICK outcome \in Outcomes :
        /\ Closes(h, r, outcome) /\ closed' \in [Handle -> BOOLEAN]
        /\ \/ h \in Files /\ Accepts(h) /\ closed' = closed
           \/ /\ (h \in Sockets /\ Accepts(h)) \/ MayExit(h)
              /\ closed' = [closed EXCEPT ![h] = outcome = "sent"]
  BY CloseCalls, Zenon DEF FdInv
<1>2. obj[h] = "open" /\ ~closed[h] /\ ~ClosePending(h)
  BY <1>1 DEF Accepts, MayExit, Strict, SocketsMarked, Handle
<1>3. /\ kfd[fd[h]] = h
      /\ \A q \in Request : req[q].phase # "free" => req[q].handle # h /\ req[q].handle \in Handle
  BY <1>2, Idle DEF OpenOwns, FdInv, OpensWait
<1>4. req[r].phase = "free" /\ UNCHANGED <<obj, fd, kfd>>
  BY <1>1 DEF Closes
<1>5. /\ \A g \in Handle : g # h => closed'[g] = closed[g]
      /\ h \in Sockets => (closed'[h] <=> outcome = "sent")
  <2>1. CASE closed' = closed /\ h \in Files
    BY <2>1, HandleAssumption
  <2>2. CASE closed' = [closed EXCEPT ![h] = outcome = "sent"]
    BY <2>2 DEF FdInv, TypeOK
  <2> QED
    BY <1>1, <2>1, <2>2
<1>6. CASE outcome = "refused" /\ req' = req
  <2>1. \A g \in Handle : ClosePending(g)' <=> ClosePending(g)
    BY <1>6 DEF ClosePending
  <2>2. OpenOwns' /\ SocketsMarked'
    BY <1>2, <1>3, <1>4, <1>5, <2>1 DEF OpenOwns, SocketsMarked, Handle
  <2> QED
    BY <1>4, <1>6, <2>2 DEF Tracked, OpenedOwn, OneRequest, ClosesShaped, Closing, CloseShape
<1>7. CASE ~(outcome = "refused" /\ req' = req)
  <2>1. PICK f \in Fd \cup {NoFd} : f = fd[h]
    BY DEF FdInv, TypeOK
  <2>2. PICK e : /\ IsSent(e, "close", h, NoHandle, f) /\ req' = [req EXCEPT ![r] = e]
                 /\ \/ e.kept /\ outcome = "sent"
                    \/ ~e.kept /\ outcome # "sent" /\ "submit fails" \in Liberties
    <3>1. Closes(h, r, outcome)
      BY <1>1, Zenon
    <3>2. SendsClose(h, r, f, outcome)
      BY <1>7, <2>1, <3>1, ClosesEffect, Zenon
    <3> QED
      BY <3>2, Zenon DEF SendsClose
  <2>3. /\ e.phase = "sent" /\ e.op = "close" /\ e.handle = h /\ e.ok /\ e.fd = fd[h]
        /\ e.kept /\ outcome = "sent"
    BY <2>1, <2>2 DEF IsSent, Strict
  <2>4. req'[r] = e /\ \A q \in Request : q # r => req'[q] = req[q]
    BY <2>2 DEF FdInv, TypeOK
  <2>5. Tracked' /\ OpenedOwn' /\ OneRequest'
    BY <1>3, <1>4, <2>3, <2>4 DEF Tracked, OpenedOwn, OneRequest
  <2>6. ClosesShaped'
    BY <1>2, <1>3, <1>4, <2>3, <2>4 DEF ClosesShaped, Closing, CloseShape
  <2>7. ClosePending(h)' /\ \A g \in Handle : g # h => (ClosePending(g)' <=> ClosePending(g))
    BY <1>4, <2>3, <2>4 DEF ClosePending
  <2>8. OpenOwns' /\ SocketsMarked'
    BY <1>4, <1>5, <2>3, <2>7 DEF OpenOwns, SocketsMarked, Handle
  <2> QED
    BY <2>5, <2>6, <2>8
<1> QED
  BY <1>6, <1>7

\* The kernel's side of an open: the number it takes was nobody's.
LEMMA KernelOpenOwnInv == ASSUME FdInv, OwnInv, NEW r \in Request, kernel_open(r) PROVE OwnInv'
<1> USE DEF OwnInv
<1>1. /\ req[r].phase = "sent" /\ req[r].op = "open" /\ UNCHANGED <<obj, fd, closed>>
      /\ req[r] \in RequestRecord /\ req[r].handle \in Handle /\ req[r].kept
  BY DEF kernel_open, FdInv, TypeOK, OpensWait, Tracked
<1>2. \E e, f :
        /\ req' = [req EXCEPT ![r] = e] /\ e.phase = "done" /\ e.op = "open"
        /\ e.handle = req[r].handle /\ e.kept
        /\ \/ /\ f \in Fd /\ kfd[f] = NoHandle /\ kfd' = [kfd EXCEPT ![f] = req[r].handle]
              /\ e.fd = f
           \/ kfd' = kfd /\ ~e.ok
  <2>1. ASSUME NEW f \in Fd, kfd[f] = NoHandle,
               kfd' = [kfd EXCEPT ![f] = IF req[r].kept THEN req[r].handle ELSE Lost],
               req' = [req EXCEPT ![r].phase = "done", ![r].fd = f]
        PROVE  <1>2!:
    <3> DEFINE e == [req[r] EXCEPT !.phase = "done", !.fd = f]
    <3>1. /\ e.phase = "done" /\ e.op = "open" /\ e.handle = req[r].handle /\ e.kept /\ e.fd = f
      BY <1>1 DEF RequestRecord
    <3>2. req' = [req EXCEPT ![r] = e]
      BY <2>1 DEF FdInv, TypeOK
    <3>3. kfd' = [kfd EXCEPT ![f] = req[r].handle]
      BY <1>1, <2>1
    <3> HIDE DEF e
    <3> QED
      BY <2>1, <3>1, <3>2, <3>3, Zenon
  <2>2. ASSUME req' = [req EXCEPT ![r].phase = "done", ![r].ok = FALSE], kfd' = kfd
        PROVE  <1>2!:
    <3> DEFINE e == [req[r] EXCEPT !.phase = "done", !.ok = FALSE]
    <3>1. e.phase = "done" /\ e.op = "open" /\ e.handle = req[r].handle /\ e.kept /\ ~e.ok
      BY <1>1 DEF RequestRecord
    <3>2. req' = [req EXCEPT ![r] = e]
      BY <2>2 DEF FdInv, TypeOK
    <3> HIDE DEF e
    <3> QED
      BY <2>2, <3>1, <3>2, Zenon
  <2> QED
    BY <2>1, <2>2 DEF kernel_open
<1>3. PICK e, f :
        /\ req' = [req EXCEPT ![r] = e] /\ e.phase = "done" /\ e.op = "open"
        /\ e.handle = req[r].handle /\ e.kept
        /\ \/ /\ f \in Fd /\ kfd[f] = NoHandle /\ kfd' = [kfd EXCEPT ![f] = req[r].handle]
              /\ e.fd = f
           \/ kfd' = kfd /\ ~e.ok
  BY <1>2, Zenon
<1>4. req'[r] = e /\ \A q \in Request : q # r => req'[q] = req[q]
  BY <1>3 DEF FdInv, TypeOK
<1>5. \A g \in Fd : kfd[g] \in Handle => kfd'[g] = kfd[g]
  BY <1>3, HandleAssumption DEF FdInv, TypeOK
<1>6. e.ok => kfd'[e.fd] = e.handle
  BY <1>3 DEF FdInv, TypeOK
<1>7. Tracked' /\ OneRequest'
  BY <1>1, <1>3, <1>4 DEF Tracked, OneRequest
<1>8. OpenedOwn'
  BY <1>3, <1>4, <1>5, <1>6 DEF OpenedOwn, FdInv, OpensWait
<1>9. \A h \in Handle : obj[h] = "open" => fd[h] \in Fd
  BY DEF FdInv, TypeOK
<1>10. ClosesShaped'
  <2> SUFFICES ASSUME NEW q \in Request, Closing(q)' PROVE CloseShape(q)'
    BY DEF ClosesShaped
  <2>1. q # r /\ Closing(q) /\ req'[q] = req[q]
    BY <1>3, <1>4 DEF Closing
  <2>2. CloseShape(q) /\ req[q].handle \in Handle
    BY <2>1 DEF ClosesShaped, Closing, FdInv, OpensWait
  <2> QED
    BY <1>1, <1>5, <1>9, <2>1, <2>2 DEF CloseShape
<1>11. \A h \in Handle : ClosePending(h)' <=> ClosePending(h)
  BY <1>1, <1>3, <1>4 DEF ClosePending
<1>12. OpenOwns' /\ SocketsMarked'
  BY <1>1, <1>5, <1>9, <1>11 DEF OpenOwns, SocketsMarked, Handle
<1> QED
  BY <1>7, <1>8, <1>10, <1>12

\* The reader takes the completion of an open: the object gets its own number, or
\* the number is lost with the object.
LEMMA ReadyOpenOwnInv ==
  ASSUME FdInv, OwnInv, NEW r \in Request, on_uring_ready_open(r) PROVE OwnInv'
<1> USE DEF OwnInv
<1>1. PICK h \in Handle : h = req[r].handle
  BY DEF on_uring_ready_open, FdInv, OpensWait
<1>2. /\ req[r].phase = "done" /\ req[r].op = "open" /\ req' = [req EXCEPT ![r] = NoReq]
      /\ closed' = closed /\ req[r].kept
  BY DEF on_uring_ready_open, Tracked
<1>3. obj[h] = "opening" /\ (req[r].ok => req[r].fd \in Fd /\ kfd[req[r].fd] = h)
  BY <1>1, <1>2 DEF FdInv, OpensWait, Opening, OpenedOwn
<1>4. \/ /\ obj' = [obj EXCEPT ![h] = "open"] /\ fd' = [fd EXCEPT ![h] = req[r].fd] /\ kfd' = kfd
         /\ req[r].ok
      \/ /\ obj' = [obj EXCEPT ![h] = "new"] /\ fd' = [fd EXCEPT ![h] = NoFd]
         /\ kfd' = IF req[r].ok THEN [kfd EXCEPT ![req[r].fd] = Lost] ELSE kfd
  BY <1>1, <1>2 DEF on_uring_ready_open
<1>5. /\ \A g \in Handle : g # h => obj'[g] = obj[g] /\ fd'[g] = fd[g]
      /\ \A f \in Fd : kfd[f] # h => kfd'[f] = kfd[f]
      /\ obj'[h] = "open" => kfd'[fd'[h]] = h
  BY <1>3, <1>4 DEF FdInv, TypeOK
<1>6. /\ req'[r] = NoReq /\ NoReq.phase = "free" /\ NoReq.kept
      /\ \A q \in Request : q # r => req'[q] = req[q]
  BY <1>2 DEF FdInv, TypeOK, NoReq
<1>7. \A q \in Request : q # r /\ req[q].phase # "free" => req[q].handle # h /\ req[q].handle \in Handle
  BY <1>1, <1>2 DEF OneRequest, FdInv, OpensWait
<1>8. Tracked' /\ OneRequest'
  BY <1>6 DEF Tracked, OneRequest
<1>9. OpenedOwn'
  BY <1>5, <1>6, <1>7 DEF OpenedOwn, FdInv, OpensWait
<1>10. \A g \in Handle : obj[g] = "open" => fd[g] \in Fd
  BY DEF FdInv, TypeOK
<1>11. ClosesShaped'
  <2> SUFFICES ASSUME NEW q \in Request, Closing(q)' PROVE CloseShape(q)'
    BY DEF ClosesShaped
  <2>1. q # r /\ Closing(q) /\ req'[q] = req[q]
    BY <1>6 DEF Closing
  <2>2. CloseShape(q) /\ req[q].handle \in Handle /\ req[q].handle # h
    BY <1>7, <2>1 DEF ClosesShaped, Closing
  <2> QED
    BY <1>5, <1>10, <2>1, <2>2 DEF CloseShape
<1>12. \A g \in Handle : ClosePending(g)' <=> ClosePending(g)
  BY <1>2, <1>6 DEF ClosePending
<1>13. OpenOwns' /\ SocketsMarked'
  <2>1. ASSUME NEW g \in Handle, obj'[g] = "open", ~closed[g], ~ClosePending(g)
        PROVE  kfd'[fd'[g]] = g
    <3>1. CASE g = h
      BY <1>5, <2>1, <3>1
    <3>2. CASE g # h
      BY <1>5, <1>10, <2>1, <3>2 DEF OpenOwns
    <3> QED
      BY <3>1, <3>2
  <2>2. OpenOwns'
    BY <1>2, <1>12, <2>1 DEF OpenOwns
  <2>3. SocketsMarked'
    BY <1>2, <1>12 DEF SocketsMarked, Handle
  <2> QED
    BY <2>2, <2>3
<1> QED
  BY <1>8, <1>9, <1>11, <1>13

\* The program cancels the future of an open.
LEMMA CancelOwnInv == ASSUME FdInv, OwnInv, NEW r \in Request, cancel(r) PROVE OwnInv'
<1> USE DEF OwnInv
<1>1. /\ req' = [req EXCEPT ![r].cancelled = TRUE] /\ UNCHANGED <<obj, fd, closed, kfd>>
      /\ req[r] \in RequestRecord
  BY DEF cancel, FdInv, TypeOK
<1>2. PICK e : e = [req[r] EXCEPT !.cancelled = TRUE]
  OBVIOUS
<1>3. /\ e.phase = req[r].phase /\ e.op = req[r].op /\ e.handle = req[r].handle
      /\ e.fd = req[r].fd /\ (e.kept <=> req[r].kept) /\ (e.ok <=> req[r].ok)
  BY <1>1, <1>2 DEF RequestRecord
<1>4. req' = [req EXCEPT ![r] = e]
  BY <1>1, <1>2
<1>5. req'[r] = e /\ \A q \in Request : q # r => req'[q] = req[q]
  BY <1>4 DEF FdInv, TypeOK
<1>6. \A q \in Request :
        /\ req'[q].phase = req[q].phase /\ req'[q].op = req[q].op /\ req'[q].handle = req[q].handle
        /\ req'[q].fd = req[q].fd /\ (req'[q].kept <=> req[q].kept) /\ (req'[q].ok <=> req[q].ok)
  BY <1>3, <1>5
<1>7. \A g \in Handle : ClosePending(g)' <=> ClosePending(g)
  BY <1>6 DEF ClosePending
<1>8. Tracked' /\ OpenedOwn' /\ OneRequest'
  BY <1>1, <1>6 DEF Tracked, OpenedOwn, OneRequest
<1>9. ClosesShaped'
  BY <1>1, <1>6 DEF ClosesShaped, Closing, CloseShape
<1>10. OpenOwns' /\ SocketsMarked'
  BY <1>1, <1>7 DEF OpenOwns, SocketsMarked, Handle
<1> QED
  BY <1>8, <1>9, <1>10

\* The program drops an object: nothing is in flight for it.
LEMMA DeallocOwnInv == ASSUME FdInv, OwnInv, NEW h \in Handle, dealloc(h) PROVE OwnInv'
<1> USE DEF OwnInv
<1>1. /\ obj[h] = "open" /\ obj' = [obj EXCEPT ![h] = "new"] /\ fd' = [fd EXCEPT ![h] = NoFd]
      /\ closed' = [closed EXCEPT ![h] = FALSE] /\ req' = req
      /\ kfd' = [f \in Fd |-> IF kfd[f] = h THEN Lost ELSE kfd[f]]
  BY DEF dealloc
<1>2. \A q \in Request : req[q].handle # h
  BY DEF dealloc, ReferredTo, Tracked
<1>3. /\ obj'[h] = "new" /\ \A g \in Handle : g # h => obj'[g] = obj[g] /\ fd'[g] = fd[g]
      /\ \A f \in Fd : kfd[f] # h => kfd'[f] = kfd[f]
  BY <1>1 DEF FdInv, TypeOK
<1>4. \A g \in Handle : g # h => closed'[g] = closed[g]
  BY <1>1 DEF FdInv, TypeOK
<1>5. \A q \in Request : req[q].phase # "free" => req[q].handle \in Handle
  BY DEF FdInv, OpensWait
<1>6. \A g \in Handle : obj[g] = "open" => fd[g] \in Fd
  BY DEF FdInv, TypeOK
<1>7. Tracked' /\ OneRequest'
  BY <1>1 DEF Tracked, OneRequest
<1>8. OpenedOwn'
  BY <1>1, <1>2, <1>3 DEF OpenedOwn, FdInv, OpensWait
<1>9. ClosesShaped'
  BY <1>1, <1>2, <1>3, <1>5, <1>6 DEF ClosesShaped, Closing, CloseShape
<1>10. (~ClosePending(h))' /\ \A g \in Handle : ClosePending(g)' <=> ClosePending(g)
  BY <1>1, <1>2 DEF ClosePending
<1>11. OpenOwns'
  BY <1>3, <1>4, <1>6, <1>10 DEF OpenOwns
<1>12. SocketsMarked'
  BY <1>4, <1>10 DEF SocketsMarked, Handle
<1> QED
  BY <1>7, <1>8, <1>9, <1>11, <1>12

\* The kernel's side of a close: it frees the number of the handle it is for.
LEMMA KernelCloseOwnInv ==
  ASSUME Strict, FdInv, OwnInv, NEW r \in Request, kernel_close(r) PROVE OwnInv'
<1> USE DEF OwnInv
<1>1. /\ req[r].phase = "sent" /\ req[r].op = "close" /\ UNCHANGED <<obj, fd, closed>>
      /\ req[r].handle \in Handle /\ req[r].kept
      /\ kfd[req[r].fd] = req[r].handle /\ obj[req[r].handle] = "open"
      /\ req[r].fd = fd[req[r].handle]
  BY DEF kernel_close, FdInv, OpensWait, ClosesShaped, Closing, CloseShape, Tracked
<1>2. PICK e :
        /\ e \in RequestRecord /\ req' = [req EXCEPT ![r] = e]
        /\ e.phase = "done" /\ e.op = "close" /\ e.handle = req[r].handle /\ e.via = req[r].via
        /\ e.fd = req[r].fd /\ (e.kept <=> req[r].kept)
        /\ \/ /\ kfd' = [kfd EXCEPT ![req[r].fd] = NoHandle]
              /\ kfd[req[r].fd] # NoHandle => e.ok \/ "close fails" \in Liberties
           \/ kfd' = kfd /\ "close fails" \in Liberties
  BY KernelCloseEffect, Zenon DEF FdInv
<1>3. req'[r] = e /\ \A q \in Request : q # r => req'[q] = req[q]
  BY <1>2 DEF FdInv, TypeOK
<1>4. /\ e.phase = "done" /\ e.op = "close" /\ e.handle = req[r].handle /\ e.fd = req[r].fd
      /\ e.kept /\ e.ok
  BY <1>1, <1>2, HandleAssumption DEF Strict
<1>5. \A f \in Fd : kfd[f] # req[r].handle => kfd'[f] = kfd[f]
  BY <1>1, <1>2 DEF FdInv, TypeOK
<1>6. \A q \in Request : q # r /\ req[q].phase # "free" =>
        req[q].handle # req[r].handle /\ req[q].handle \in Handle
  BY <1>1 DEF OneRequest, FdInv, OpensWait
<1>7. Tracked' /\ OneRequest'
  BY <1>1, <1>3, <1>4 DEF Tracked, OneRequest
<1>8. OpenedOwn'
  BY <1>3, <1>4, <1>5, <1>6 DEF OpenedOwn, FdInv, OpensWait
<1>9. \A g \in Handle : obj[g] = "open" => fd[g] \in Fd
  BY DEF FdInv, TypeOK
<1>10. ClosesShaped'
  <2> SUFFICES ASSUME NEW q \in Request, Closing(q)' PROVE CloseShape(q)'
    BY DEF ClosesShaped
  <2>1. CASE q = r
    BY <1>1, <1>3, <1>4, <2>1 DEF CloseShape
  <2>2. CASE q # r
    <3>1. Closing(q) /\ CloseShape(q)
      BY <1>3, <2>2 DEF Closing, ClosesShaped
    <3> QED
      BY <1>1, <1>3, <1>5, <1>6, <1>9, <2>2, <3>1 DEF Closing, CloseShape
  <2> QED
    BY <2>1, <2>2
<1>11. ClosePending(req[r].handle) /\ \A g \in Handle : ClosePending(g)' <=> ClosePending(g)
  BY <1>1, <1>3, <1>4 DEF ClosePending
<1>12. OpenOwns'
  BY <1>1, <1>5, <1>9, <1>11 DEF OpenOwns
<1>13. SocketsMarked'
  BY <1>1, <1>11 DEF SocketsMarked, Handle
<1> QED
  BY <1>7, <1>8, <1>10, <1>12, <1>13

\* The reader marks the handle of a close.
LEMMA ReadyCloseOwnInv ==
  ASSUME FdInv, OwnInv, NEW r \in Request, on_uring_ready_close(r) PROVE OwnInv'
<1> USE DEF OwnInv
<1>1. PICK h \in Handle : h = req[r].handle
  BY DEF on_uring_ready_close, FdInv, OpensWait
<1>2. /\ req[r].phase = "done" /\ req[r].op = "close" /\ UNCHANGED <<obj, fd, kfd>>
      /\ req' = [req EXCEPT ![r] = NoReq] /\ req[r].ok /\ req[r].kept
  BY DEF on_uring_ready_close, ClosesShaped, Closing, CloseShape, Tracked
<1>3. closed' = [closed EXCEPT ![h] = TRUE]
  BY <1>1, <1>2 DEF on_uring_ready_close
<1>4. closed'[h] /\ \A g \in Handle : g # h => closed'[g] = closed[g]
  BY <1>3 DEF FdInv, TypeOK
<1>5. /\ req'[r] = NoReq /\ NoReq.phase = "free" /\ NoReq.kept
      /\ \A q \in Request : q # r => req'[q] = req[q]
  BY <1>2 DEF FdInv, TypeOK, NoReq
<1>6. Tracked' /\ OneRequest' /\ OpenedOwn'
  BY <1>2, <1>5 DEF Tracked, OneRequest, OpenedOwn
<1>7. ClosesShaped'
  BY <1>2, <1>5 DEF ClosesShaped, Closing, CloseShape
<1>8. \A g \in Handle : g # h => (ClosePending(g)' <=> ClosePending(g))
  BY <1>1, <1>5 DEF ClosePending
<1>9. OpenOwns'
  BY <1>2, <1>4, <1>8 DEF OpenOwns
<1>10. SocketsMarked'
  BY <1>4, <1>8 DEF SocketsMarked, Handle
<1> QED
  BY <1>6, <1>7, <1>9, <1>10

\* Every step of a strict program keeps the invariant.
LEMMA StepOwnInv == ASSUME Strict PROVE FdInv /\ OwnInv /\ [Next]_vars => OwnInv'
<1> SUFFICES ASSUME FdInv, OwnInv, [Next]_vars PROVE OwnInv'
  OBVIOUS
<1>1. ASSUME NEW h \in Handle, NEW r \in Request,
             Uringio_open(h, r) \/ Uringio_prep_socket(h, r)
      PROVE  OwnInv'
  BY <1>1, OpensOwnInv DEF Uringio_open, Uringio_prep_socket
<1>2. ASSUME NEW t \in Sockets, NEW h \in Sockets, NEW r \in Request, UringioSocket_accept(t, h, r)
      PROVE  OwnInv'
  BY <1>2, OpensOwnInv DEF UringioSocket_accept, Handle
<1>3. ASSUME NEW h \in Handle, NEW r \in Request,
             \/ UringioFile_close(h, r) \/ UringioSocket_close(h, r)
             \/ UringioFile_aexit(h, r) \/ UringioSocket_aexit(h, r)
      PROVE  OwnInv'
  BY <1>3, ClosesOwnInv
<1>4. ASSUME NEW r \in Request,
             \/ kernel_open(r) \/ on_uring_ready_open(r) \/ cancel(r)
             \/ kernel_close(r) \/ on_uring_ready_close(r)
      PROVE  OwnInv'
  BY <1>4, KernelOpenOwnInv, ReadyOpenOwnInv, CancelOwnInv, KernelCloseOwnInv, ReadyCloseOwnInv
<1>5. ASSUME NEW h \in Handle, dealloc(h) PROVE OwnInv'
  BY <1>5, DeallocOwnInv
<1>6. CASE UNCHANGED vars
  BY <1>6 DEF vars, OwnInv, Tracked, OpenedOwn, ClosesShaped, Closing, CloseShape, OneRequest,
              OpenOwns, SocketsMarked, ClosePending
<1> QED
  BY <1>1, <1>2, <1>3, <1>4, <1>5, <1>6 DEF Next

\* Without the liberties a handle that accepts method calls has the descriptor it
\* was opened with, for any number of handles, descriptors and requests.
THEOREM HandlesActOnTheirOwn == ASSUME Strict PROVE Spec => []AcceptsOwn
<1>1. OwnInv => AcceptsOwn
  BY DEF OwnInv, OpenOwns, SocketsMarked, AcceptsOwn, Accepts, Strict, Handle
<1>2. FdInv /\ OwnInv /\ [Next]_vars => OwnInv'
  BY StepOwnInv
<1> QED
  BY <1>1, <1>2, InitFdInv, StepFdInv, InitOwnInv, PTL DEF Spec

\* A step that frees a descriptor is the kernel's close of the handle it was
\* opened for.
FreesOwn == \A f \in Fd : kfd[f] # NoHandle /\ kfd'[f] = NoHandle =>
  \E r \in Request : /\ req[r].phase = "sent" /\ req[r].op = "close"
                     /\ req[r].handle = kfd[f] /\ req'[r] # req[r]

\* Every step does: a close in flight has its own handle's number.
LEMMA StepFreesOwn == ASSUME Strict PROVE FdInv /\ OwnInv /\ [Next]_vars => FreesOwn
<1> SUFFICES ASSUME FdInv, OwnInv, [Next]_vars,
                    NEW f \in Fd, kfd[f] # NoHandle, kfd'[f] = NoHandle
             PROVE  \E r \in Request : /\ req[r].phase = "sent" /\ req[r].op = "close"
                                       /\ req[r].handle = kfd[f] /\ req'[r] # req[r]
  BY DEF FreesOwn
<1> USE DEF FdInv
<1>1. kfd' # kfd
  OBVIOUS
<1>2. ASSUME NEW r \in Request, kernel_close(r)
      PROVE  /\ req[r].phase = "sent" /\ req[r].op = "close"
             /\ req[r].handle = kfd[f] /\ req'[r] # req[r]
  <2>1. /\ req[r].phase = "sent" /\ req[r].op = "close" /\ kfd[req[r].fd] = req[r].handle
    BY <1>2 DEF kernel_close, OwnInv, ClosesShaped, Closing, CloseShape
  <2>2. PICK e :
          /\ e \in RequestRecord /\ req' = [req EXCEPT ![r] = e]
          /\ e.phase = "done" /\ e.op = "close" /\ e.handle = req[r].handle /\ e.via = req[r].via
          /\ e.fd = req[r].fd /\ (e.kept <=> req[r].kept)
          /\ \/ /\ kfd' = [kfd EXCEPT ![req[r].fd] = NoHandle]
                /\ kfd[req[r].fd] # NoHandle => e.ok \/ "close fails" \in Liberties
             \/ kfd' = kfd /\ "close fails" \in Liberties
    BY <1>2, KernelCloseEffect, Zenon
  <2>3. f = req[r].fd
    BY <1>1, <2>2 DEF TypeOK
  <2> QED
    BY <2>1, <2>2, <2>3 DEF TypeOK
<1>3. ASSUME NEW r \in Request, kernel_open(r) PROVE FALSE
  <2>1. req[r].handle \in Handle
    BY <1>3 DEF kernel_open, OpensWait
  <2>2. PICK g \in Fd : kfd' = [kfd EXCEPT ![g] = IF req[r].kept THEN req[r].handle ELSE Lost]
    BY <1>1, <1>3 DEF kernel_open
  <2> QED
    BY <2>1, <2>2, HandleAssumption DEF TypeOK
<1>4. ASSUME NEW r \in Request, on_uring_ready_open(r) PROVE FALSE
  <2>1. kfd' = [kfd EXCEPT ![req[r].fd] = Lost]
    BY <1>1, <1>4 DEF on_uring_ready_open
  <2> QED
    BY <2>1, HandleAssumption DEF TypeOK
<1>5. ASSUME NEW h \in Handle, dealloc(h) PROVE FALSE
  BY <1>5, HandleAssumption DEF dealloc
<1> QED
  BY <1>1, <1>2, <1>3, <1>4, <1>5
  DEF Next, vars, Uringio_open, Uringio_prep_socket, UringioSocket_accept, Opens, UringioFile_close,
      UringioSocket_close, UringioFile_aexit, UringioSocket_aexit, Exits, Closes, cancel,
      on_uring_ready_close

\* Without the liberties the kernel frees a descriptor only for a close of the
\* handle it was opened for.
THEOREM HandlesCloseTheirOwn == ASSUME Strict PROVE Spec => ClosesOwn
<1>1. FdInv /\ OwnInv /\ [Next]_vars => OwnInv'
  BY StepOwnInv
<1>2. FdInv /\ OwnInv /\ [Next]_vars =>
        [\A f \in Fd : kfd[f] # NoHandle /\ kfd'[f] = NoHandle =>
           \E r \in Request : /\ req[r].phase = "sent" /\ req[r].op = "close"
                              /\ req[r].handle = kfd[f] /\ req'[r] # req[r]]_vars
  BY StepFreesOwn DEF FreesOwn
<1> QED
  BY <1>1, <1>2, InitFdInv, StepFdInv, InitOwnInv, PTL DEF Spec, ClosesOwn
=============================================================================

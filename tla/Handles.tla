------------------------------- MODULE Handles -------------------------------
(***************************************************************************)
(* Files and sockets, and the descriptors of the process behind them.  A   *)
(* handle keeps the number of its descriptor; the kernel gives a number    *)
(* that was closed to the next file, socket or connection.  Opens and      *)
(* closes are requests: the kernel does them some time after the call, and *)
(* the handle learns of it when the reader reads the completion.  Module   *)
(* Requests has the slots and futures of requests, which are left out here.*)
(***************************************************************************)
EXTENDS Integers

CONSTANTS
  Files, Sockets,  \* the objects the program can have at a time
  Request,         \* the opens and closes that can be in flight
  Fd,              \* the descriptors the process may open
  NoFd, NoHandle,  \* no descriptor; a number that is free
  Lost,            \* ghost: open, and no object knows its number
  Liberties        \* what the program and the kernel may do besides

Handle == Files \cup Sockets

\* "overlap": a method of a file is called while a close of it is in flight.
\* "exit after close": the body of an async with closes its handle.
\* "close fails": the kernel may answer a close with an error, having released
\* the descriptor or not.
\* "submit fails": io_uring_submit may fail; the SQE stays and is sent later.
AllLiberties == {"overlap", "exit after close", "close fails", "submit fails"}

ASSUME HandleAssumption ==
  Files \cap Sockets = {} /\ {NoHandle, Lost} \cap Handle = {} /\ NoHandle # Lost
ASSUME FdAssumption == Fd \subseteq Nat /\ NoFd \notin Fd
ASSUME LibertyAssumption == Liberties \subseteq AllLiberties

VARIABLES
  obj,     \* of each handle: "new" (no object), "opening", "open"
  fd,      \* UringioFile.fd, UringioSocket.sock_fd
  closed,  \* UringioFile.closed, UringioSocket.closed
  kfd,     \* the kernel's table: the handle each number was given to
  req      \* the requests in flight

vars == <<obj, fd, closed, kfd, req>>

\* kept: the request has its slot; otherwise its completion is for nobody.
\* via: the socket an accept is called on.
RequestRecord == [phase : {"free", "sent", "done"}, op : {"none", "open", "close"},
                  handle : Handle \cup {NoHandle}, via : Sockets \cup {NoHandle},
                  fd : Fd \cup {NoFd}, ok : BOOLEAN, kept : BOOLEAN, cancelled : BOOLEAN]
NoReq == [phase |-> "free", op |-> "none", handle |-> NoHandle, via |-> NoHandle, fd |-> NoFd,
          ok |-> TRUE, kept |-> TRUE, cancelled |-> FALSE]

\* A request that is sent, with its slot or without.
Sent(op, h, via, f, kept) == [phase |-> "sent", op |-> op, handle |-> h, via |-> via, fd |-> f,
                              ok |-> TRUE, kept |-> kept, cancelled |-> FALSE]

\* A slot keeps a reference to its file or socket.
ReferredTo(h) == \E r \in Request : req[r].kept /\ h \in {req[r].handle, req[r].via}
ClosePending(h) == \E r \in Request :
  req[r].phase # "free" /\ req[r].op = "close" /\ req[r].handle = h /\ req[r].kept

\* How a call ends: no SQE, a request sent, or a failed submit, whose SQE a later
\* submit sends.  A full registry is found first and changes nothing.
Outcomes == {"refused", "sent"} \cup {o \in {"late"} : "submit fails" \in Liberties}

Init ==
  /\ obj = [h \in Handle |-> "new"]
  /\ fd = [h \in Handle |-> NoFd]
  /\ closed = [h \in Handle |-> FALSE]
  /\ kfd = [f \in Fd |-> NoHandle]
  /\ req = [r \in Request |-> NoReq]
-----------------------------------------------------------------------------
(* Opening *)

\* An object is made for the request and dropped again if the call fails.
Opens(h, r, via) ==
  /\ obj[h] = "new" /\ ~ReferredTo(h) /\ req[r].phase = "free"
  /\ \E outcome \in Outcomes :
       /\ outcome # "refused"
       /\ obj' = [obj EXCEPT ![h] = IF outcome = "sent" THEN "opening" ELSE "new"]
       /\ req' = [req EXCEPT ![r] = Sent("open", h, via, NoFd, outcome = "sent")]
  /\ UNCHANGED <<fd, closed, kfd>>

Uringio_open(h, r) == h \in Files /\ Opens(h, r, NoHandle)
Uringio_prep_socket(h, r) == h \in Sockets /\ Opens(h, r, NoHandle)

\* The handle accepts method calls, as far as it knows.
Accepts(h) ==
  /\ obj[h] = "open" /\ ~closed[h]
  /\ h \in Files /\ ClosePending(h) => "overlap" \in Liberties

\* The connection's object is made by the reader.
UringioSocket_accept(s, h, r) == Accepts(s) /\ Opens(h, r, s)

\* The kernel opens at the lowest free number, or fails.
kernel_open(r) ==
  /\ req[r].phase = "sent" /\ req[r].op = "open"
  /\ \/ \E f \in Fd :
          /\ kfd[f] = NoHandle /\ \A g \in Fd : g < f => kfd[g] # NoHandle
          /\ kfd' = [kfd EXCEPT ![f] = IF req[r].kept THEN req[r].handle ELSE Lost]
          /\ req' = [req EXCEPT ![r].phase = "done", ![r].fd = f]
     \/ /\ req' = [req EXCEPT ![r].phase = "done", ![r].ok = FALSE]
        /\ UNCHANGED kfd
  /\ UNCHANGED <<obj, fd, closed>>

\* Mutant: the result is stored without a look at its sign.
on_uring_ready_open_NoErrorCheck(r) ==
  LET h == req[r].handle
  IN  /\ req[r].phase = "done" /\ req[r].op = "open"
      /\ req' = [req EXCEPT ![r] = NoReq]
      /\ obj' = [obj EXCEPT ![h] = "open"]
      /\ fd' = [fd EXCEPT ![h] = req[r].fd]
      /\ UNCHANGED <<closed, kfd>>

\* Mutant: the descriptor of a new connection is not stored.
on_uring_ready_open_NoFd(r) ==
  LET h == req[r].handle
  IN  /\ req[r].phase = "done" /\ req[r].op = "open"
      /\ req' = [req EXCEPT ![r] = NoReq]
      /\ obj' = [obj EXCEPT ![h] = IF req[r].ok THEN "open" ELSE "new"]
      /\ UNCHANGED <<fd, closed, kfd>>

\* The reader stores the descriptor and hands the object to the future.  An
\* error drops the object, and so does a future that was cancelled: then nobody
\* knows the descriptor.
on_uring_ready_open(r) ==
  LET h == req[r].handle
      taken == req[r].ok /\ ~req[r].cancelled
  IN  /\ req[r].phase = "done" /\ req[r].op = "open"
      /\ req' = [req EXCEPT ![r] = NoReq]
      /\ IF req[r].kept
         THEN /\ obj' = [obj EXCEPT ![h] = IF taken THEN "open" ELSE "new"]
              /\ fd' = [fd EXCEPT ![h] = IF taken THEN req[r].fd ELSE NoFd]
              /\ kfd' = IF req[r].ok /\ ~taken THEN [kfd EXCEPT ![req[r].fd] = Lost] ELSE kfd
         ELSE UNCHANGED <<obj, fd, kfd>>
      /\ UNCHANGED closed

\* The program cancels the future of an open in flight; the request goes on.
cancel(r) ==
  /\ req[r].phase # "free" /\ req[r].op = "open" /\ req[r].kept /\ ~req[r].cancelled
  /\ req' = [req EXCEPT ![r].cancelled = TRUE]
  /\ UNCHANGED <<obj, fd, closed, kfd>>

\* The last reference to an object goes; dealloc does not close the descriptor.
dealloc(h) ==
  /\ obj[h] = "open" /\ ~ReferredTo(h)
  /\ obj' = [obj EXCEPT ![h] = "new"]
  /\ fd' = [fd EXCEPT ![h] = NoFd]
  /\ closed' = [closed EXCEPT ![h] = FALSE]
  /\ kfd' = [f \in Fd |-> IF kfd[f] = h THEN Lost ELSE kfd[f]]
  /\ UNCHANGED req
-----------------------------------------------------------------------------
(* Closing *)

\* A close of h is asked for, with the number the handle has.
Closes(h, r, outcome) ==
  /\ req[r].phase = "free"
  /\ req' = IF outcome = "refused" THEN req
            ELSE [req EXCEPT ![r] = Sent("close", h, NoHandle, fd[h], outcome = "sent")]
  /\ UNCHANGED <<obj, fd, kfd>>

\* A file's close leaves closed to the reader.
UringioFile_close(h, r) ==
  /\ h \in Files /\ Accepts(h)
  /\ \E outcome \in Outcomes : Closes(h, r, outcome)
  /\ UNCHANGED closed

\* Mutant: closed is left to the reader.
UringioSocket_close_LateFlag(h, r) ==
  /\ h \in Sockets /\ Accepts(h)
  /\ \E outcome \in Outcomes : Closes(h, r, outcome)
  /\ UNCHANGED closed

\* A socket's close sets closed, and clears it again if the call fails.
UringioSocket_close(h, r) ==
  /\ h \in Sockets /\ Accepts(h)
  /\ \E outcome \in Outcomes :
       /\ Closes(h, r, outcome)
       /\ closed' = [closed EXCEPT ![h] = outcome = "sent"]

\* Neither __aexit__ looks at closed: whether the handle was closed in the block,
\* or is being closed, is up to the program.
MayExit(h) ==
  /\ obj[h] = "open"
  /\ closed[h] => "exit after close" \in Liberties
  /\ ClosePending(h) => "overlap" \in Liberties

\* Mutant: a close that could not be sent leaves the handle closed.
Exits_NoRollback(h, r) ==
  /\ MayExit(h)
  /\ \E outcome \in Outcomes :
       /\ Closes(h, r, outcome)
       /\ closed' = [closed EXCEPT ![h] = TRUE]

\* closed is set, and cleared if the call fails, whatever it was before.
Exits(h, r) ==
  /\ MayExit(h)
  /\ \E outcome \in Outcomes :
       /\ Closes(h, r, outcome)
       /\ closed' = [closed EXCEPT ![h] = outcome = "sent"]

UringioFile_aexit(h, r) == h \in Files /\ Exits(h, r)
UringioSocket_aexit(h, r) == h \in Sockets /\ Exits(h, r)

\* The kernel frees the number in the request, whoever has it by now; it is an
\* error if nobody has.
CloseResults == {[ok |-> TRUE, frees |-> TRUE]} \cup
                {c \in [ok : {FALSE}, frees : BOOLEAN] : "close fails" \in Liberties}
kernel_close(r) ==
  /\ req[r].phase = "sent" /\ req[r].op = "close"
  /\ \E c \in CloseResults :
       /\ req' = [req EXCEPT ![r].phase = "done", ![r].ok = c.ok /\ kfd[req[r].fd] # NoHandle]
       /\ kfd' = IF c.frees THEN [kfd EXCEPT ![req[r].fd] = NoHandle] ELSE kfd
  /\ UNCHANGED <<obj, fd, closed>>

\* Mutant: only sockets are marked.
on_uring_ready_close_SocketsOnly(r) ==
  /\ req[r].phase = "done" /\ req[r].op = "close"
  /\ req' = [req EXCEPT ![r] = NoReq]
  /\ closed' = IF req[r].ok /\ req[r].handle \in Sockets
               THEN [closed EXCEPT ![req[r].handle] = TRUE] ELSE closed
  /\ UNCHANGED <<obj, fd, kfd>>

\* The reader marks the handle closed, unless the close failed.
on_uring_ready_close(r) ==
  /\ req[r].phase = "done" /\ req[r].op = "close"
  /\ req' = [req EXCEPT ![r] = NoReq]
  /\ closed' = IF req[r].ok /\ req[r].kept
               THEN [closed EXCEPT ![req[r].handle] = TRUE] ELSE closed
  /\ UNCHANGED <<obj, fd, kfd>>
-----------------------------------------------------------------------------
Next ==
  \/ \E h \in Handle, r \in Request :
       \/ Uringio_open(h, r) \/ Uringio_prep_socket(h, r)
       \/ UringioFile_close(h, r) \/ UringioSocket_close(h, r)
       \/ UringioFile_aexit(h, r) \/ UringioSocket_aexit(h, r)
  \/ \E s, h \in Sockets, r \in Request : UringioSocket_accept(s, h, r)
  \/ \E r \in Request :
       \/ kernel_open(r) \/ on_uring_ready_open(r) \/ cancel(r)
       \/ kernel_close(r) \/ on_uring_ready_close(r)
  \/ \E h \in Handle : dealloc(h)

\* The kernel does the closes it was sent, and the loop reads completions.  That
\* an open is done, or that the program does anything, is not assumed: an
\* accept may wait for ever.
Fairness == \A r \in Request :
  WF_vars(kernel_close(r)) /\ WF_vars(on_uring_ready_close(r)) /\ WF_vars(on_uring_ready_open(r))

Spec == Init /\ [][Next]_vars
FairSpec == Spec /\ Fairness
-----------------------------------------------------------------------------
\* The type invariant; an object that is open has a descriptor.
TypeOK ==
  /\ obj \in [Handle -> {"new", "opening", "open"}]
  /\ fd \in [Handle -> Fd \cup {NoFd}]
  /\ closed \in [Handle -> BOOLEAN]
  /\ kfd \in [Fd -> Handle \cup {NoHandle, Lost}]
  /\ req \in [Request -> RequestRecord]
  /\ \A h \in Handle : obj[h] = "open" <=> fd[h] # NoFd

\* A handle that accepts method calls still has the descriptor it was opened
\* with: no read, send, accept or close it lets through acts on a number the
\* kernel has given to another file, socket or connection.
AcceptsOwn == \A h \in Handle : Accepts(h) => kfd[fd[h]] = h

\* Every open descriptor is the one some object has, or is in a completion of
\* an open that the reader has not read; only the program can lose one.
NoStrayFd == \A f \in Fd : kfd[f] \in Handle =>
  \/ obj[kfd[f]] = "open" /\ fd[kfd[f]] = f
  \/ \E r \in Request : /\ req[r].phase = "done" /\ req[r].op = "open"
                        /\ req[r].handle = kfd[f] /\ req[r].fd = f

\* A descriptor is freed only by a close of the handle it was opened for.
ClosesOwn == [][\A f \in Fd : kfd[f] # NoHandle /\ kfd'[f] = NoHandle =>
                 \E r \in Request : /\ req[r].phase = "sent" /\ req[r].op = "close"
                                    /\ req[r].handle = kfd[f] /\ req'[r] # req[r]]_vars

\* A handle that says it is closed has its descriptor released in the end.
CloseReleases == \A h \in Handle :
  (obj[h] = "open" /\ closed[h]) ~> (\A f \in Fd : kfd[f] # h)
=============================================================================

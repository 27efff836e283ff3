----------------------------- MODULE Operations -----------------------------
(***************************************************************************)
(* What each awaitable method of the Python API registers and submits.     *)
(* Every method has the same skeleton (module Requests models it once):    *)
(* check the handle, create the future and the payload, registry_add,      *)
(* prepare one SQE and submit.  The methods differ in the opcode the       *)
(* reader will switch on, the payload put in the slot and the kind of SQE. *)
(***************************************************************************)

\* An SQE as far as its lifetime goes: how many CQEs it posts ("one",
\* "multi", or "zc": a result and a later notification) and which memory the
\* kernel uses until the last of them: a buffer, and the message header into
\* which a receive writes what it found ("slot": one kept in the request's
\* slot, "stack": a local of the function that prepares the SQE).  What the
\* kernel copies when the SQE is submitted does not count.
Sqe(shots, buffer) == [shots |-> shots, buffer |-> buffer, header |-> "none"]

\* Files (src/src/ops/files).
open_file == Sqe("one", "none")
uringio_read == Sqe("one", "payload")
uringio_read_fixed == Sqe("one", "payload")
uringio_read_multishot == Sqe("multi", "group")
uringio_read_buffer_select == Sqe("one", "group")
uringio_readv == Sqe("one", "payload")
uringio_readv_buffer_select == Sqe("one", "group")
uringio_write == Sqe("one", "payload")
uringio_write_fixed == Sqe("one", "payload")
uringio_writev == Sqe("one", "payload")
uringio_close_file == Sqe("one", "none")
uringio_fsync == Sqe("one", "none")
uringio_fdatasync == Sqe("one", "none")
uringio_splice == Sqe("one", "none")

\* Sockets (src/src/ops/sockets).
prep_socket == Sqe("one", "none")
uringio_bind == Sqe("one", "none")
uringio_connect == Sqe("one", "none")
uringio_listen == Sqe("one", "none")
uringio_accept == Sqe("one", "none")
uringio_accept_multishot == Sqe("multi", "none")
uringio_close_socket == Sqe("one", "none")
uringio_send == Sqe("one", "payload")
uringio_send_zc == Sqe("zc", "payload")
uringio_send_zc_fixed == Sqe("zc", "payload")
uringio_recv == Sqe("one", "payload")
uringio_recv_multishot == Sqe("multi", "group")
uringio_recv_buffer_select == Sqe("one", "group")
uringio_sendto == Sqe("one", "payload")
uringio_recvfrom == [Sqe("one", "payload") EXCEPT !.header = "slot"]
uringio_sendmsg == Sqe("one", "payload")
uringio_recvmsg == [Sqe("one", "payload") EXCEPT !.header = "stack"]

\* Timers (src/src/timer): the multishot flag comes from the stream strategy.
timer(ctx) == IF ctx.stream = "MULTISHOT" THEN Sqe("multi", "none") ELSE Sqe("one", "none")
-----------------------------------------------------------------------------
\* An execution context: buffer mode, stream strategy and transfer mode.
Context == [mode : {"NORMAL_BUF", "FIXED", "PROVIDED", "BUF_RING"},
            stream : {"ONESHOT", "MULTISHOT"},
            transfer : {"NORMAL_TRANSFER", "ZERO_COPY"}]

SelectsBuffers(mode) == mode \in {"PROVIDED", "BUF_RING"}

\* Whose payload a slot holds: the request's own ("own"), the one every
\* request of the context shares ("context"), none, or one that is created
\* but not put in the slot ("unregistered").  A payload has a linear or a
\* vector half, and NULL for the other.  The context's payload is linear in
\* every mode but NORMAL_BUF, whose case of create_buffer_payload runs on into
\* the FIXED case and leaves a payload type nobody reuses (entering a FIXED
\* context drops the vector half made for it).
Payload(owner, half) == [owner |-> owner, half |-> half]
NoPayload == Payload("none", "none")
create_buffer_payload == Payload("context", "linear")

get_or_create_linear_buffer(ctx) ==
  IF ctx.mode = "NORMAL_BUF" THEN Payload("own", "linear") ELSE create_buffer_payload
get_or_create_vectored_buffer == Payload("own", "vector")
create_buffer_payload_from_pybuffer == Payload("own", "vector")
create_buffer_payload_from_data == Payload("own", "linear")

\* A request's own payload is in normal mode whatever the context.
PayloadMode(p, ctx) == IF p.owner = "context" THEN ctx.mode ELSE "NORMAL_BUF"

read_dispatcher(mode, stream) ==
  IF mode = "FIXED" THEN uringio_read_fixed
  ELSE IF ~SelectsBuffers(mode) THEN uringio_read
  ELSE IF stream = "MULTISHOT" THEN uringio_read_multishot ELSE uringio_read_buffer_select

readv_dispatcher(mode) ==
  IF SelectsBuffers(mode) THEN uringio_readv_buffer_select ELSE uringio_readv

write_dispatcher(mode) == IF mode = "FIXED" THEN uringio_write_fixed ELSE uringio_write

accept_dispatcher(stream) ==
  IF stream = "MULTISHOT" THEN uringio_accept_multishot ELSE uringio_accept

recv_dispatcher(mode, stream) ==
  IF ~SelectsBuffers(mode) THEN uringio_recv
  ELSE IF stream = "MULTISHOT" THEN uringio_recv_multishot ELSE uringio_recv_buffer_select

send_dispatcher(mode, transfer) ==
  IF transfer # "ZERO_COPY" THEN uringio_send
  ELSE IF mode = "FIXED" THEN uringio_send_zc_fixed ELSE uringio_send_zc
-----------------------------------------------------------------------------
\* What a method registers under its index and what it submits.  "prepares" is
\* FALSE for a call that takes its SQE and returns before preparing it, msghdr
\* is TRUE for one that puts a message header on the heap into its slot.
Op(opcode, p, sqe) ==
  [opcode |-> opcode, payload |-> p.owner, half |-> p.half, stream |-> "ONESHOT", msghdr |-> FALSE,
   shots |-> sqe.shots, buffer |-> sqe.buffer, header |-> sqe.header, prepares |-> TRUE]

\* The methods that put the stream strategy of their context into the slot.
Streams(o, ctx) == [o EXCEPT !.stream = ctx.stream]

Uringio_open(ctx) == Op("OPENAT2", NoPayload, open_file)

UringioFile_read(ctx) ==
  LET p == get_or_create_linear_buffer(ctx)
  IN  Streams(Op("READ", p, read_dispatcher(PayloadMode(p, ctx), ctx.stream)), ctx)

\* In a mode that selects buffers the slot gets the context's linear payload.
UringioFile_readv(ctx) ==
  LET p == IF SelectsBuffers(ctx.mode) THEN create_buffer_payload ELSE get_or_create_vectored_buffer
  IN  Op("READV", p, readv_dispatcher(PayloadMode(p, ctx)))

UringioFile_readv_raw(ctx) == Op("READV", create_buffer_payload_from_pybuffer, uringio_readv)

UringioFile_write(ctx) ==
  LET p == create_buffer_payload_from_data
  IN  Op("WRITE", p, write_dispatcher(PayloadMode(p, ctx)))

UringioFile_writev(ctx) == Op("WRITEV", get_or_create_vectored_buffer, uringio_writev)

UringioFile_writev_raw(ctx) == Op("WRITEV", create_buffer_payload_from_pybuffer, uringio_writev)

UringioFile_fsync(ctx) == Op("FSYNC", NoPayload, uringio_fsync)

UringioFile_fdatasync(ctx) == Op("FSYNC", NoPayload, uringio_fdatasync)

UringioFile_splice(ctx) == Op("SPLICE", NoPayload, uringio_splice)

UringioFile_close(ctx) == Op("CLOSE", NoPayload, uringio_close_file)

UringioFile_aexit(ctx) == Op("CLOSE", NoPayload, uringio_close_file)

Uringio_prep_socket(ctx) == Op("SOCKET", NoPayload, prep_socket)

\* prep_socket with a domain it does not support: the SQE is already taken.
Uringio_prep_socket_bad_domain(ctx) == [Uringio_prep_socket(ctx) EXCEPT !.prepares = FALSE]

UringioSocket_bind(ctx) == Op("BIND", NoPayload, uringio_bind)

UringioSocket_connect(ctx) == Op("CONNECT", NoPayload, uringio_connect)

UringioSocket_listen(ctx) == Op("LISTEN", NoPayload, uringio_listen)

UringioSocket_accept(ctx) == Streams(Op("ACCEPT", NoPayload, accept_dispatcher(ctx.stream)), ctx)

UringioSocket_close(ctx) == Op("CLOSE", NoPayload, uringio_close_socket)

UringioSocket_aexit(ctx) == Op("CLOSE", NoPayload, uringio_close_socket)

UringioSocket_send(ctx) ==
  LET p == create_buffer_payload_from_data
  IN  Op("SEND", p, send_dispatcher(PayloadMode(p, ctx), ctx.transfer))

UringioSocket_recv(ctx) ==
  LET p == get_or_create_linear_buffer(ctx)
  IN  Streams(Op("RECV", p, recv_dispatcher(PayloadMode(p, ctx), ctx.stream)), ctx)

\* The payload is created, but NULL is registered.
UringioSocket_sendto(ctx) ==
  [Op("SENDMSG", create_buffer_payload_from_data, uringio_sendto) EXCEPT !.payload = "unregistered"]

\* The header in the slot is the one the kernel writes.
UringioSocket_recvfrom(ctx) ==
  [Op("RECVMSG", get_or_create_linear_buffer(ctx), uringio_recvfrom) EXCEPT !.msghdr = TRUE]

\* sendmsg in a context without zero copy; with it sendmsg_dispatcher asks an
\* index registry that its own payload does not have.
UringioSocket_sendmsg(ctx) == Op("SENDMSG", get_or_create_vectored_buffer, uringio_sendmsg)

\* recvmsg: its payload is its own, so the dispatcher never selects buffers, and
\* the header in the slot is not passed on.
UringioSocket_recvmsg(ctx) ==
  Streams([Op("RECVMSG", get_or_create_vectored_buffer, uringio_recvmsg) EXCEPT !.msghdr = TRUE], ctx)

UringioLoop_timer(ctx) == Op("TIMEOUT", NoPayload, timer(ctx))
-----------------------------------------------------------------------------
\* All the awaitable methods in one context.
FileOps(ctx) ==
  {Uringio_open(ctx), UringioFile_read(ctx), UringioFile_readv(ctx), UringioFile_readv_raw(ctx),
   UringioFile_write(ctx), UringioFile_writev(ctx), UringioFile_writev_raw(ctx),
   UringioFile_fsync(ctx), UringioFile_fdatasync(ctx), UringioFile_splice(ctx),
   UringioFile_close(ctx), UringioFile_aexit(ctx)}

SocketOps(ctx) ==
  {Uringio_prep_socket(ctx), UringioSocket_bind(ctx), UringioSocket_connect(ctx),
   UringioSocket_listen(ctx), UringioSocket_accept(ctx), UringioSocket_close(ctx),
   UringioSocket_aexit(ctx), UringioSocket_send(ctx), UringioSocket_recv(ctx),
   UringioSocket_sendto(ctx), UringioSocket_recvfrom(ctx), UringioSocket_sendmsg(ctx),
   UringioSocket_recvmsg(ctx)}

AllOps(ctx) == FileOps(ctx) \cup SocketOps(ctx) \cup {UringioLoop_timer(ctx)}

\* All but the two that give the kernel or the reader memory that is not there:
\* recvmsg, and readv in a mode that selects buffers.
SoundOps(ctx) ==
  AllOps(ctx) \ ({UringioSocket_recvmsg(ctx)} \cup
                 (IF SelectsBuffers(ctx.mode) THEN {UringioFile_readv(ctx)} ELSE {}))
=============================================================================

---------------------------- MODULE MCExecContext ----------------------------
(***************************************************************************)
(* Instances of ExecContext: the managers of the programs the runs check.  *)
(***************************************************************************)
EXTENDS ExecContext

CONSTANTS a, b, c

Symmetry == Permutations(Request)

ThreeManagers(x, y, z) == [m \in {a, b, c} |-> CASE m = a -> x [] m = b -> y [] m = c -> z]

\* Two contexts of fixed buffers and a stream strategy to nest with them; a
\* buffer ring; buffers that are provided, and a ring of an amount it refuses.
MixedPrograms == {
  ThreeManagers(UringioLoop_buffer_mode("FIXED", 2), UringioLoop_buffer_mode("FIXED", 1),
                UringioLoop_stream_strategy("MULTISHOT")),
  ThreeManagers(UringioLoop_buffer_mode("BUF_RING", 1), UringioLoop_transfer_mode("ZERO_COPY"),
                UringioLoop_execution_context("PROVIDED", "ONESHOT", "ZERO_COPY", 1)),
  ThreeManagers(UringioLoop_buffer_mode("PROVIDED", 1), UringioLoop_buffer_mode("BUF_RING", 3),
                UringioLoop_execution_context("NORMAL_BUF", "MULTISHOT", "NORMAL_TRANSFER", 1))}

\* A group of two provided buffers.
ProvidedPrograms == {
  ThreeManagers(UringioLoop_buffer_mode("PROVIDED", 2), UringioLoop_stream_strategy("ONESHOT"),
                UringioLoop_transfer_mode("ZERO_COPY"))}
=============================================================================

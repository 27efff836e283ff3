---------------------------- MODULE MCEventLoop ----------------------------
(***************************************************************************)
(* Instances of EventLoop with two or three handles, one of them another   *)
(* thread's.  A second is two ticks and the longest wait four, so a delay  *)
(* of 1 is below a second, 3 and 5 are no whole seconds, and 5 and 7 are   *)
(* beyond the longest wait.  Handles are strings because a completion is a *)
(* handle or the string "wakeup".                                          *)
(***************************************************************************)
EXTENDS EventLoop
=============================================================================

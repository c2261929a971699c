---------------------------- MODULE MCEventLoop ----------------------------
(* EventLoop with two foreign threads and two functors; MaxPending is 3 so  *)
(* that a batch and new functors of it and of others are around together.   *)
EXTENDS EventLoop
=============================================================================

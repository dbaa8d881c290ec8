----------------------------- MODULE MCEventLoop -----------------------------
(* The event loop with more connections than descriptors, for liveness.     *)
EXTENDS EventLoop
=============================================================================

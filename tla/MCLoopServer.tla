----------------------------- MODULE MCLoopServer -----------------------------
(* The loop and its sessions, with more connections than descriptors.       *)
EXTENDS LoopServer, TLC

\* Connections are interchangeable: the model never orders them.
ConnSymmetry == Permutations(Conns)

=============================================================================

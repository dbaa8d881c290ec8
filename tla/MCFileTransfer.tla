--------------------------- MODULE MCFileTransfer ---------------------------
(* Two sessions on two file names: every collision of two streams on one    *)
(* path, and the move of a session from one path to another.                *)
EXTENDS FileTransfer, TLC

\* The sessions are interchangeable, and so are the names: no action and no
\* invariant singles one out.
StoreSymmetry == Permutations(Clients) \cup Permutations(Names)

=============================================================================

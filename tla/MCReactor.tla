------------------------------ MODULE MCReactor ------------------------------
(* The dispatch with more connections than descriptors.  The run checks a    *)
(* liveness property, so it uses no symmetry.                                *)
EXTENDS ReactorServer

=============================================================================

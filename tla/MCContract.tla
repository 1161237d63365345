----------------------------- MODULE MCContract ------------------------------
(* Small instances of Contract for TLC. *)
EXTENDS Contract, TLC

\* Requests are interchangeable: no action names one of them.
Interchangeable == Permutations(Handlers)
=============================================================================

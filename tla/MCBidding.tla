------------------------------ MODULE MCBidding ------------------------------
(* Small instances of Bidding for TLC. *)
EXTENDS Bidding, TLC

\* Providers and handlers are interchangeable: no action names one of them.
Interchangeable == Permutations(Providers) \cup Permutations(Handlers)
=============================================================================

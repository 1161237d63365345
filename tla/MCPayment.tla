------------------------------ MODULE MCPayment ------------------------------
(* Small instances of Payment for TLC. *)
EXTENDS Payment, TLC

\* Advances of one and of three cents: the first is paid off by one release
\* with something left in the pool, the second is not.
OwedFirstSmall == [a \in Ids |-> IF a = 1 THEN 1 ELSE 3]

\* Advances of three cents: two releases pay one off.
OwedThree == [a \in Ids |-> 3]

\* Requests are interchangeable: no action names one of them.
Interchangeable == Permutations(Handlers)
=============================================================================

------------------------------ MODULE MCSession ------------------------------
(***************************************************************************)
(* TLC instances of Session.                                               *)
(***************************************************************************)
EXTENDS Session

CONSTANT r1

=============================================================================

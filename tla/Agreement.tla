------------------------------ MODULE Agreement ------------------------------
(***************************************************************************)
(* What a contract promises to its two parties, without the service that   *)
(* keeps it: every operation happens at once.  It is proposed, it becomes  *)
(* active with the last acceptance and in the same step, and only then can *)
(* it be completed; only parties that have both agreed can dispute it, and *)
(* a dispute is the end of it.                                             *)
(***************************************************************************)
CONSTANT Parties
VARIABLES status, accepted

vars == <<status, accepted>>

Init == status = "none" /\ accepted = [p \in Parties |-> FALSE]

Agreed == \A p \in Parties : accepted[p]

Propose ==
    /\ status = "none"
    /\ status' = "pending_acceptance"
    /\ UNCHANGED accepted

Accept(p) ==
    /\ status = "pending_acceptance"
    /\ accepted' = [accepted EXCEPT ![p] = TRUE]
    /\ status' = IF \A q \in Parties : accepted'[q] THEN "active" ELSE status

Complete ==
    /\ status = "active" /\ Agreed
    /\ status' = "completed"
    /\ UNCHANGED accepted

Cancel ==
    /\ status \in {"pending_acceptance", "active"}
    /\ status' = "cancelled"
    /\ UNCHANGED accepted

Dispute ==
    /\ status \in {"active", "completed", "cancelled"} /\ Agreed
    /\ status' = "disputed"
    /\ UNCHANGED accepted

Next == Propose \/ (\E p \in Parties : Accept(p)) \/ Complete \/ Cancel \/ Dispute

Spec == Init /\ [][Next]_vars
=============================================================================

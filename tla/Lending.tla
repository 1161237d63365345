------------------------------- MODULE Lending -------------------------------
(***************************************************************************)
(* What the platform promises about the money it advances to a provider,   *)
(* without the service that keeps the books: every operation happens at    *)
(* once.  An approved advance is paid out before it is called disbursed;   *)
(* only one that was disbursed is repaid, a cent withheld from a payment   *)
(* for a cent repaid, and it is closed with the repayment that covers it;  *)
(* a transfer is short by no more than what has been withheld.             *)
(***************************************************************************)
EXTENDS Integers

CONSTANTS Ids, Owed, Payout

VARIABLES advance,                \* the status of each advance
          paidOut,                \* its money has left the platform
          repaid,                 \* what was repaid of it
          withheld,               \* what was withheld from the payment
          transfers, transferred  \* transfers of the payment, and their sum

vars == <<advance, paidOut, repaid, withheld, transfers, transferred>>

Init ==
    /\ advance = [a \in Ids |-> "none"]
    /\ paidOut = [a \in Ids |-> FALSE]
    /\ repaid = [a \in Ids |-> 0]
    /\ withheld = 0 /\ transfers = 0 /\ transferred = 0

Becomes(a, from, to) ==
    /\ advance[a] = from
    /\ advance' = [advance EXCEPT ![a] = to]
    /\ UNCHANGED <<paidOut, repaid, withheld, transfers, transferred>>

PayOut(a) ==
    /\ advance[a] = "approved"
    /\ paidOut' = [paidOut EXCEPT ![a] = TRUE]
    /\ UNCHANGED <<advance, repaid, withheld, transfers, transferred>>

Repay(a) ==
    /\ advance[a] \in {"disbursed", "repaying", "repaid"}
    /\ \E cents \in 1..Owed[a] :
          /\ repaid' = [repaid EXCEPT ![a] = @ + cents]
          /\ withheld' = withheld + cents
    /\ advance' = [advance EXCEPT
                     ![a] = IF repaid'[a] >= Owed[a] THEN "repaid" ELSE "repaying"]
    /\ UNCHANGED <<paidOut, transfers, transferred>>

Transfer ==
    /\ transfers' = transfers + 1
    /\ \E short \in 0..Payout : transferred' = transferred + (Payout - short)
    /\ Payout * transfers' <= transferred' + withheld
    /\ UNCHANGED <<advance, paidOut, repaid, withheld>>

Next ==
    \/ \E a \in Ids :
          \/ Becomes(a, "none", "requested")
          \/ \E to \in {"approved", "rejected"} : Becomes(a, "requested", to)
          \/ PayOut(a)
          \/ paidOut[a] /\ Becomes(a, "approved", "disbursed")
          \/ Repay(a)
    \/ Transfer

Spec == Init /\ [][Next]_vars
=============================================================================

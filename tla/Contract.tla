------------------------------ MODULE Contract -------------------------------
(***************************************************************************)
(* One contract of the job service (services/job/internal): acceptance by  *)
(* both parties, the milestones, completion, cancellation and disputes,    *)
(* and the status of the job the contract belongs to.                      *)
(*                                                                         *)
(* Every call is a gRPC handler over a connection pool.  A statement       *)
(* outside a transaction commits by itself, so a handler that reads, then  *)
(* writes, then updates the job takes three steps.  A read is a step of    *)
(* its own only where the write that follows does not repeat its check.    *)
(* The context of a request may be cancelled between two statements, and a *)
(* failed update of the job is only logged: Abort covers both.             *)
(***************************************************************************)
EXTENDS Integers, FiniteSets

CONSTANTS Handlers,      \* the requests in flight at the same time
          Milestones,    \* number of milestones, sort_order 1..Milestones
          ByMilestone,   \* contracts.payment_timing = 'milestone'
          MaxDisputes,   \* bound: disputes opened on the contract
          MayAbort       \* requests may end between two statements

ASSUME ContractAssumption ==
    /\ Milestones \in Nat \ {0}
    /\ MaxDisputes \in Nat
    /\ ByMilestone \in BOOLEAN /\ MayAbort \in BOOLEAN
    /\ IsFiniteSet(Handlers)

VARIABLES jobStatus,     \* jobs.status
          status,        \* contracts.status, "none" before the INSERT
          accepted,      \* customer_accepted, provider_accepted
          deadlinePassed,\* acceptance_deadline < now()
          milestone,     \* milestones.status by sort_order
          revisions,     \* milestones.revision_count by sort_order
          openDisputes, resolvedDisputes,
          pc,            \* per handler: its next statement
          arg            \* per handler: what that statement is about

jobVars  == <<jobStatus>>
rowVars  == <<status, accepted, deadlinePassed>>
workVars == <<milestone, revisions>>
dispVars == <<openDisputes, resolvedDisputes>>
reqVars  == <<pc, arg>>
vars     == <<jobVars, rowVars, workVars, dispVars, reqVars>>

Parties           == {"customer", "provider"}
Orders            == 1..Milestones
JobStatuses       == {"awarded", "contract_pending", "in_progress", "completed",
                      "reviewed", "suspended", "cancelled"}
ContractStatuses  == {"none", "pending_acceptance", "active", "completed",
                      "cancelled", "disputed"}
MilestoneStatuses == {"pending", "in_progress", "submitted", "approved",
                      "revision_requested"}
Steps             == {"idle", "update_job", "accept_tx", "accept_reread",
                      "approve_tx", "revise_write", "complete_write",
                      "dispute_insert", "dispute_status"}
NoArg             == 0
MaxRevisions      == 3

Init ==
    /\ jobStatus = "awarded"
    /\ status = "none"
    /\ accepted = [p \in Parties |-> FALSE]
    /\ deadlinePassed = FALSE
    /\ milestone = [m \in Orders |-> "pending"]
    /\ revisions = [m \in Orders |-> 0]
    /\ openDisputes = 0 /\ resolvedDisputes = 0
    /\ pc = [h \in Handlers |-> "idle"]
    /\ arg = [h \in Handlers |-> NoArg]

-----------------------------------------------------------------------------
Goto(h, step, a) ==
    /\ pc' = [pc EXCEPT ![h] = step]
    /\ arg' = [arg EXCEPT ![h] = a]

Finish(h) == Goto(h, "idle", NoArg)

Idle(h) == pc[h] = "idle"

\* UpdateJobStatus: no condition on the status it overwrites.
UpdateJob(h) ==
    /\ pc[h] = "update_job"
    /\ jobStatus' = arg[h]
    /\ Finish(h)
    /\ UNCHANGED <<rowVars, workVars, dispVars>>

-----------------------------------------------------------------------------
(* CreateContractFromAward *)

CreateContract(h) ==
    /\ Idle(h)
    /\ status = "none"
    /\ status' = "pending_acceptance"
    /\ Goto(h, "update_job", "contract_pending")
    /\ UNCHANGED <<jobVars, accepted, deadlinePassed, workVars, dispVars>>

-----------------------------------------------------------------------------
(* AcceptContract *)

AcceptRead(h, p) ==
    /\ Idle(h)
    /\ status # "none"
    /\ ~accepted[p]
    /\ ~deadlinePassed
    /\ Goto(h, "accept_tx", p)
    /\ UNCHANGED <<jobVars, rowVars, workVars, dispVars>>

\* The flags the transaction reads after it has set its own.
BothAccepted(flags) == \A p \in Parties : flags[p]

\* Mutant: the flags are read before the UPDATE that sets one of them.
AcceptTxReadsFirst(h) ==
    /\ pc[h] = "accept_tx"
    /\ status = "pending_acceptance"
    /\ accepted' = [accepted EXCEPT ![arg[h]] = TRUE]
    /\ status' = IF BothAccepted(accepted) THEN "active" ELSE status
    /\ Goto(h, "accept_reread", NoArg)
    /\ UNCHANGED <<jobVars, deadlinePassed, workVars, dispVars>>

AcceptTx(h) ==
    /\ pc[h] = "accept_tx"
    /\ status = "pending_acceptance"
    /\ accepted' = [accepted EXCEPT ![arg[h]] = TRUE]
    /\ status' = IF BothAccepted(accepted') THEN "active" ELSE status
    /\ Goto(h, "accept_reread", NoArg)
    /\ UNCHANGED <<jobVars, deadlinePassed, workVars, dispVars>>

\* No row is pending any more: rolled back with ErrContractNotFound.
AcceptRefused(h) ==
    /\ pc[h] = "accept_tx"
    /\ status # "pending_acceptance"
    /\ Finish(h)
    /\ UNCHANGED <<jobVars, rowVars, workVars, dispVars>>

\* The contract is fetched again after the commit; its status decides.
AcceptReread(h) ==
    /\ pc[h] = "accept_reread"
    /\ IF status = "active" THEN Goto(h, "update_job", "in_progress")
                            ELSE Finish(h)
    /\ UNCHANGED <<jobVars, rowVars, workVars, dispVars>>

-----------------------------------------------------------------------------
(* Milestones.  None of these looks at the status of the contract, except   *)
(* StartWork.                                                               *)

\* Mutant: the last pending milestone is started.
NextPendingLast(after) ==
    {m \in Orders : m > after /\ milestone[m] = "pending"
                     /\ \A n \in Orders : n > m => milestone[n] # "pending"}

\* WHERE status = 'pending' AND sort_order > after ORDER BY sort_order LIMIT 1
NextPending(after) ==
    {m \in Orders : m > after /\ milestone[m] = "pending"
                     /\ \A n \in Orders : n > after /\ n < m => milestone[n] # "pending"}

\* Mutant: work starts whatever the contract's status.
StartWorkAnytime(h) ==
    /\ Idle(h)
    /\ status # "none"
    /\ milestone' = [m \in Orders |-> IF m \in NextPending(0) THEN "in_progress"
                                      ELSE milestone[m]]
    /\ UNCHANGED <<jobVars, rowVars, revisions, dispVars, reqVars>>

\* May be called again: each call starts one more milestone.
StartWork(h) ==
    /\ Idle(h)
    /\ status = "active"
    /\ milestone' = [m \in Orders |-> IF m \in NextPending(0) THEN "in_progress"
                                      ELSE milestone[m]]
    /\ UNCHANGED <<jobVars, rowVars, revisions, dispVars, reqVars>>

SubmitMilestone(h, m) ==
    /\ Idle(h)
    /\ status # "none"
    /\ milestone[m] \in {"in_progress", "revision_requested"}
    /\ milestone' = [milestone EXCEPT ![m] = "submitted"]
    /\ UNCHANGED <<jobVars, rowVars, revisions, dispVars, reqVars>>

\* The SELECT of ApproveMilestone takes no lock.
ApproveRead(h, m) ==
    /\ Idle(h)
    /\ milestone[m] = "submitted"
    /\ Goto(h, "approve_tx", m)
    /\ UNCHANGED <<jobVars, rowVars, workVars, dispVars>>

ApproveTx(h) ==
    /\ pc[h] = "approve_tx"
    /\ milestone' = [m \in Orders |->
                        IF m = arg[h] THEN "approved"
                        ELSE IF m \in NextPending(arg[h]) THEN "in_progress"
                        ELSE milestone[m]]
    /\ Finish(h)
    /\ UNCHANGED <<jobVars, rowVars, revisions, dispVars>>

\* Mutant: the limit is not checked.
MayReviseAlways(m) == milestone[m] = "submitted"

MayRevise(m) == milestone[m] = "submitted" /\ revisions[m] < MaxRevisions

ReviseRead(h, m) ==
    /\ Idle(h)
    /\ MayRevise(m)
    /\ Goto(h, "revise_write", m)
    /\ UNCHANGED <<jobVars, rowVars, workVars, dispVars>>

ReviseWrite(h) ==
    /\ pc[h] = "revise_write"
    /\ milestone' = [milestone EXCEPT ![arg[h]] = "in_progress"]
    /\ revisions' = [revisions EXCEPT ![arg[h]] = @ + 1]
    /\ Finish(h)
    /\ UNCHANGED <<jobVars, rowVars, dispVars>>

-----------------------------------------------------------------------------
(* MarkComplete by the provider, ApproveCompletion by the customer *)

AllApproved == \A m \in Orders : milestone[m] = "approved"

CompleteRead(h) ==
    /\ Idle(h)
    /\ status = "active"
    /\ ByMilestone => AllApproved
    /\ Goto(h, "complete_write", NoArg)
    /\ UNCHANGED <<jobVars, rowVars, workVars, dispVars>>

\* Mutant: UPDATE contracts ... WHERE id alone.
CompleteWriteAny(h) ==
    /\ pc[h] = "complete_write"
    /\ status' = "completed"
    /\ Goto(h, "update_job", "completed")
    /\ UNCHANGED <<jobVars, accepted, deadlinePassed, workVars, dispVars>>

CompleteWrite(h) ==
    /\ pc[h] = "complete_write"
    /\ status = "active"
    /\ status' = "completed"
    /\ Goto(h, "update_job", "completed")
    /\ UNCHANGED <<jobVars, accepted, deadlinePassed, workVars, dispVars>>

CompleteRefused(h) ==
    /\ pc[h] = "complete_write"
    /\ status # "active"
    /\ Finish(h)
    /\ UNCHANGED <<jobVars, rowVars, workVars, dispVars>>

ApproveCompletion(h) ==
    /\ Idle(h)
    /\ status = "active"
    /\ status' = "completed"
    /\ Goto(h, "update_job", "completed")
    /\ UNCHANGED <<jobVars, accepted, deadlinePassed, workVars, dispVars>>

-----------------------------------------------------------------------------
CancelContract(h) ==
    /\ Idle(h)
    /\ status \in {"pending_acceptance", "active"}
    /\ status' = "cancelled"
    /\ Goto(h, "update_job", "awarded")
    /\ UNCHANGED <<jobVars, accepted, deadlinePassed, workVars, dispVars>>

-----------------------------------------------------------------------------
(* OpenDispute: check, insert the dispute, then mark the contract *)

DisputeRead(h) ==
    /\ Idle(h)
    /\ status \in {"active", "completed"}
    /\ openDisputes + resolvedDisputes < MaxDisputes
    /\ Goto(h, "dispute_insert", NoArg)
    /\ UNCHANGED <<jobVars, rowVars, workVars, dispVars>>

DisputeInsert(h) ==
    /\ pc[h] = "dispute_insert"
    /\ openDisputes' = openDisputes + 1
    /\ Goto(h, "dispute_status", NoArg)
    /\ UNCHANGED <<jobVars, rowVars, workVars, resolvedDisputes>>

\* UpdateContractStatus writes whatever the contract has become meanwhile.
DisputedStatus == "disputed"

DisputeMark(h) ==
    /\ pc[h] = "dispute_status"
    /\ status' = DisputedStatus
    /\ Finish(h)
    /\ UNCHANGED <<jobVars, accepted, deadlinePassed, workVars, dispVars>>

\* The contract is not touched: it stays disputed.
AdminResolveDispute(h) ==
    /\ Idle(h)
    /\ openDisputes > 0
    /\ openDisputes' = openDisputes - 1
    /\ resolvedDisputes' = resolvedDisputes + 1
    /\ UNCHANGED <<jobVars, rowVars, workVars, reqVars>>

-----------------------------------------------------------------------------
(* Other writers of the job's row, one guarded UPDATE each *)

SetJobStatus(s) ==
    /\ jobStatus' = s
    /\ UNCHANGED <<rowVars, workVars, dispVars, reqVars>>

MarkReviewed    == jobStatus = "completed" /\ SetJobStatus("reviewed")
AdminSuspendJob == jobStatus \notin {"suspended", "cancelled"}
                   /\ SetJobStatus("suspended")
AdminRemoveJob  == jobStatus # "cancelled" /\ SetJobStatus("cancelled")

DeadlinePasses ==
    /\ status # "none" /\ ~deadlinePassed
    /\ deadlinePassed' = TRUE
    /\ UNCHANGED <<jobVars, status, accepted, workVars, dispVars, reqVars>>

Abort(h) ==
    /\ MayAbort
    /\ ~Idle(h)
    /\ Finish(h)
    /\ UNCHANGED <<jobVars, rowVars, workVars, dispVars>>

Request(h) ==
    \/ CreateContract(h)
    \/ \E p \in Parties : AcceptRead(h, p)
    \/ StartWork(h)
    \/ \E m \in Orders : SubmitMilestone(h, m) \/ ApproveRead(h, m) \/ ReviseRead(h, m)
    \/ CompleteRead(h) \/ ApproveCompletion(h) \/ CancelContract(h)
    \/ DisputeRead(h) \/ AdminResolveDispute(h)

HandlerStep(h) ==
    \/ UpdateJob(h)
    \/ AcceptTx(h) \/ AcceptRefused(h) \/ AcceptReread(h)
    \/ ApproveTx(h) \/ ReviseWrite(h)
    \/ CompleteWrite(h) \/ CompleteRefused(h)
    \/ DisputeInsert(h) \/ DisputeMark(h)

Next ==
    \/ \E h \in Handlers : Request(h) \/ HandlerStep(h) \/ Abort(h)
    \/ MarkReviewed \/ AdminSuspendJob \/ AdminRemoveJob
    \/ DeadlinePasses

Spec == Init /\ [][Next]_vars

-----------------------------------------------------------------------------
ArgOK(h) ==
    /\ pc[h] = "update_job" => arg[h] \in JobStatuses
    /\ pc[h] = "accept_tx" => arg[h] \in Parties
    /\ pc[h] \in {"approve_tx", "revise_write"} => arg[h] \in Orders

TypeOK ==
    /\ jobStatus \in JobStatuses
    /\ status \in ContractStatuses
    /\ accepted \in [Parties -> BOOLEAN]
    /\ deadlinePassed \in BOOLEAN
    /\ milestone \in [Orders -> MilestoneStatuses]
    /\ revisions \in [Orders -> Nat]
    /\ openDisputes \in Nat /\ resolvedDisputes \in Nat
    /\ pc \in [Handlers -> Steps]
    /\ DOMAIN arg = Handlers
    /\ \A h \in Handlers : ArgOK(h)

(* AcceptContract: the party that accepts second always activates the       *)
(* contract, even when both accept at the same moment and neither read saw  *)
(* the other.  No contract waits for parties that have both agreed.         *)
NoStuckAcceptance == status = "pending_acceptance" => ~BothAccepted(accepted)

(* Nothing happens under a contract one party never accepted: it is not     *)
(* active, completed or disputed and none of its milestones has started,    *)
(* however old the reads of the handlers are.                               *)
NothingBeforeBothAccept ==
    \/ status \in {"active", "completed", "disputed"}
    \/ \E m \in Orders : milestone[m] # "pending"
    => BothAccepted(accepted)

(* Milestones start in their order, although StartWork and ApproveMilestone *)
(* both start one and may be called again and over each other.              *)
StartedInOrder ==
    \A m, n \in Orders : m < n /\ milestone[m] = "pending" => milestone[n] = "pending"

(* The limit of three revisions is checked on a value that may be stale:    *)
(* it is overrun by at most one revision per other request in flight.       *)
RevisionOverrun ==
    \A m \in Orders : revisions[m] <= MaxRevisions + Cardinality(Handlers) - 1

Promise == INSTANCE Agreement WITH status <- status, accepted <- accepted, Parties <- Parties

(* The service implements the agreement of its two parties.  Its handlers   *)
(* read, decide and write in separate statements, yet what is committed is  *)
(* always one operation of the agreement: an acceptance activates the       *)
(* contract with the last consent, a contract that is over is never active  *)
(* again, and no completion or cancellation in flight thaws a disputed one. *)
ImplementsAgreement == Promise!Spec

=============================================================================

--------------------------- MODULE ContractProofs ----------------------------
(***************************************************************************)
(* What Contract guarantees for any number of requests in flight and any   *)
(* number of milestones.                                                   *)
(***************************************************************************)
EXTENDS Contract, FiniteSetTheorems, TLAPS

(* A milestone that a handler is about to approve or to send back has been  *)
(* started; a dispute is only on its way if both parties have accepted.     *)
Remembered(h) ==
    /\ pc[h] \in {"approve_tx", "revise_write"} => milestone[arg[h]] # "pending"
    /\ pc[h] \in {"complete_write", "dispute_insert", "dispute_status"}
          => BothAccepted(accepted)

InFlight == \A h \in Handlers : Remembered(h)

(* A contract that does not exist yet has not been accepted.                *)
Fresh == status = "none" => ~BothAccepted(accepted)

IInv == /\ TypeOK /\ InFlight /\ Fresh
        /\ NoStuckAcceptance /\ NothingBeforeBothAccept /\ StartedInOrder

(* The initial state satisfies the inductive invariant.                     *)
LEMMA InitIInv == Init => IInv
<1> SUFFICES ASSUME Init PROVE IInv
  OBVIOUS
<1>1. TypeOK
  BY ContractAssumption
  DEF Init, TypeOK, ArgOK, JobStatuses, ContractStatuses, MilestoneStatuses,
      Steps
<1>2. InFlight /\ Fresh
  BY DEF Init, InFlight, Remembered, Fresh, BothAccepted, Parties
<1>3. NoStuckAcceptance /\ NothingBeforeBothAccept /\ StartedInOrder
  BY DEF Init, NoStuckAcceptance, NothingBeforeBothAccept, StartedInOrder
<1>4. QED
  BY <1>1, <1>2, <1>3 DEF IInv

(* Every statement writes values of its columns' types.                     *)
LEMMA TypeStep == TypeOK /\ [Next]_vars => TypeOK'
<1> SUFFICES ASSUME TypeOK, [Next]_vars PROVE TypeOK'
  OBVIOUS
<1> USE ContractAssumption
    DEF TypeOK, ArgOK, vars, jobVars, rowVars, workVars, dispVars, reqVars,
        Finish, Goto, Idle, Steps, JobStatuses, ContractStatuses,
        MilestoneStatuses
<1>1. ASSUME NEW h \in Handlers, Request(h) PROVE TypeOK'
  <2>1. CASE CreateContract(h) \/ \E p \in Parties : AcceptRead(h, p)
    BY <2>1 DEF CreateContract, AcceptRead
  <2>2. CASE StartWork(h)
    BY <2>2 DEF StartWork
  <2>3. ASSUME NEW m \in Orders,
               SubmitMilestone(h, m) \/ ApproveRead(h, m) \/ ReviseRead(h, m)
        PROVE TypeOK'
    BY <2>3 DEF SubmitMilestone, ApproveRead, ReviseRead
  <2>4. CASE CompleteRead(h) \/ ApproveCompletion(h) \/ CancelContract(h)
    BY <2>4 DEF CompleteRead, ApproveCompletion, CancelContract
  <2>5. CASE DisputeRead(h) \/ AdminResolveDispute(h)
    BY <2>5 DEF DisputeRead, AdminResolveDispute
  <2>6. QED
    BY <1>1, <2>1, <2>2, <2>3, <2>4, <2>5 DEF Request
<1>2. ASSUME NEW h \in Handlers, HandlerStep(h) PROVE TypeOK'
  <2>1. CASE UpdateJob(h)
    BY <2>1 DEF UpdateJob
  <2>2. CASE AcceptTx(h)
    <3>1. accepted' \in [Parties -> BOOLEAN]
      BY <2>2 DEF AcceptTx
    <3>2. status' \in ContractStatuses
      BY <2>2 DEF AcceptTx
    <3>3. QED
      BY <2>2, <3>1, <3>2 DEF AcceptTx
  <2>8. CASE AcceptRefused(h) \/ AcceptReread(h)
    BY <2>8 DEF AcceptRefused, AcceptReread
  <2>3. CASE ApproveTx(h)
    BY <2>3 DEF ApproveTx
  <2>4. CASE ReviseWrite(h)
    BY <2>4 DEF ReviseWrite
  <2>5. CASE CompleteWrite(h) \/ CompleteRefused(h)
    BY <2>5 DEF CompleteWrite, CompleteRefused
  <2>6. CASE DisputeInsert(h) \/ DisputeMark(h)
    BY <2>6 DEF DisputeInsert, DisputeMark, DisputedStatus
  <2>7. QED
    BY <1>2, <2>1, <2>2, <2>3, <2>4, <2>5, <2>6, <2>8 DEF HandlerStep
<1>3. ASSUME NEW h \in Handlers, Abort(h) PROVE TypeOK'
  BY <1>3 DEF Abort
<1>4. CASE \/ MarkReviewed \/ AdminSuspendJob \/ AdminRemoveJob
           \/ DeadlinePasses \/ UNCHANGED vars
  BY <1>4 DEF MarkReviewed, AdminSuspendJob, AdminRemoveJob, SetJobStatus,
              DeadlinePasses
<1>5. QED
  BY <1>1, <1>2, <1>3, <1>4 DEF Next

(* Acceptance: the flags only grow, and the transaction that sets the       *)
(* second one activates the contract.                                       *)
LEMMA AcceptanceStep ==
    IInv /\ [Next]_vars
      => /\ NoStuckAcceptance'
         /\ NothingBeforeBothAccept' /\ Fresh'
         /\ BothAccepted(accepted) => BothAccepted(accepted)'
<1> SUFFICES ASSUME IInv, [Next]_vars
             PROVE  /\ NoStuckAcceptance'
                    /\ NothingBeforeBothAccept' /\ Fresh'
                    /\ BothAccepted(accepted) => BothAccepted(accepted)'
  OBVIOUS
<1> USE DEF vars, jobVars, rowVars, workVars, dispVars, reqVars
<1>1. ASSUME NEW h \in Handlers, AcceptTx(h)
      PROVE  /\ status = "pending_acceptance"
             /\ BothAccepted(accepted)' => status' = "active"
             /\ ~BothAccepted(accepted)' => status' = "pending_acceptance"
             /\ UNCHANGED milestone
             /\ \A p \in Parties : accepted[p] => accepted'[p]
  BY <1>1 DEF AcceptTx, IInv, TypeOK, ArgOK, BothAccepted
<1>2. ASSUME NEW h \in Handlers, AcceptTx(h)
      PROVE  /\ NoStuckAcceptance'
             /\ NothingBeforeBothAccept' /\ Fresh'
             /\ BothAccepted(accepted) => BothAccepted(accepted)'
  BY <1>1, <1>2
  DEF IInv, NoStuckAcceptance, NothingBeforeBothAccept, Fresh, BothAccepted
<1>3. ASSUME ~\E h \in Handlers : AcceptTx(h)
      PROVE  UNCHANGED accepted
  BY <1>3
  DEF Next, Request, HandlerStep, Abort, CreateContract, AcceptRead,
      StartWork, SubmitMilestone, ApproveRead, ReviseRead, CompleteRead,
      ApproveCompletion, CancelContract, DisputeRead, AdminResolveDispute,
      UpdateJob, AcceptRefused, AcceptReread, ApproveTx, ReviseWrite,
      CompleteWrite, CompleteRefused, DisputeInsert, DisputeMark, MarkReviewed,
      AdminSuspendJob, AdminRemoveJob, SetJobStatus, DeadlinePasses
<1>4. ASSUME ~\E h \in Handlers : AcceptTx(h)
      PROVE  NoStuckAcceptance' /\ NothingBeforeBothAccept' /\ Fresh'
  <2>1. BothAccepted(accepted)' <=> BothAccepted(accepted)
    BY <1>3, <1>4 DEF BothAccepted
  <2>2. ~BothAccepted(accepted) =>
           /\ status' \in {"none", "pending_acceptance", "cancelled"}
           /\ \A m \in Orders : milestone'[m] = "pending"
    <3> SUFFICES ASSUME ~BothAccepted(accepted)
                 PROVE  /\ status' \in {"none", "pending_acceptance", "cancelled"}
                        /\ \A m \in Orders : milestone'[m] = "pending"
      OBVIOUS
    <3>1. /\ status \in {"none", "pending_acceptance", "cancelled"}
          /\ \A m \in Orders : milestone[m] = "pending"
          /\ \A g \in Handlers :
                pc[g] \notin {"approve_tx", "revise_write", "complete_write",
                              "dispute_insert", "dispute_status"}
      BY DEF IInv, TypeOK, ArgOK, ContractStatuses, NothingBeforeBothAccept,
             InFlight, Remembered
    <3>2. QED
      BY <1>4, <3>1
      DEF Next, Request, HandlerStep, Abort, CreateContract, AcceptRead,
          StartWork, SubmitMilestone, ApproveRead, ReviseRead, CompleteRead,
          ApproveCompletion, CancelContract, DisputeRead, AdminResolveDispute,
          UpdateJob, AcceptRefused, AcceptReread, ApproveTx, ReviseWrite,
          CompleteWrite, CompleteRefused, DisputeInsert, DisputeMark,
          MarkReviewed, AdminSuspendJob, AdminRemoveJob, SetJobStatus,
          DeadlinePasses
  <2>3. BothAccepted(accepted) => status' \notin {"none", "pending_acceptance"}
    BY <1>4
    DEF IInv, NoStuckAcceptance, NothingBeforeBothAccept, Fresh,
        Next, Request, HandlerStep, Abort, CreateContract, AcceptRead,
        StartWork, SubmitMilestone, ApproveRead, ReviseRead, CompleteRead,
        ApproveCompletion, CancelContract, DisputeRead, AdminResolveDispute,
        UpdateJob, AcceptRefused, AcceptReread, ApproveTx, ReviseWrite,
        CompleteWrite, CompleteRefused, DisputeInsert, DisputeMark,
        DisputedStatus, MarkReviewed, AdminSuspendJob, AdminRemoveJob,
        SetJobStatus, DeadlinePasses
  <2>4. QED
    BY <2>1, <2>2, <2>3 DEF NoStuckAcceptance, NothingBeforeBothAccept, Fresh
<1>5. QED
  BY <1>2, <1>3, <1>4 DEF BothAccepted

(* Milestones: a started one never becomes pending again, and the one       *)
(* StartWork or ApproveMilestone starts is the first that is pending.       *)
LEMMA MilestoneStep ==
    IInv /\ [Next]_vars
      => /\ StartedInOrder'
         /\ \A m \in Orders : milestone'[m] = "pending" => milestone[m] = "pending"
<1> SUFFICES ASSUME IInv, [Next]_vars
             PROVE  /\ StartedInOrder'
                    /\ \A m \in Orders : milestone'[m] = "pending"
                                            => milestone[m] = "pending"
  OBVIOUS
<1> USE ContractAssumption
    DEF vars, jobVars, rowVars, workVars, dispVars, reqVars, IInv, TypeOK,
        StartedInOrder, Orders
<1>1. ASSUME NEW h \in Handlers, StartWork(h)
      PROVE  /\ StartedInOrder'
             /\ \A m \in Orders : milestone'[m] = "pending" => milestone[m] = "pending"
  BY <1>1 DEF StartWork, NextPending
<1>2. ASSUME NEW h \in Handlers, ApproveTx(h)
      PROVE  /\ StartedInOrder'
             /\ \A m \in Orders : milestone'[m] = "pending" => milestone[m] = "pending"
  <2>1. arg[h] \in Orders /\ milestone[arg[h]] # "pending"
    BY <1>2 DEF ApproveTx, ArgOK, InFlight, Remembered
  <2>2. QED
    BY <1>2, <2>1 DEF ApproveTx, NextPending
<1>3. ASSUME NEW h \in Handlers, NEW m \in Orders, SubmitMilestone(h, m)
      PROVE  /\ StartedInOrder'
             /\ \A n \in Orders : milestone'[n] = "pending" => milestone[n] = "pending"
  BY <1>3 DEF SubmitMilestone
<1>4. ASSUME NEW h \in Handlers, ReviseWrite(h)
      PROVE  /\ StartedInOrder'
             /\ \A m \in Orders : milestone'[m] = "pending" => milestone[m] = "pending"
  BY <1>4 DEF ReviseWrite, ArgOK, InFlight, Remembered
<1>5. ASSUME ~\E h \in Handlers : \/ StartWork(h) \/ ApproveTx(h)
                                  \/ ReviseWrite(h)
                                  \/ \E m \in Orders : SubmitMilestone(h, m)
      PROVE  UNCHANGED milestone
  BY <1>5
  DEF Next, Request, HandlerStep, Abort, CreateContract, AcceptRead,
      ApproveRead, ReviseRead, CompleteRead, ApproveCompletion,
      CancelContract, DisputeRead, AdminResolveDispute, UpdateJob, AcceptTx,
      AcceptRefused, AcceptReread, CompleteWrite, CompleteRefused,
      DisputeInsert, DisputeMark, MarkReviewed, AdminSuspendJob,
      AdminRemoveJob, SetJobStatus, DeadlinePasses
<1>6. QED
  BY <1>1, <1>2, <1>3, <1>4, <1>5

(* What a handler remembers stays true, since flags and milestones only     *)
(* move forward.                                                            *)
LEMMA InFlightStep ==
    ASSUME IInv, [Next]_vars,
           BothAccepted(accepted) => BothAccepted(accepted)',
           \A m \in Orders : milestone'[m] = "pending" => milestone[m] = "pending"
    PROVE  InFlight'
<1> SUFFICES ASSUME NEW g \in Handlers PROVE Remembered(g)'
  BY DEF InFlight
<1> USE DEF vars, jobVars, rowVars, workVars, dispVars, reqVars
<1>1. CASE UNCHANGED <<pc[g], arg[g]>>
  BY <1>1 DEF IInv, TypeOK, ArgOK, InFlight, Remembered, BothAccepted
<1>2. CASE pc'[g] \in {"approve_tx", "revise_write"} /\ arg'[g] \in Orders
           /\ milestone[arg'[g]] # "pending"
  BY <1>2 DEF Remembered
<1>3. CASE pc'[g] \in {"complete_write", "dispute_insert", "dispute_status"}
           /\ BothAccepted(accepted)
  BY <1>3 DEF Remembered
<1>4. CASE pc'[g] \notin {"approve_tx", "revise_write", "complete_write",
                          "dispute_insert", "dispute_status"}
  BY <1>4 DEF Remembered
<1>5. ASSUME NEW h \in Handlers, Request(h) PROVE Remembered(g)'
  <2> USE DEF IInv, TypeOK, Idle, Finish, Goto
  <2>1. CASE \/ CreateContract(h) \/ ApproveCompletion(h) \/ CancelContract(h)
             \/ StartWork(h) \/ AdminResolveDispute(h)
             \/ \E p \in Parties : AcceptRead(h, p)
             \/ \E m \in Orders : SubmitMilestone(h, m)
    BY <2>1, <1>1, <1>4
    DEF CreateContract, ApproveCompletion, CancelContract, StartWork,
        AdminResolveDispute, AcceptRead, SubmitMilestone
  <2>2. ASSUME NEW m \in Orders, ApproveRead(h, m) \/ ReviseRead(h, m)
        PROVE  Remembered(g)'
    BY <2>2, <1>1, <1>2 DEF ApproveRead, ReviseRead, MayRevise
  <2>3. CASE CompleteRead(h) \/ DisputeRead(h)
    BY <2>3, <1>1, <1>3 DEF CompleteRead, DisputeRead, NothingBeforeBothAccept
  <2>4. QED
    BY <1>5, <2>1, <2>2, <2>3 DEF Request
<1>6. ASSUME NEW h \in Handlers, HandlerStep(h) \/ Abort(h) PROVE Remembered(g)'
  <2> USE DEF IInv, TypeOK, Finish, Goto
  <2>1. CASE DisputeInsert(h)
    BY <2>1, <1>1, <1>3 DEF DisputeInsert, InFlight, Remembered
  <2>2. CASE ~DisputeInsert(h)
    BY <1>6, <2>2, <1>1, <1>4
    DEF HandlerStep, Abort, UpdateJob, AcceptTx, AcceptRefused, AcceptReread,
        ApproveTx, ReviseWrite, CompleteWrite, CompleteRefused, DisputeMark
  <2>3. QED
    BY <2>1, <2>2
<1>7. CASE \/ MarkReviewed \/ AdminSuspendJob \/ AdminRemoveJob
           \/ DeadlinePasses \/ UNCHANGED vars
  BY <1>7, <1>1
  DEF MarkReviewed, AdminSuspendJob, AdminRemoveJob, SetJobStatus, DeadlinePasses
<1>8. QED
  BY <1>5, <1>6, <1>7 DEF Next

-----------------------------------------------------------------------------
(* Every reachable state of a contract satisfies the inductive invariant.   *)
THEOREM Invariance == Spec => []IInv
<1>1. IInv /\ [Next]_vars => IInv'
  <2> SUFFICES ASSUME IInv, [Next]_vars PROVE IInv'
    OBVIOUS
  <2>1. TypeOK'
    BY TypeStep DEF IInv
  <2>2. InFlight'
    BY AcceptanceStep, MilestoneStep, InFlightStep
  <2>3. QED
    BY <2>1, <2>2, AcceptanceStep, MilestoneStep DEF IInv
<1>2. QED
  BY InitIInv, <1>1, PTL DEF Spec

(* Columns and the arguments of statements in flight keep their types.      *)
THEOREM TypeCorrect == Spec => []TypeOK
<1>1. IInv => TypeOK
  BY DEF IInv
<1>2. QED
  BY <1>1, Invariance, PTL

(* However the two calls of AcceptContract interleave, the second one       *)
(* activates the contract.                                                  *)
THEOREM AcceptanceActivates == Spec => []NoStuckAcceptance
<1>1. IInv => NoStuckAcceptance
  BY DEF IInv
<1>2. QED
  BY <1>1, Invariance, PTL

(* No work, completion or dispute under a contract that was not accepted    *)
(* by both parties.                                                         *)
THEOREM ConsentFirst == Spec => []NothingBeforeBothAccept
<1>1. IInv => NothingBeforeBothAccept
  BY DEF IInv
<1>2. QED
  BY <1>1, Invariance, PTL

(* Milestones are started in the order of the contract, for any number of   *)
(* them and of concurrent approvals.                                        *)
THEOREM MilestonesInOrder == Spec => []StartedInOrder
<1>1. IInv => StartedInOrder
  BY DEF IInv
<1>2. QED
  BY <1>1, Invariance, PTL

-----------------------------------------------------------------------------
(* The limit of revisions.  A request that has read a count below the limit *)
(* holds one more revision in hand: what counts against the limit is what   *)
(* is written and what is in hand.                                          *)
Revisers(m) == {h \in Handlers : pc[h] = "revise_write" /\ arg[h] = m}

InHand ==
    \A m \in Orders :
        revisions[m] + Cardinality(Revisers(m))
            <= MaxRevisions + Cardinality(Handlers) - 1

(* The requests in flight are finitely many, those about to revise among    *)
(* them.                                                                    *)
LEMMA RevisersFinite ==
    ASSUME NEW m
    PROVE  /\ IsFiniteSet(Revisers(m))
           /\ Cardinality(Revisers(m)) \in Nat
           /\ Cardinality(Revisers(m)) <= Cardinality(Handlers)
           /\ Cardinality(Handlers) \in Nat
<1>1. IsFiniteSet(Handlers)
  BY ContractAssumption
<1>2. Revisers(m) \subseteq Handlers
  BY DEF Revisers
<1>3. QED
  BY <1>1, <1>2, FS_Subset, FS_CardinalityType

(* A step that neither writes a revision nor reads for one leaves the       *)
(* counts, and no request about to revise is new.                           *)
LEMMA OthersLetGo ==
    ASSUME TypeOK, [Next]_vars,
           ~\E h \in Handlers : ReviseWrite(h),
           ~\E h \in Handlers, m \in Orders : ReviseRead(h, m)
    PROVE  /\ UNCHANGED revisions
           /\ \A m \in Orders : Revisers(m)' \subseteq Revisers(m)
<1> USE DEF vars, jobVars, rowVars, workVars, dispVars, reqVars,
            Finish, Goto, Idle, TypeOK, NoArg
<1>1. ASSUME NEW h \in Handlers, Request(h)
      PROVE  /\ UNCHANGED revisions
             /\ \A g \in Handlers :
                   pc'[g] = "revise_write" => pc[g] = "revise_write" /\ arg'[g] = arg[g]
  BY <1>1
  DEF Request, CreateContract, AcceptRead, StartWork, SubmitMilestone,
      ApproveRead, CompleteRead, ApproveCompletion, CancelContract,
      DisputeRead, AdminResolveDispute
<1>2. ASSUME NEW h \in Handlers, HandlerStep(h) \/ Abort(h)
      PROVE  /\ UNCHANGED revisions
             /\ \A g \in Handlers :
                   pc'[g] = "revise_write" => pc[g] = "revise_write" /\ arg'[g] = arg[g]
  BY <1>2
  DEF HandlerStep, Abort, UpdateJob, AcceptTx, AcceptRefused, AcceptReread,
      ApproveTx, CompleteWrite, CompleteRefused, DisputeInsert, DisputeMark
<1>3. CASE \/ MarkReviewed \/ AdminSuspendJob \/ AdminRemoveJob
           \/ DeadlinePasses \/ UNCHANGED vars
  BY <1>3 DEF MarkReviewed, AdminSuspendJob, AdminRemoveJob, SetJobStatus,
              DeadlinePasses, Revisers
<1>4. QED
  BY <1>1, <1>2, <1>3 DEF Next, Revisers

(* A revision that is written leaves the hand; one that is read for was     *)
(* still below the limit; every other request only lets go of what it held. *)
LEMMA InHandStep == TypeOK /\ InHand /\ [Next]_vars => InHand'
<1> SUFFICES ASSUME TypeOK, InHand, [Next]_vars, NEW m \in Orders
             PROVE  (revisions[m] + Cardinality(Revisers(m))
                        <= MaxRevisions + Cardinality(Handlers) - 1)'
  BY DEF InHand
<1>0. /\ revisions[m] \in Nat
      /\ revisions[m] + Cardinality(Revisers(m))
            <= MaxRevisions + Cardinality(Handlers) - 1
  BY DEF TypeOK, InHand
<1>t. TypeOK'
  BY TypeStep
<1>c. /\ IsFiniteSet(Revisers(m))
      /\ Cardinality(Revisers(m)) \in Nat
      /\ Cardinality(Handlers) \in Nat
  BY RevisersFinite
<1>d. /\ IsFiniteSet(Revisers(m)')
      /\ Cardinality(Revisers(m)') \in Nat
      /\ Cardinality(Revisers(m)') <= Cardinality(Handlers)
  <2>1. IsFiniteSet(Handlers) /\ Revisers(m)' \subseteq Handlers
    BY ContractAssumption DEF Revisers
  <2>2. QED
    BY <2>1, FS_Subset, FS_CardinalityType
<1>1. ASSUME NEW h \in Handlers, ReviseWrite(h)
      PROVE  (revisions[m] + Cardinality(Revisers(m))
                        <= MaxRevisions + Cardinality(Handlers) - 1)'
  <2>1. \A g \in Handlers : g # h => pc'[g] = pc[g] /\ arg'[g] = arg[g]
    BY <1>1 DEF ReviseWrite, Finish, Goto, TypeOK
  <2>2. pc[h] = "revise_write" /\ pc'[h] = "idle"
    BY <1>1 DEF ReviseWrite, Finish, Goto, TypeOK
  <2>3. Revisers(m)' = Revisers(m) \ {h}
    BY <2>1, <2>2 DEF Revisers
  <2>4. CASE arg[h] = m
    <3>1. h \in Revisers(m)
      BY <2>2, <2>4 DEF Revisers
    <3>2. Cardinality(Revisers(m)') = Cardinality(Revisers(m)) - 1
      BY <1>c, <2>3, <3>1, FS_RemoveElement
    <3>3. revisions'[m] = revisions[m] + 1
      BY <1>1, <2>4 DEF ReviseWrite, TypeOK
    <3>4. QED
      BY <1>0, <1>c, <1>d, <3>2, <3>3 DEF MaxRevisions
  <2>5. CASE arg[h] # m
    <3>1. Revisers(m)' = Revisers(m)
      BY <2>3, <2>5 DEF Revisers
    <3>2. revisions'[m] = revisions[m]
      BY <1>1, <2>5 DEF ReviseWrite, TypeOK
    <3>3. QED
      BY <1>0, <3>1, <3>2
  <2>6. QED
    BY <2>4, <2>5
<1>2. ASSUME NEW h \in Handlers, NEW n \in Orders, ReviseRead(h, n)
      PROVE  (revisions[m] + Cardinality(Revisers(m))
                        <= MaxRevisions + Cardinality(Handlers) - 1)'
  <2>1. /\ revisions' = revisions
        /\ revisions[n] < MaxRevisions
        /\ pc[h] = "idle"
        /\ pc' = [pc EXCEPT ![h] = "revise_write"]
        /\ arg' = [arg EXCEPT ![h] = n]
    BY <1>2 DEF ReviseRead, MayRevise, Goto, Idle, workVars
  <2>2. CASE n = m
    BY <1>0, <1>d, <2>1, <1>c, <2>2 DEF MaxRevisions
  <2>3. CASE n # m
    <3>1. Revisers(m)' = Revisers(m)
      BY <2>1, <2>3 DEF Revisers, TypeOK
    <3>2. QED
      BY <1>0, <2>1, <3>1
  <2>4. QED
    BY <2>2, <2>3
<1>3. ASSUME ~\E h \in Handlers : ReviseWrite(h),
             ~\E h \in Handlers, n \in Orders : ReviseRead(h, n)
      PROVE  (revisions[m] + Cardinality(Revisers(m))
                        <= MaxRevisions + Cardinality(Handlers) - 1)'
  <2>1. revisions' = revisions /\ Revisers(m)' \subseteq Revisers(m)
    BY <1>3, OthersLetGo
  <2>2. Cardinality(Revisers(m)') <= Cardinality(Revisers(m))
    BY <1>c, <2>1, FS_Subset
  <2>3. QED
    BY <1>0, <1>c, <1>d, <2>1, <2>2 DEF MaxRevisions
<1>4. QED
  BY <1>1, <1>2, <1>3

(* However many requests read the count of a milestone before one of them   *)
(* writes it, the limit of three is overrun by at most one revision per     *)
(* other request in flight.                                                 *)
THEOREM RevisionsBounded == Spec => []RevisionOverrun
<1>1. Init => InHand
  <2> SUFFICES ASSUME Init, NEW m \in Orders
               PROVE  revisions[m] + Cardinality(Revisers(m))
                        <= MaxRevisions + Cardinality(Handlers) - 1
    BY DEF InHand
  <2>1. revisions[m] = 0 /\ Revisers(m) = {}
    BY DEF Init, Revisers
  <2>2. QED
    BY <2>1, RevisersFinite, FS_EmptySet DEF MaxRevisions
<1>2. TypeOK /\ InHand => RevisionOverrun
  <2> SUFFICES ASSUME TypeOK, InHand, NEW m \in Orders
               PROVE  revisions[m] <= MaxRevisions + Cardinality(Handlers) - 1
    BY DEF RevisionOverrun
  <2>1. QED
    BY RevisersFinite DEF InHand, TypeOK, MaxRevisions
<1>3. Spec => []InHand
  BY <1>1, InHandStep, TypeCorrect, PTL DEF Spec
<1>4. QED
  BY <1>2, <1>3, TypeCorrect, PTL

-----------------------------------------------------------------------------
(* Whatever the handlers have read, every statement that commits a change   *)
(* of the contract is one operation of the agreement, and every other       *)
(* statement leaves it alone.                                               *)
LEMMA StepImplements == IInv /\ [Next]_vars => [Promise!Next]_(Promise!vars)
<1> SUFFICES ASSUME IInv, Next PROVE Promise!Next \/ UNCHANGED <<status, accepted>>
  BY DEF vars, rowVars, Promise!vars
<1> USE DEF jobVars, rowVars, workVars, dispVars, reqVars, IInv
<1>1. ASSUME NEW h \in Handlers, Request(h)
      PROVE  Promise!Next \/ UNCHANGED <<status, accepted>>
  <2>1. CASE CreateContract(h)
    BY <2>1 DEF CreateContract, Promise!Next, Promise!Propose
  <2>2. CASE ApproveCompletion(h)
    <3>1. BothAccepted(accepted)
      BY <2>2 DEF ApproveCompletion, NothingBeforeBothAccept
    <3>2. QED
      BY <2>2, <3>1
      DEF ApproveCompletion, BothAccepted, Promise!Next, Promise!Complete, Promise!Agreed
  <2>3. CASE CancelContract(h)
    BY <2>3 DEF CancelContract, Promise!Next, Promise!Cancel
  <2>4. CASE ~(CreateContract(h) \/ ApproveCompletion(h) \/ CancelContract(h))
    BY <1>1, <2>4
    DEF Request, AcceptRead, StartWork, SubmitMilestone, ApproveRead, ReviseRead,
        CompleteRead, DisputeRead, AdminResolveDispute
  <2>5. QED
    BY <2>1, <2>2, <2>3, <2>4
<1>2. ASSUME NEW h \in Handlers, HandlerStep(h) \/ Abort(h)
      PROVE  Promise!Next \/ UNCHANGED <<status, accepted>>
  <2>1. CASE AcceptTx(h)
    <3>1. arg[h] \in Parties
      BY <2>1 DEF AcceptTx, TypeOK, ArgOK
    <3>2. Promise!Accept(arg[h])
      BY <2>1 DEF AcceptTx, BothAccepted, Promise!Accept
    <3>3. QED
      BY <3>1, <3>2 DEF Promise!Next
  <2>2. CASE CompleteWrite(h)
    <3>1. BothAccepted(accepted)
      BY <2>2 DEF CompleteWrite, NothingBeforeBothAccept
    <3>2. QED
      BY <2>2, <3>1
      DEF CompleteWrite, BothAccepted, Promise!Next, Promise!Complete, Promise!Agreed
  <2>3. CASE DisputeMark(h)
    <3>1. BothAccepted(accepted)
      BY <2>3 DEF DisputeMark, InFlight, Remembered
    <3>2. status \in {"active", "completed", "cancelled", "disputed"}
      BY <3>1 DEF NoStuckAcceptance, Fresh, TypeOK, ContractStatuses
    <3>3. QED
      BY <2>3, <3>1, <3>2
      DEF DisputeMark, DisputedStatus, BothAccepted, Promise!Next, Promise!Dispute,
          Promise!Agreed
  <2>4. CASE ~(AcceptTx(h) \/ CompleteWrite(h) \/ DisputeMark(h))
    BY <1>2, <2>4
    DEF HandlerStep, Abort, UpdateJob, AcceptRefused, AcceptReread, ApproveTx,
        ReviseWrite, CompleteRefused, DisputeInsert
  <2>5. QED
    BY <2>1, <2>2, <2>3, <2>4
<1>3. CASE MarkReviewed \/ AdminSuspendJob \/ AdminRemoveJob \/ DeadlinePasses
  BY <1>3
  DEF MarkReviewed, AdminSuspendJob, AdminRemoveJob, SetJobStatus, DeadlinePasses
<1>4. QED
  BY <1>1, <1>2, <1>3 DEF Next

(* The contract service implements the agreement: for any number of         *)
(* requests in flight, what it commits is what the abstract contract does.  *)
THEOREM ServiceImplements == Spec => ImplementsAgreement
<1>1. Init => Promise!Init
  BY DEF Init, Promise!Init
<1>2. QED
  BY <1>1, StepImplements, Invariance, PTL DEF Spec, ImplementsAgreement, Promise!Spec
=============================================================================

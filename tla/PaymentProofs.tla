---------------------------- MODULE PaymentProofs ----------------------------
(***************************************************************************)
(* What Payment guarantees for any number of requests in flight, any       *)
(* amounts and any number of advances.                                     *)
(***************************************************************************)
EXTENDS Payment, TLAPS

Begun(s) == s \in Active \cup {"repaid"}

(* What a handler relies on when it takes its next step: a release has its  *)
(* transfer, a refund was made at Stripe, an advance found active was paid  *)
(* out, and a release never withholds more than the payout.                 *)
Carried(h) ==
    /\ loc[h].pool + loc[h].total <= Payout
    /\ \A a \in Ids : loc[h].due[a] > 0 => Begun(advance[a])
    /\ pc[h] = "record_transfer" => transfers > 0 /\ loc[h].to = "released"
    /\ pc[h] = "update_status"
          => \/ loc[h].to \in {"escrow", "failed"}
             \/ loc[h].to = "released" /\ transfers > 0 /\ transferRecorded
    /\ pc[h] = "record_refund"
          => loc[h].ask <= refunded /\ (loc[h].ask = 0 => refunded = Amount)

InFlight == \A h \in Handlers : Carried(h)

(* The running totals in the webhooks are totals Stripe has reached.        *)
EventsReached == \A total \in refundEvents : total <= refunded

IInv == /\ TypeOK /\ InFlight /\ EventsReached
        /\ ReleasedWasTransferred /\ RefundNeverOverstated /\ RepaymentsAccounted

-----------------------------------------------------------------------------
(* The locals of an idle handler have their types.                          *)
LEMMA NoLocalType == NoLocal \in Locals /\ NoDue \in [Ids -> Nat]
  BY PaymentAssumption DEF NoLocal, NoDue, Locals, Statuses

(* A fifth of the payout lies between nothing and the payout.               *)
LEMMA PoolBound == RepaymentPool \in Nat /\ RepaymentPool <= Payout
  BY PaymentAssumption DEF RepaymentPool

(* The initial state satisfies the inductive invariant.                     *)
LEMMA InitIInv == Init => IInv
<1> SUFFICES ASSUME Init PROVE IInv
  OBVIOUS
<1>1. TypeOK
  <2>1. RowOK
    <3>1. refundAmount \in 0..Amount
      BY PaymentAssumption DEF Init
    <3>2. QED
      BY <3>1, Zenon DEF Init, RowOK, Statuses
  <2>2. AdvanceOK
    BY NoLocalType DEF Init, AdvanceOK, AdvanceStatuses
  <2>3. StripeOK
    BY NoLocalType, PaymentAssumption DEF Init, StripeOK
  <2>4. RequestOK
    BY NoLocalType, PaymentAssumption DEF Init, RequestOK, Steps
  <2>5. QED
    BY <2>1, <2>2, <2>3, <2>4 DEF TypeOK
<1>2. InFlight /\ EventsReached
  BY PaymentAssumption DEF Init, InFlight, Carried, EventsReached, NoLocal, NoDue
<1>3. ReleasedWasTransferred /\ RefundNeverOverstated /\ RepaymentsAccounted
  BY PaymentAssumption
  DEF Init, ReleasedWasTransferred, RefundNeverOverstated, RepaymentsAccounted, NoDue
<1>4. QED
  BY <1>1, <1>2, <1>3 DEF IInv

(* A request moves on: the control state keeps its type.                    *)
LEMMA GotoType ==
    ASSUME RequestOK, NEW h \in Handlers, NEW step \in Steps, NEW local \in Locals,
           step \in {"disburse_transfer", "disburse_record"} => local.id \in Ids,
           Goto(h, step, local)
    PROVE  RequestOK'
  BY DEF Goto, RequestOK

(* A request ends.                                                          *)
LEMMA FinishType ==
    ASSUME RequestOK, NEW h \in Handlers, Finish(h)
    PROVE  RequestOK'
  BY GotoType, NoLocalType DEF Finish, Steps

(* Parts of the state that a step leaves alone keep their types.            *)
LEMMA StutterType ==
    /\ RowOK /\ UNCHANGED rowVars => RowOK'
    /\ AdvanceOK /\ UNCHANGED advanceVars => AdvanceOK'
    /\ StripeOK /\ UNCHANGED stripeVars => StripeOK'
    /\ RequestOK /\ UNCHANGED reqVars => RequestOK'
<1>1. RowOK /\ UNCHANGED rowVars => RowOK'
  BY DEF RowOK, rowVars
<1>2. AdvanceOK /\ UNCHANGED advanceVars => AdvanceOK'
  BY DEF AdvanceOK, advanceVars
<1>3. StripeOK /\ UNCHANGED stripeVars => StripeOK'
  BY DEF StripeOK, stripeVars
<1>4. RequestOK /\ UNCHANGED reqVars => RequestOK'
  BY DEF RequestOK, reqVars
<1>5. QED
  BY <1>1, <1>2, <1>3, <1>4

(* The locals the handlers put together have their types.                   *)
LEMMA LocalForms ==
    /\ \A b \in BOOLEAN : [NoLocal EXCEPT !.seen = b] \in Locals
    /\ \A b \in BOOLEAN, c \in 0..Amount :
          [NoLocal EXCEPT !.seen = b, !.ask = c] \in Locals
    /\ \A s \in Statuses : [NoLocal EXCEPT !.to = s] \in Locals
    /\ \A a \in Ids : /\ [NoLocal EXCEPT !.id = a] \in Locals
                      /\ [NoLocal EXCEPT !.id = a].id = a
    /\ \A due \in [Ids -> Nat], pool \in Nat :
          [NoLocal EXCEPT !.due = due, !.pool = pool] \in Locals
  BY NoLocalType DEF NoLocal, Locals

(* The loop of a release keeps its locals well typed: a deduction is at     *)
(* most the pool.                                                           *)
LEMMA LoopForms ==
    ASSUME NEW local \in Locals, NEW a \in Ids, local.pool > 0, local.due[a] > 0,
           NEW d, d = Deduction(local.pool, local.due[a])
    PROVE  /\ d \in Nat /\ d > 0 /\ d <= local.pool
           /\ Deducted(local, a, d) \in Locals
           /\ Deducted(local, a, d).pool + Deducted(local, a, d).total
                 = local.pool + local.total
           /\ Skipped(local, a) \in Locals
           /\ Skipped(local, a).pool = local.pool
           /\ Skipped(local, a).total = local.total
           /\ \A b \in Ids : Deducted(local, a, d).due[b] > 0 => local.due[b] > 0
           /\ \A b \in Ids : Skipped(local, a).due[b] > 0 => local.due[b] > 0
<1>1. local.pool \in Nat /\ local.total \in Nat /\ local.due \in [Ids -> Nat]
  BY DEF Locals
<1>2. d \in Nat /\ d > 0 /\ d <= local.pool
  BY <1>1 DEF Deduction
<1>3. [local.due EXCEPT ![a] = 0] \in [Ids -> Nat]
  BY <1>1
<1>4. /\ Deducted(local, a, d) \in Locals
      /\ Deducted(local, a, d).pool = local.pool - d
      /\ Deducted(local, a, d).total = local.total + d
      /\ Deducted(local, a, d).due = [local.due EXCEPT ![a] = 0]
  <2>1. local.pool - d \in Nat /\ local.total + d \in Nat
    BY <1>1, <1>2
  <2>2. /\ Deducted(local, a, d).pool = local.pool - d
        /\ Deducted(local, a, d).total = local.total + d
        /\ Deducted(local, a, d).due = [local.due EXCEPT ![a] = 0]
    BY DEF Deducted, Locals
  <2>3. Deducted(local, a, d) \in Locals
    BY <1>3, <2>1 DEF Deducted, Locals
  <2>4. QED
    BY <2>2, <2>3
<1>5. /\ Skipped(local, a) \in Locals
      /\ Skipped(local, a).pool = local.pool
      /\ Skipped(local, a).total = local.total
      /\ Skipped(local, a).due = [local.due EXCEPT ![a] = 0]
  BY <1>1, <1>3 DEF Skipped, Locals
<1>6. \A b \in Ids : [local.due EXCEPT ![a] = 0][b] > 0 => local.due[b] > 0
  BY <1>1
<1>7. Deducted(local, a, d).pool + Deducted(local, a, d).total = local.pool + local.total
  <2>1. (local.pool - d) + (local.total + d) = local.pool + local.total
    BY <1>1, <1>2
  <2>2. QED
    BY <1>4, <2>1
<1>8. QED
  BY <1>2, <1>4, <1>5, <1>6, <1>7

(* What the SELECT of the active advances returns.                          *)
LEMMA RemainingType ==
    ASSUME AdvanceOK
    PROVE  /\ Remaining \in [Ids -> Nat]
           /\ \A a \in Ids : Remaining[a] > 0 => advance[a] \in Active
  BY PaymentAssumption DEF Remaining, AdvanceOK

-----------------------------------------------------------------------------
(* Every step keeps the types; the transfer of a release is not negative.   *)
LEMMA TypeStep == TypeOK /\ InFlight /\ [Next]_vars => TypeOK'
<1> SUFFICES ASSUME TypeOK, InFlight, [Next]_vars PROVE TypeOK'
  OBVIOUS
<1> USE PaymentAssumption, StutterType DEF TypeOK
<1>1. ASSUME NEW h \in Handlers, Request(h) PROVE TypeOK'
  <2>1. CASE CreateInsert(h)
    <3>1. RowOK'
      BY <2>1 DEF CreateInsert, RowOK, Statuses
    <3>2. RequestOK'
      BY <2>1, GotoType, NoLocalType DEF CreateInsert, Steps
    <3>3. QED
      BY <2>1, <3>1, <3>2 DEF CreateInsert
  <2>2. CASE ProcessRead(h)
    BY <2>2, GotoType, LocalForms DEF ProcessRead, Steps, RowOK
  <2>3. CASE ReleaseRead(h)
    <3>1. RequestOK'
      BY <2>3 DEF ReleaseRead, RequestOK, Steps
    <3>2. QED
      BY <2>3, <3>1 DEF ReleaseRead
  <2>4. ASSUME NEW ask \in RefundRequests, RefundRead(h, ask) PROVE TypeOK'
    BY <2>4, GotoType, LocalForms DEF RefundRead, Steps, RowOK
  <2>5. CASE WebhookSucceeded(h)
    BY <2>5, GotoType, LocalForms DEF WebhookSucceeded, Steps, Statuses
  <2>6. CASE WebhookFailed(h) \/ WebhookDispute(h)
    <3>1. RowOK'
      BY <2>6 DEF WebhookFailed, WebhookDispute, WebhookStatus, RowOK, Statuses
    <3>2. QED
      BY <2>6, <3>1 DEF WebhookFailed, WebhookDispute, WebhookStatus
  <2>7. ASSUME NEW total \in refundEvents, WebhookRefunded(h, total) PROVE TypeOK'
    <3>1. total \in 0..Amount
      BY DEF StripeOK
    <3>2. RowOK'
      BY <2>7, <3>1
      DEF WebhookRefunded, UpdateRefund, RefundStatus, RowOK, Statuses
    <3>3. QED
      BY <2>7, <3>2 DEF WebhookRefunded, UpdateRefund
  <2>8. ASSUME NEW a \in Ids,
               \/ RequestAdvance(h, a)
               \/ ReviewAdvance(h, a, "approved") \/ ReviewAdvance(h, a, "rejected")
        PROVE  TypeOK'
    <3>1. AdvanceOK'
      BY <2>8 DEF RequestAdvance, ReviewAdvance, SetAdvance, AdvanceOK, AdvanceStatuses
    <3>2. QED
      BY <2>8, <3>1 DEF RequestAdvance, ReviewAdvance, SetAdvance
  <2>9. ASSUME NEW a \in Ids, DisburseRead(h, a) PROVE TypeOK'
    BY <2>9, GotoType, LocalForms DEF DisburseRead, Steps
  <2>10. QED
    BY <1>1, <2>1, <2>2, <2>3, <2>4, <2>5, <2>6, <2>7, <2>8, <2>9 DEF Request
<1>2. ASSUME NEW h \in Handlers, HandlerStep(h) PROVE TypeOK'
  <2>0. loc[h] \in Locals
    BY DEF RequestOK
  <2>1. CASE CreateIntent(h)
    <3>1. StripeOK'
      BY <2>1 DEF CreateIntent, StripeOK
    <3>2. RequestOK'
      BY <2>1, GotoType, NoLocalType DEF CreateIntent, Steps
    <3>3. QED
      BY <2>1, <3>1, <3>2 DEF CreateIntent
  <2>2. CASE RecordIntent(h)
    <3>1. RowOK'
      BY <2>2 DEF RecordIntent, RowOK
    <3>2. QED
      BY <2>2, <3>1, FinishType DEF RecordIntent
  <2>3. CASE ProcessMark(h)
    <3>1. RowOK'
      BY <2>3 DEF ProcessMark, RowOK, Statuses
    <3>2. RequestOK'
      BY <2>3, GotoType, LocalForms DEF ProcessMark, AfterMark, Steps, Statuses
    <3>3. QED
      BY <2>3, <3>1, <3>2 DEF ProcessMark
  <2>4. CASE Capture(h)
    <3>1. StripeOK'
      BY <2>4 DEF Capture, StripeOK
    <3>2. RequestOK'
      BY <2>4, GotoType, LocalForms DEF Capture, AfterCapture, Steps, Statuses
    <3>3. QED
      BY <2>4, <3>1, <3>2 DEF Capture
  <2>5. CASE CaptureRefused(h)
    BY <2>5, GotoType, LocalForms DEF CaptureRefused, AfterCapture, Steps, Statuses
  <2>6. CASE UpdatePaymentStatus(h)
    <3>1. RowOK'
      BY <2>0, <2>6 DEF UpdatePaymentStatus, RowOK, Locals
    <3>2. QED
      BY <2>6, <3>1, FinishType DEF UpdatePaymentStatus
  <2>7. CASE ReleaseAdvances(h)
    <3>1. PICK due \in {Remaining} \cup (IF MayFail THEN {NoDue} ELSE {}) :
             Goto(h, "release_repay",
                  [NoLocal EXCEPT !.due = due,
                                  !.pool = IF due = NoDue THEN 0 ELSE RepaymentPool])
      BY <2>7 DEF ReleaseAdvances
    <3>2. due \in [Ids -> Nat]
      BY <3>1, NoLocalType, RemainingType
    <3>3. (IF due = NoDue THEN 0 ELSE RepaymentPool) \in Nat
      BY PoolBound
    <3>4. RequestOK'
      BY <3>1, <3>2, <3>3, GotoType, LocalForms DEF Steps
    <3>5. QED
      BY <2>7, <3>4 DEF ReleaseAdvances
  <2>8. CASE UpdateAdvanceRepayment(h)
    <3>1. PICK a \in FirstDue(loc[h].due) :
             LET d == Deduction(loc[h].pool, loc[h].due[a])
                 c == Repay(a, loc[h].due, d)
             IN  /\ repaid' = [repaid EXCEPT ![a] = c]
                 /\ advance' = [advance EXCEPT ![a] = StatusRepaid(a, c)]
                 /\ ledger' = [ledger EXCEPT ![a] = @ + d]
                 /\ withheld' = withheld + d
                 /\ Goto(h, "release_repay", Deducted(loc[h], a, d))
      BY <2>8 DEF UpdateAdvanceRepayment
    <3>2. PICK d : d = Deduction(loc[h].pool, loc[h].due[a])
      OBVIOUS
    <3>3. a \in Ids /\ loc[h].due[a] > 0 /\ loc[h].pool > 0
      BY <2>8 DEF FirstDue, UpdateAdvanceRepayment
    <3>4. d \in Nat /\ Deducted(loc[h], a, d) \in Locals
      BY <2>0, <3>2, <3>3, LoopForms
    <3>5. AdvanceOK'
      BY <3>1, <3>2, <3>3, <3>4 DEF AdvanceOK, Repay, StatusRepaid, AdvanceStatuses
    <3>6. RequestOK'
      BY <3>1, <3>2, <3>4, GotoType DEF Steps
    <3>7. QED
      BY <2>8, <3>5, <3>6 DEF UpdateAdvanceRepayment
  <2>9. CASE RepaymentFails(h)
    <3>1. PICK a \in FirstDue(loc[h].due) : Goto(h, "release_repay", Skipped(loc[h], a))
      BY <2>9 DEF RepaymentFails
    <3>2. a \in Ids /\ loc[h].due[a] > 0 /\ loc[h].pool > 0
      BY <2>9 DEF FirstDue, RepaymentFails
    <3>3. RequestOK'
      BY <2>0, <3>1, <3>2, LoopForms, GotoType DEF Steps
    <3>4. QED
      BY <2>9, <3>3 DEF RepaymentFails
  <2>10. CASE CreateTransfer(h)
    <3>1. Payout - loc[h].total \in Nat
      BY <2>0 DEF InFlight, Carried, Locals
    <3>2. StripeOK'
      BY <2>10, <3>1 DEF CreateTransfer, StripeOK
    <3>3. RequestOK'
      BY <2>10, GotoType, LocalForms DEF CreateTransfer, Steps, Statuses
    <3>4. QED
      BY <2>10, <3>2, <3>3 DEF CreateTransfer
  <2>11. CASE RecordTransfer(h)
    <3>1. RowOK'
      BY <2>11 DEF RecordTransfer, RowOK
    <3>2. RequestOK'
      BY <2>0, <2>11, GotoType DEF RecordTransfer, Steps
    <3>3. QED
      BY <2>11, <3>1, <3>2 DEF RecordTransfer
  <2>12. CASE StripeRefund(h)
    <3>1. StripeOK'
      <4>1. Asked(loc[h]) \in Nat /\ refunded \in Nat
        BY <2>0 DEF Asked, StripeOK, Locals
      <4>2. refunded + Asked(loc[h]) \in 1..Amount
        BY <2>12, <4>1 DEF StripeRefund, Refundable
      <4>3. refunded' \in 1..Amount /\ refundEvents' = refundEvents \cup {refunded'}
        BY <2>12, <4>2 DEF StripeRefund
      <4>4. refunded' \in 0..Amount /\ refundEvents' \subseteq 1..Amount
        BY <4>3 DEF StripeOK
      <4>5. QED
        BY <2>12, <4>4 DEF StripeRefund, StripeOK
    <3>2. RequestOK'
      BY <2>0, <2>12, GotoType DEF StripeRefund, Steps
    <3>3. QED
      BY <2>12, <3>1, <3>2 DEF StripeRefund
  <2>13. CASE RefundRefused(h)
    BY <2>13, FinishType DEF RefundRefused
  <2>14. CASE RecordRefund(h)
    <3>1. RowOK'
      <4>1. (IF loc[h].ask = 0 THEN Amount ELSE loc[h].ask) \in 0..Amount
        BY <2>0 DEF Locals
      <4>2. QED
        BY <2>14, <4>1 DEF RecordRefund, UpdateRefund, RefundStatus, RowOK, Statuses
    <3>2. QED
      BY <2>14, <3>1, FinishType DEF RecordRefund, UpdateRefund
  <2>15. CASE CreatePlatformTransfer(h)
    <3>1. StripeOK'
      BY <2>15 DEF CreatePlatformTransfer, StripeOK, RequestOK
    <3>2. RequestOK'
      BY <2>0, <2>15, GotoType DEF CreatePlatformTransfer, Steps, RequestOK
    <3>3. QED
      BY <2>15, <3>1, <3>2 DEF CreatePlatformTransfer
  <2>16. CASE DisburseRecord(h)
    <3>1. AdvanceOK'
      BY <2>16 DEF DisburseRecord, SetAdvance, AdvanceOK, AdvanceStatuses
    <3>2. QED
      BY <2>16, <3>1, FinishType DEF DisburseRecord, SetAdvance
  <2>17. CASE DisburseRefused(h)
    BY <2>17, FinishType DEF DisburseRefused
  <2>18. QED
    BY <1>2, <2>1, <2>2, <2>3, <2>4, <2>5, <2>6, <2>7, <2>8, <2>9, <2>10, <2>11,
       <2>12, <2>13, <2>14, <2>15, <2>16, <2>17 DEF HandlerStep
<1>3. ASSUME NEW h \in Handlers, Abort(h) PROVE TypeOK'
  BY <1>3, FinishType DEF Abort
<1>4. CASE Authorize \/ Decline \/ Chargeback
  <2>1. StripeOK'
    BY <1>4 DEF Authorize, Decline, Chargeback, StripeEvent, StripeOK
  <2>2. QED
    BY <1>4, <2>1 DEF Authorize, Decline, Chargeback, StripeEvent
<1>5. CASE UNCHANGED vars
  BY <1>5 DEF vars
<1>6. QED
  BY <1>1, <1>2, <1>3, <1>4, <1>5 DEF Next

-----------------------------------------------------------------------------
(* The steps that write the advances.                                       *)
LEMMA AdvanceVarsChange ==
    ASSUME [Next]_vars
    PROVE  \/ \E h \in Handlers : UpdateAdvanceRepayment(h) \/ DisburseRecord(h)
           \/ \E h \in Handlers, b \in Ids :
                 \/ RequestAdvance(h, b)
                 \/ ReviewAdvance(h, b, "approved") \/ ReviewAdvance(h, b, "rejected")
           \/ UNCHANGED advanceVars
<1>1. ASSUME NEW h \in Handlers, HandlerStep(h),
             ~UpdateAdvanceRepayment(h), ~DisburseRecord(h)
      PROVE  UNCHANGED advanceVars
  BY <1>1
  DEF HandlerStep, CreateIntent, RecordIntent, ProcessMark, Capture, CaptureRefused,
      UpdatePaymentStatus, ReleaseAdvances, RepaymentFails, CreateTransfer,
      RecordTransfer, StripeRefund, RefundRefused, RecordRefund, UpdateRefund,
      CreatePlatformTransfer, DisburseRefused
<1>2. ASSUME NEW h \in Handlers, Abort(h) PROVE UNCHANGED advanceVars
  BY <1>2 DEF Abort
<1>3. ASSUME NEW h \in Handlers, Request(h)
      PROVE  \/ \E b \in Ids :
                   \/ RequestAdvance(h, b)
                   \/ ReviewAdvance(h, b, "approved") \/ ReviewAdvance(h, b, "rejected")
             \/ UNCHANGED advanceVars
  BY <1>3
  DEF Request, CreateInsert, ProcessRead, ReleaseRead, RefundRead, WebhookSucceeded,
      WebhookFailed, WebhookDispute, WebhookStatus, WebhookRefunded, UpdateRefund,
      DisburseRead
<1>4. CASE Authorize \/ Decline \/ Chargeback
  BY <1>4 DEF Authorize, Decline, Chargeback, StripeEvent
<1>5. CASE UNCHANGED vars
  BY <1>5 DEF vars
<1>6. QED
  BY <1>1, <1>2, <1>3, <1>4, <1>5 DEF Next

(* What the transaction of one repayment does: it adds a deduction to an    *)
(* advance that was paid out.                                               *)
LEMMA RepayEffect ==
    ASSUME TypeOK, InFlight, NEW h \in Handlers, UpdateAdvanceRepayment(h)
    PROVE  \E a \in Ids, d \in Nat, local \in Locals :
              /\ Begun(advance[a])
              /\ repaid' = [repaid EXCEPT ![a] = repaid[a] + d]
              /\ ledger' = [ledger EXCEPT ![a] = ledger[a] + d]
              /\ advance' = [advance EXCEPT ![a] = StatusRepaid(a, repaid[a] + d)]
              /\ Goto(h, "release_repay", local)
              /\ local.pool + local.total <= Payout
              /\ \A b \in Ids : local.due[b] > 0 => loc[h].due[b] > 0
<1>0. loc[h] \in Locals /\ Carried(h)
  BY DEF TypeOK, RequestOK, InFlight
<1>1. PICK a \in FirstDue(loc[h].due) :
         LET d == Deduction(loc[h].pool, loc[h].due[a])
             c == Repay(a, loc[h].due, d)
         IN  /\ repaid' = [repaid EXCEPT ![a] = c]
             /\ advance' = [advance EXCEPT ![a] = StatusRepaid(a, c)]
             /\ ledger' = [ledger EXCEPT ![a] = @ + d]
             /\ withheld' = withheld + d
             /\ Goto(h, "release_repay", Deducted(loc[h], a, d))
  BY DEF UpdateAdvanceRepayment
<1>2. PICK d : d = Deduction(loc[h].pool, loc[h].due[a])
  OBVIOUS
<1>3. a \in Ids /\ loc[h].due[a] > 0 /\ loc[h].pool > 0
  BY DEF FirstDue, UpdateAdvanceRepayment
<1>4. PICK local : local = Deducted(loc[h], a, d)
  OBVIOUS
<1>5. /\ d \in Nat /\ local \in Locals
      /\ local.pool + local.total = loc[h].pool + loc[h].total
      /\ \A b \in Ids : local.due[b] > 0 => loc[h].due[b] > 0
  BY <1>0, <1>2, <1>3, <1>4, LoopForms
<1>6. local.pool + local.total <= Payout
  BY <1>0, <1>5 DEF Carried
<1>7. Begun(advance[a])
  BY <1>0, <1>3 DEF Carried
<1>8. /\ repaid' = [repaid EXCEPT ![a] = repaid[a] + d]
      /\ ledger' = [ledger EXCEPT ![a] = ledger[a] + d]
      /\ advance' = [advance EXCEPT ![a] = StatusRepaid(a, repaid[a] + d)]
      /\ Goto(h, "release_repay", local)
  BY <1>1, <1>2, <1>4 DEF Repay
<1>9. QED
  BY <1>3, <1>5, <1>6, <1>7, <1>8

(* How an advance may change in one step.                                   *)
Forward(s, t) ==
    \/ s = t
    \/ <<s, t>> \in {<<"none", "requested">>, <<"approved", "disbursed">>}
                    \cup ({"requested"} \X {"approved", "rejected"})
                    \cup ({"disbursed"} \X {"repaying", "repaid"})
                    \cup {<<"repaying", "repaid">>}

(* Advances only move forward: what the repayment writes depends on the     *)
(* status it overwrites and on the sum it has reached.                      *)
LEMMA ForwardStep ==
    TypeOK /\ InFlight /\ RepaymentsAccounted /\ [Next]_vars
      => \A a \in Ids : Forward(advance[a], advance'[a])
<1> SUFFICES ASSUME TypeOK, InFlight, RepaymentsAccounted, [Next]_vars
             PROVE  \A a \in Ids : Forward(advance[a], advance'[a])
  OBVIOUS
<1>0. advance \in [Ids -> AdvanceStatuses] /\ repaid \in [Ids -> Nat]
  BY DEF TypeOK, AdvanceOK
<1>1. ASSUME NEW h \in Handlers, UpdateAdvanceRepayment(h)
      PROVE  \A a \in Ids : Forward(advance[a], advance'[a])
  <2>1. PICK a \in Ids, d \in Nat :
           /\ Begun(advance[a])
           /\ advance' = [advance EXCEPT ![a] = StatusRepaid(a, repaid[a] + d)]
    BY <1>1, RepayEffect
  <2>2. Forward(advance[a], StatusRepaid(a, repaid[a] + d))
    <3>1. advance[a] = "repaid" => repaid[a] + d >= Owed[a]
      BY <1>0, PaymentAssumption DEF RepaymentsAccounted
    <3>2. QED
      BY <2>1, <3>1 DEF StatusRepaid, Forward, Begun, Active
  <2>3. QED
    BY <1>0, <2>1, <2>2 DEF Forward
<1>2. ASSUME NEW h \in Handlers, DisburseRecord(h)
      PROVE  \A a \in Ids : Forward(advance[a], advance'[a])
  BY <1>0, <1>2 DEF DisburseRecord, MayDisburse, SetAdvance, Forward
<1>3. ASSUME NEW h \in Handlers, NEW b \in Ids,
             \/ RequestAdvance(h, b)
             \/ ReviewAdvance(h, b, "approved") \/ ReviewAdvance(h, b, "rejected")
      PROVE  \A a \in Ids : Forward(advance[a], advance'[a])
  BY <1>0, <1>3 DEF RequestAdvance, ReviewAdvance, SetAdvance, Forward
<1>4. CASE UNCHANGED advanceVars
  BY <1>4 DEF advanceVars, Forward
<1>5. QED
  BY <1>1, <1>2, <1>3, <1>4, AdvanceVarsChange

(* The columns of an advance and its repayment rows stay in step.           *)
LEMMA RepaymentStep ==
    TypeOK /\ InFlight /\ RepaymentsAccounted /\ [Next]_vars => RepaymentsAccounted'
<1> SUFFICES ASSUME TypeOK, InFlight, RepaymentsAccounted, [Next]_vars
             PROVE  RepaymentsAccounted'
  OBVIOUS
<1>0. /\ advance \in [Ids -> AdvanceStatuses]
      /\ repaid \in [Ids -> Nat] /\ ledger \in [Ids -> Nat]
  BY DEF TypeOK, AdvanceOK
<1>1. ASSUME NEW h \in Handlers, UpdateAdvanceRepayment(h)
      PROVE  RepaymentsAccounted'
  <2>1. PICK a \in Ids, d \in Nat :
           /\ Begun(advance[a])
           /\ repaid' = [repaid EXCEPT ![a] = repaid[a] + d]
           /\ ledger' = [ledger EXCEPT ![a] = ledger[a] + d]
           /\ advance' = [advance EXCEPT ![a] = StatusRepaid(a, repaid[a] + d)]
    BY <1>1, RepayEffect
  <2>2. /\ repaid'[a] = repaid[a] + d /\ ledger'[a] = ledger[a] + d
        /\ advance'[a] = StatusRepaid(a, repaid[a] + d)
    BY <1>0, <2>1
  <2>3. advance'[a] = "repaid" <=> repaid'[a] >= Owed[a]
    <3>1. CASE repaid[a] + d >= Owed[a]
      BY <2>2, <3>1 DEF StatusRepaid
    <3>2. CASE ~(repaid[a] + d >= Owed[a])
      <4>1. ~(repaid[a] >= Owed[a])
        BY <1>0, <3>2, PaymentAssumption
      <4>2. advance[a] # "repaid"
        BY <4>1 DEF RepaymentsAccounted
      <4>3. QED
        BY <2>2, <3>2, <4>2 DEF StatusRepaid
    <3>3. QED
      BY <3>1, <3>2
  <2>4. \A b \in Ids : b # a => /\ repaid'[b] = repaid[b] /\ ledger'[b] = ledger[b]
                                /\ advance'[b] = advance[b]
    BY <1>0, <2>1
  <2>5. QED
    BY <1>0, <2>2, <2>3, <2>4 DEF RepaymentsAccounted
<1>2. ASSUME NEW h \in Handlers, DisburseRecord(h) PROVE RepaymentsAccounted'
  BY <1>0, <1>2 DEF DisburseRecord, MayDisburse, SetAdvance, RepaymentsAccounted
<1>3. ASSUME NEW h \in Handlers, NEW b \in Ids,
             \/ RequestAdvance(h, b)
             \/ ReviewAdvance(h, b, "approved") \/ ReviewAdvance(h, b, "rejected")
      PROVE  RepaymentsAccounted'
  BY <1>0, <1>3 DEF RequestAdvance, ReviewAdvance, SetAdvance, RepaymentsAccounted
<1>4. CASE UNCHANGED advanceVars
  BY <1>4 DEF advanceVars, RepaymentsAccounted
<1>5. QED
  BY <1>1, <1>2, <1>3, <1>4, AdvanceVarsChange

-----------------------------------------------------------------------------
(* What never shrinks: transfers and refunds at Stripe, the recorded        *)
(* transfer, the advances that were paid out.                               *)
Grows == /\ transfers' >= transfers /\ refunded' >= refunded
         /\ transferRecorded => transferRecorded'
         /\ \A a \in Ids : Begun(advance[a]) => Begun(advance'[a])

(* No step takes any of it back.                                            *)
LEMMA GrowsStep ==
    TypeOK /\ InFlight /\ RepaymentsAccounted /\ [Next]_vars => Grows
<1> SUFFICES ASSUME TypeOK, InFlight, RepaymentsAccounted, [Next]_vars PROVE Grows
  OBVIOUS
<1>0. transfers \in Nat /\ refunded \in Nat
  BY PaymentAssumption DEF TypeOK, StripeOK
<1>1. \A a \in Ids : Begun(advance[a]) => Begun(advance'[a])
  BY ForwardStep DEF Forward, Begun, Active
<1> DEFINE Effect == /\ transfers' = transfers \/ transfers' = transfers + 1
                     /\ transferRecorded' = transferRecorded \/ transferRecorded' = TRUE
                     /\ refunded' = refunded \/ \E h \in Handlers : StripeRefund(h)
<1>2. Effect
  <2> USE DEF rowVars, stripeVars
  <2>1. ASSUME NEW h \in Handlers, HandlerStep(h) PROVE Effect
    BY <2>1
    DEF HandlerStep, CreateIntent, RecordIntent, ProcessMark, Capture, CaptureRefused,
        UpdatePaymentStatus, ReleaseAdvances, UpdateAdvanceRepayment, RepaymentFails,
        CreateTransfer, RecordTransfer, StripeRefund, RefundRefused, RecordRefund,
        UpdateRefund, CreatePlatformTransfer, DisburseRecord, SetAdvance, DisburseRefused
  <2>2. ASSUME NEW h \in Handlers, Abort(h) PROVE Effect
    BY <2>2 DEF Abort
  <2>3. ASSUME NEW h \in Handlers, Request(h) PROVE Effect
    BY <2>3
    DEF Request, CreateInsert, ProcessRead, ReleaseRead, RefundRead, WebhookSucceeded,
        WebhookFailed, WebhookDispute, WebhookStatus, WebhookRefunded, UpdateRefund,
        DisburseRead, RequestAdvance, ReviewAdvance, SetAdvance
  <2>4. CASE Authorize \/ Decline \/ Chargeback \/ UNCHANGED vars
    BY <2>4 DEF Authorize, Decline, Chargeback, StripeEvent, vars
  <2>5. QED
    BY <2>1, <2>2, <2>3, <2>4 DEF Next
<1>3. ASSUME NEW h \in Handlers, StripeRefund(h) PROVE refunded' >= refunded
  <2>1. loc[h] \in Locals
    BY DEF TypeOK, RequestOK
  <2>2. Asked(loc[h]) \in Int
    BY <1>0, <2>1, PaymentAssumption DEF Asked, Locals
  <2>3. QED
    BY <1>0, <1>3, <2>2 DEF StripeRefund, Refundable
<1>4. QED
  BY <1>0, <1>1, <1>2, <1>3 DEF Grows

(* What a request has in hand stays true while others move.                 *)
LEMMA OthersCarry ==
    ASSUME TypeOK, InFlight, TypeOK', Grows, NEW g \in Handlers,
           pc'[g] = pc[g], loc'[g] = loc[g]
    PROVE  Carried(g)'
<1>1. /\ transfers \in Nat /\ transfers' \in Nat
      /\ refunded \in 0..Amount /\ refunded' \in 0..Amount
      /\ loc[g] \in Locals
  BY DEF TypeOK, StripeOK, RequestOK
<1>2. Carried(g)
  BY DEF InFlight
<1>3. loc[g].ask \in 0..Amount
  BY <1>1 DEF Locals
<1>4. QED
  BY <1>1, <1>2, <1>3, PaymentAssumption DEF Carried, Grows

(* A request that moves on has in hand what its next step relies on.        *)
LEMMA GotoCarry ==
    ASSUME TypeOK, InFlight, TypeOK', Grows,
           NEW h \in Handlers, NEW step, NEW local \in Locals, Goto(h, step, local),
           local.pool + local.total <= Payout,
           \A a \in Ids : local.due[a] > 0 => Begun(advance'[a]),
           step = "record_transfer" => transfers' > 0 /\ local.to = "released",
           step = "update_status"
              => \/ local.to \in {"escrow", "failed"}
                 \/ local.to = "released" /\ transfers' > 0 /\ transferRecorded',
           step = "record_refund"
              => local.ask <= refunded' /\ (local.ask = 0 => refunded' = Amount)
    PROVE  InFlight'
<1>1. pc \in [Handlers -> Steps] /\ loc \in [Handlers -> Locals]
  BY DEF TypeOK, RequestOK
<1>2. pc'[h] = step /\ loc'[h] = local
  BY <1>1 DEF Goto
<1>3. Carried(h)'
  BY <1>2 DEF Carried
<1>4. \A g \in Handlers : g # h => pc'[g] = pc[g] /\ loc'[g] = loc[g]
  BY <1>1 DEF Goto
<1>5. QED
  BY <1>3, <1>4, OthersCarry DEF InFlight

(* A request starts or ends with nothing withheld.                          *)
LEMMA FreshForms ==
    /\ NoLocal.pool + NoLocal.total <= Payout
    /\ \A a \in Ids : ~(NoLocal.due[a] > 0)
    /\ \A b \in BOOLEAN :
          LET l == [NoLocal EXCEPT !.seen = b]
          IN  l.pool = NoLocal.pool /\ l.total = NoLocal.total /\ l.due = NoLocal.due
    /\ \A b \in BOOLEAN, c \in 0..Amount :
          LET l == [NoLocal EXCEPT !.seen = b, !.ask = c]
          IN  l.pool = NoLocal.pool /\ l.total = NoLocal.total /\ l.due = NoLocal.due
    /\ \A t \in Statuses :
          LET l == [NoLocal EXCEPT !.to = t]
          IN  /\ l.pool = NoLocal.pool /\ l.total = NoLocal.total /\ l.due = NoLocal.due
              /\ l.to = t
    /\ \A a \in Ids :
          LET l == [NoLocal EXCEPT !.id = a]
          IN  l.pool = NoLocal.pool /\ l.total = NoLocal.total /\ l.due = NoLocal.due
  BY PaymentAssumption DEF NoLocal, NoDue


(* Handlers carry only what is true.                                        *)
LEMMA CarryStep ==
    ASSUME TypeOK, InFlight, TypeOK', Grows, [Next]_vars
    PROVE  InFlight'
<1> USE PaymentAssumption
<1>0. /\ intentRecorded \in BOOLEAN /\ loc \in [Handlers -> Locals]
      /\ pc \in [Handlers -> Steps]
  BY DEF TypeOK, RowOK, RequestOK
<1>1. ASSUME UNCHANGED <<pc, loc>> PROVE InFlight'
  BY <1>1, OthersCarry DEF InFlight
<1>2. ASSUME NEW h \in Handlers, Finish(h) PROVE InFlight'
  BY <1>2, GotoCarry, NoLocalType, FreshForms DEF Finish
<1>3. ASSUME NEW h \in Handlers, NEW t \in {"escrow", "failed"}, NEW step,
             step \in {"capture", "update_status"},
             Goto(h, step, [NoLocal EXCEPT !.to = t])
      PROVE  InFlight'
  <2>1. t \in Statuses
    BY DEF Statuses
  <2>2. PICK local : local = [NoLocal EXCEPT !.to = t]
    OBVIOUS
  <2>3. /\ local \in Locals /\ local.to = t
        /\ local.pool + local.total <= Payout
        /\ \A a \in Ids : ~(local.due[a] > 0)
    BY <2>1, <2>2, LocalForms, FreshForms
  <2>4. Goto(h, step, local)
    BY <1>3, <2>2
  <2>5. QED
    BY <1>3, <2>3, <2>4, GotoCarry
<1>4. ASSUME NEW h \in Handlers, Request(h) PROVE InFlight'
  <2>1. CASE CreateInsert(h)
    BY <2>1, GotoCarry, NoLocalType, FreshForms DEF CreateInsert
  <2>2. CASE ProcessRead(h)
    BY <1>0, <2>2, GotoCarry, LocalForms, FreshForms DEF ProcessRead
  <2>3. CASE ReleaseRead(h)
    <3>1. Carried(h)'
      <4>1. loc'[h] = loc[h] /\ pc'[h] = "release_advances"
        BY <1>0, <2>3 DEF ReleaseRead
      <4>2. Carried(h)
        BY DEF InFlight
      <4>3. QED
        BY <4>1, <4>2 DEF Carried, Grows
    <3>2. \A g \in Handlers : g # h => pc'[g] = pc[g] /\ loc'[g] = loc[g]
      BY <1>0, <2>3 DEF ReleaseRead
    <3>3. QED
      BY <3>1, <3>2, OthersCarry DEF InFlight
  <2>4. ASSUME NEW ask \in RefundRequests, RefundRead(h, ask) PROVE InFlight'
    <3>1. PICK local : local = [NoLocal EXCEPT !.seen = intentRecorded, !.ask = ask]
      OBVIOUS
    <3>2. /\ local \in Locals
          /\ local.pool + local.total <= Payout
          /\ \A a \in Ids : ~(local.due[a] > 0)
      BY <1>0, <3>1, LocalForms, FreshForms
    <3>3. Goto(h, "refund", local)
      BY <2>4, <3>1 DEF RefundRead
    <3>4. QED
      BY <3>2, <3>3, GotoCarry
  <2>5. CASE WebhookSucceeded(h)
    BY <1>3, <2>5 DEF WebhookSucceeded
  <2>6. CASE WebhookFailed(h) \/ WebhookDispute(h)
    BY <1>1, <2>6 DEF WebhookFailed, WebhookDispute, WebhookStatus, reqVars
  <2>7. ASSUME NEW total \in refundEvents, WebhookRefunded(h, total) PROVE InFlight'
    <3>1. UNCHANGED <<pc, loc>>
      BY <2>7 DEF WebhookRefunded, reqVars
    <3>2. QED
      BY <1>1, <3>1
  <2>8. ASSUME NEW a \in Ids,
               \/ RequestAdvance(h, a)
               \/ ReviewAdvance(h, a, "approved") \/ ReviewAdvance(h, a, "rejected")
        PROVE  InFlight'
    BY <1>1, <2>8 DEF RequestAdvance, ReviewAdvance, reqVars
  <2>9. ASSUME NEW a \in Ids, DisburseRead(h, a) PROVE InFlight'
    BY <2>9, GotoCarry, LocalForms, FreshForms DEF DisburseRead
  <2>10. QED
    BY <1>4, <2>1, <2>2, <2>3, <2>4, <2>5, <2>6, <2>7, <2>8, <2>9 DEF Request
<1>5. ASSUME NEW h \in Handlers, HandlerStep(h) PROVE InFlight'
  <2>0. loc[h] \in Locals /\ Carried(h)
    BY <1>0 DEF InFlight
  <2>1. CASE CreateIntent(h)
    BY <2>1, GotoCarry, NoLocalType, FreshForms DEF CreateIntent
  <2>2. CASE RecordIntent(h) \/ UpdatePaymentStatus(h) \/ RefundRefused(h)
             \/ RecordRefund(h) \/ DisburseRecord(h) \/ DisburseRefused(h)
    <3>1. Finish(h)
      BY <2>2
      DEF RecordIntent, UpdatePaymentStatus, RefundRefused, RecordRefund, DisburseRecord,
          DisburseRefused
    <3>2. QED
      BY <1>2, <3>1
  <2>3. CASE ProcessMark(h)
    BY <1>3, <2>3 DEF ProcessMark, AfterMark
  <2>4. CASE Capture(h) \/ CaptureRefused(h)
    BY <1>3, <2>4 DEF Capture, CaptureRefused, AfterCapture
  <2>5. CASE ReleaseAdvances(h)
    <3>1. PICK due \in {Remaining} \cup (IF MayFail THEN {NoDue} ELSE {}) :
             Goto(h, "release_repay",
                  [NoLocal EXCEPT !.due = due,
                                  !.pool = IF due = NoDue THEN 0 ELSE RepaymentPool])
      BY <2>5 DEF ReleaseAdvances
    <3>2. due \in [Ids -> Nat] /\ \A a \in Ids : due[a] > 0 => Begun(advance[a])
      <4>1. \A a \in Ids : ~(NoDue[a] > 0)
        BY DEF NoDue
      <4>2. QED
        BY <3>1, <4>1, NoLocalType, RemainingType DEF TypeOK, Begun
    <3>3. PICK pool \in Nat : /\ pool = IF due = NoDue THEN 0 ELSE RepaymentPool
                             /\ pool <= Payout
      BY PoolBound
    <3>4. PICK local : local = [NoLocal EXCEPT !.due = due, !.pool = pool]
      OBVIOUS
    <3>5. local \in Locals
      BY <3>2, <3>3, <3>4, LocalForms
    <3>6. local.due = due /\ local.pool + local.total <= Payout
      BY <3>3, <3>4 DEF NoLocal
    <3>7. Goto(h, "release_repay", local)
      BY <3>1, <3>3, <3>4
    <3>8. QED
      BY <3>2, <3>5, <3>6, <3>7, GotoCarry DEF Grows
  <2>6. CASE UpdateAdvanceRepayment(h)
    <3>1. PICK local \in Locals :
             /\ Goto(h, "release_repay", local)
             /\ local.pool + local.total <= Payout
             /\ \A b \in Ids : local.due[b] > 0 => loc[h].due[b] > 0
      BY <2>6, RepayEffect
    <3>2. \A b \in Ids : local.due[b] > 0 => Begun(advance'[b])
      BY <2>0, <3>1 DEF Carried, Grows
    <3>3. QED
      BY <3>1, <3>2, GotoCarry
  <2>7. CASE RepaymentFails(h)
    <3>1. PICK a \in FirstDue(loc[h].due) : Goto(h, "release_repay", Skipped(loc[h], a))
      BY <2>7 DEF RepaymentFails
    <3>2. a \in Ids /\ loc[h].due[a] > 0 /\ loc[h].pool > 0
      BY <2>7 DEF FirstDue, RepaymentFails
    <3>3. PICK local : local = Skipped(loc[h], a)
      OBVIOUS
    <3>4. /\ local \in Locals
          /\ local.pool = loc[h].pool /\ local.total = loc[h].total
          /\ \A b \in Ids : local.due[b] > 0 => loc[h].due[b] > 0
      BY <2>0, <3>2, <3>3, LoopForms
    <3>5. local.pool + local.total <= Payout
      BY <2>0, <3>4 DEF Carried
    <3>6. \A b \in Ids : local.due[b] > 0 => Begun(advance'[b])
      BY <2>0, <3>4 DEF Carried, Grows
    <3>7. QED
      BY <3>1, <3>3, <3>4, <3>5, <3>6, GotoCarry
  <2>8. CASE CreateTransfer(h)
    <3>1. transfers' > 0
      BY <2>8 DEF CreateTransfer, TypeOK, StripeOK
    <3>2. "released" \in Statuses
      BY DEF Statuses
    <3>3. QED
      BY <2>8, <3>1, <3>2, GotoCarry, LocalForms, FreshForms DEF CreateTransfer
  <2>9. CASE RecordTransfer(h)
    <3>1. /\ loc[h].to = "released" /\ transfers' > 0 /\ transferRecorded'
      BY <2>0, <2>9 DEF RecordTransfer, Carried, stripeVars
    <3>2. loc[h].pool + loc[h].total <= Payout
      BY <2>0 DEF Carried
    <3>3. \A b \in Ids : loc[h].due[b] > 0 => Begun(advance'[b])
      BY <2>0 DEF Carried, Grows
    <3>4. QED
      BY <2>0, <2>9, <3>1, <3>2, <3>3, GotoCarry DEF RecordTransfer
  <2>10. CASE StripeRefund(h)
    <3>1. loc[h].ask <= refunded' /\ (loc[h].ask = 0 => refunded' = Amount)
      <4>1. refunded \in 0..Amount /\ loc[h].ask \in 0..Amount
        BY <2>0 DEF TypeOK, StripeOK, Locals
      <4>2. refunded' = refunded + Asked(loc[h])
        BY <2>10 DEF StripeRefund
      <4>3. QED
        BY <4>1, <4>2 DEF Asked
    <3>2. loc[h].pool + loc[h].total <= Payout
      BY <2>0 DEF Carried
    <3>3. \A b \in Ids : loc[h].due[b] > 0 => Begun(advance'[b])
      BY <2>0 DEF Carried, Grows
    <3>4. QED
      BY <2>0, <2>10, <3>1, <3>2, <3>3, GotoCarry DEF StripeRefund
  <2>11. CASE CreatePlatformTransfer(h)
    <3>1. loc[h].pool + loc[h].total <= Payout
      BY <2>0 DEF Carried
    <3>2. \A b \in Ids : loc[h].due[b] > 0 => Begun(advance'[b])
      BY <2>0 DEF Carried, Grows
    <3>3. QED
      BY <2>0, <2>11, <3>1, <3>2, GotoCarry DEF CreatePlatformTransfer
  <2>12. QED
    BY <1>5, <2>1, <2>2, <2>3, <2>4, <2>5, <2>6, <2>7, <2>8, <2>9, <2>10, <2>11
    DEF HandlerStep
<1>6. ASSUME NEW h \in Handlers, Abort(h) PROVE InFlight'
  BY <1>2, <1>6 DEF Abort
<1>7. CASE Authorize \/ Decline \/ Chargeback \/ UNCHANGED vars
  BY <1>1, <1>7 DEF Authorize, Decline, Chargeback, StripeEvent, vars, reqVars
<1>8. QED
  BY <1>4, <1>5, <1>6, <1>7 DEF Next

-----------------------------------------------------------------------------
(* The webhooks carry totals that Stripe has reached.                       *)
LEMMA EventsStep ==
    ASSUME TypeOK, EventsReached, Grows, TypeOK', [Next]_vars
    PROVE  EventsReached'
<1>0. /\ refunded \in Nat /\ refunded' \in Nat
      /\ refundEvents \subseteq Nat /\ refundEvents' \subseteq Nat
  BY PaymentAssumption DEF TypeOK, StripeOK
<1>1. refundEvents' = refundEvents \/ refundEvents' = refundEvents \cup {refunded'}
  <2> USE DEF stripeVars
  <2>1. ASSUME NEW h \in Handlers, HandlerStep(h) \/ Abort(h) PROVE <1>1!:
    BY <2>1
    DEF HandlerStep, Abort, CreateIntent, RecordIntent, ProcessMark, Capture,
        CaptureRefused, UpdatePaymentStatus, ReleaseAdvances, UpdateAdvanceRepayment,
        RepaymentFails, CreateTransfer, RecordTransfer, StripeRefund, RefundRefused,
        RecordRefund, UpdateRefund, CreatePlatformTransfer, DisburseRecord, SetAdvance,
        DisburseRefused
  <2>2. ASSUME NEW h \in Handlers, Request(h) PROVE <1>1!:
    BY <2>2
    DEF Request, CreateInsert, ProcessRead, ReleaseRead, RefundRead, WebhookSucceeded,
        WebhookFailed, WebhookDispute, WebhookStatus, WebhookRefunded, UpdateRefund,
        DisburseRead, RequestAdvance, ReviewAdvance, SetAdvance
  <2>3. CASE Authorize \/ Decline \/ Chargeback \/ UNCHANGED vars
    BY <2>3 DEF Authorize, Decline, Chargeback, StripeEvent, vars
  <2>4. QED
    BY <2>1, <2>2, <2>3 DEF Next
<1>2. QED
  BY <1>0, <1>1 DEF EventsReached, Grows

(* Whatever writes the row writes what has happened at Stripe.              *)
LEMMA RowStep ==
    ASSUME IInv, Grows, TypeOK', [Next]_vars
    PROVE  ReleasedWasTransferred' /\ RefundNeverOverstated'
<1> DEFINE Kept == refundAmount' = refundAmount
           NotClaimed == status' \notin {"released", "refunded"}
<1>0. /\ refunded \in 0..Amount /\ refunded' \in 0..Amount
      /\ refundAmount \in 0..Amount
      /\ transfers \in Nat /\ transfers' \in Nat
  BY DEF IInv, TypeOK, RowOK, StripeOK
<1>1. ASSUME Kept, NotClaimed
      PROVE  ReleasedWasTransferred' /\ RefundNeverOverstated'
  BY <1>0, <1>1, PaymentAssumption
  DEF IInv, ReleasedWasTransferred, RefundNeverOverstated, Grows
<1>2. ASSUME Kept, status' = status
      PROVE  ReleasedWasTransferred' /\ RefundNeverOverstated'
  <2>1. ReleasedWasTransferred'
    BY <1>0, <1>2 DEF IInv, ReleasedWasTransferred, Grows
  <2>2. RefundNeverOverstated'
    BY <1>0, <1>2, PaymentAssumption DEF IInv, RefundNeverOverstated, Grows
  <2>3. QED
    BY <2>1, <2>2
<1>3. ASSUME NEW cents \in 0..Amount, cents <= refunded, UpdateRefund(cents)
      PROVE  ReleasedWasTransferred' /\ RefundNeverOverstated'
  BY <1>0, <1>3, PaymentAssumption
  DEF UpdateRefund, RefundStatus, stripeVars, ReleasedWasTransferred,
      RefundNeverOverstated
<1>4. ASSUME NEW h \in Handlers, UpdatePaymentStatus(h)
      PROVE  ReleasedWasTransferred' /\ RefundNeverOverstated'
  <2>1. \/ loc[h].to \in {"escrow", "failed"}
        \/ loc[h].to = "released" /\ transfers > 0 /\ transferRecorded
    BY <1>4 DEF UpdatePaymentStatus, IInv, InFlight, Carried
  <2>2. ReleasedWasTransferred'
    BY <1>4, <2>1 DEF UpdatePaymentStatus, stripeVars, ReleasedWasTransferred
  <2>3. RefundNeverOverstated'
    BY <1>4, <2>1 DEF UpdatePaymentStatus, stripeVars, IInv, RefundNeverOverstated
  <2>4. QED
    BY <2>2, <2>3
<1>5. ASSUME NEW h \in Handlers, RecordRefund(h)
      PROVE  ReleasedWasTransferred' /\ RefundNeverOverstated'
  <2>1. PICK cents : cents = IF loc[h].ask = 0 THEN Amount ELSE loc[h].ask
    OBVIOUS
  <2>2. loc[h].ask \in 0..Amount
    BY DEF IInv, TypeOK, RequestOK, Locals
  <2>3. loc[h].ask <= refunded /\ (loc[h].ask = 0 => refunded = Amount)
    BY <1>5 DEF RecordRefund, IInv, InFlight, Carried
  <2>4. cents \in 0..Amount /\ cents <= refunded
    BY <1>0, <2>1, <2>2, <2>3, PaymentAssumption
  <2>5. UpdateRefund(cents)
    BY <1>5, <2>1 DEF RecordRefund
  <2>6. QED
    BY <1>3, <2>4, <2>5
<1>6. ASSUME NEW h \in Handlers, NEW total \in refundEvents, WebhookRefunded(h, total)
      PROVE  ReleasedWasTransferred' /\ RefundNeverOverstated'
  <2>1. total \in 0..Amount /\ total <= refunded
    BY DEF IInv, TypeOK, StripeOK, EventsReached
  <2>2. QED
    BY <1>3, <1>6, <2>1 DEF WebhookRefunded
<1>7. ASSUME NEW h \in Handlers, HandlerStep(h) \/ Abort(h),
             ~UpdatePaymentStatus(h), ~RecordRefund(h)
      PROVE  Kept /\ (NotClaimed \/ status' = status)
  BY <1>7
  DEF HandlerStep, Abort, rowVars, CreateIntent, RecordIntent, ProcessMark, Capture,
      CaptureRefused, ReleaseAdvances, UpdateAdvanceRepayment, RepaymentFails,
      CreateTransfer, RecordTransfer, StripeRefund, RefundRefused,
      CreatePlatformTransfer, DisburseRecord, SetAdvance, DisburseRefused
<1>8. ASSUME NEW h \in Handlers, Request(h),
             ~\E total \in refundEvents : WebhookRefunded(h, total)
      PROVE  Kept /\ (NotClaimed \/ status' = status)
  BY <1>8
  DEF Request, rowVars, CreateInsert, ProcessRead, ReleaseRead, RefundRead,
      WebhookSucceeded, WebhookFailed, WebhookDispute, WebhookStatus, DisburseRead,
      RequestAdvance, ReviewAdvance, SetAdvance
<1>9. ASSUME Authorize \/ Decline \/ Chargeback \/ UNCHANGED vars
      PROVE  Kept /\ status' = status
  BY <1>9 DEF Authorize, Decline, Chargeback, StripeEvent, vars, rowVars
<1> HIDE DEF Kept, NotClaimed
<1>10. QED
  BY <1>1, <1>2, <1>4, <1>5, <1>6, <1>7, <1>8, <1>9 DEF Next

-----------------------------------------------------------------------------
(* The inductive invariant holds in every reachable state.                  *)
THEOREM Invariance == Spec => []IInv
<1>1. IInv /\ [Next]_vars => IInv'
  <2> SUFFICES ASSUME IInv, [Next]_vars PROVE IInv'
    OBVIOUS
  <2>1. TypeOK'
    BY TypeStep DEF IInv
  <2>2. Grows
    BY GrowsStep DEF IInv
  <2>3. InFlight'
    BY <2>1, <2>2, CarryStep DEF IInv
  <2>4. EventsReached'
    BY <2>1, <2>2, EventsStep DEF IInv
  <2>5. ReleasedWasTransferred' /\ RefundNeverOverstated'
    BY <2>1, <2>2, RowStep
  <2>6. RepaymentsAccounted'
    BY RepaymentStep DEF IInv
  <2>7. QED
    BY <2>1, <2>3, <2>4, <2>5, <2>6 DEF IInv
<1>2. QED
  BY InitIInv, <1>1, PTL DEF Spec

(* The columns of the payment and the advances, Stripe's totals and the     *)
(* locals of the handlers keep their types.                                 *)
THEOREM TypeCorrect == Spec => []TypeOK
<1>1. IInv => TypeOK
  BY DEF IInv
<1>2. QED
  BY <1>1, Invariance, PTL

(* ReleaseEscrow: a payment shown as released was transferred.              *)
THEOREM ReleaseSafe == Spec => []ReleasedWasTransferred
<1>1. IInv => ReleasedWasTransferred
  BY DEF IInv
<1>2. QED
  BY <1>1, Invariance, PTL

(* CreateRefund and charge.refunded: the row never claims more than Stripe  *)
(* has refunded.                                                            *)
THEOREM RefundSafe == Spec => []RefundNeverOverstated
<1>1. IInv => RefundNeverOverstated
  BY DEF IInv
<1>2. QED
  BY <1>1, Invariance, PTL

(* UpdateAdvanceRepayment: column, rows and status of an advance agree.     *)
THEOREM RepaymentSafe == Spec => []RepaymentsAccounted
<1>1. IInv => RepaymentsAccounted
  BY DEF IInv
<1>2. QED
  BY <1>1, Invariance, PTL

(* No request brings an advance back to a status it has left.               *)
THEOREM AdvancesOnlyForward == Spec => AdvanceForward
<1> DEFINE Onward == \A a \in Ids : advance'[a] # advance[a] =>
                       <<advance[a], advance'[a]>> \in
                           {<<"none", "requested">>, <<"approved", "disbursed">>}
                           \cup ({"requested"} \X {"approved", "rejected"})
                           \cup ({"disbursed"} \X {"repaying", "repaid"})
                           \cup {<<"repaying", "repaid">>}
<1>1. IInv /\ [Next]_vars => [Onward]_vars
  BY ForwardStep DEF IInv, Forward
<1>2. QED
  BY <1>1, Invariance, PTL DEF Spec, AdvanceForward

-----------------------------------------------------------------------------
(* The money.  A release in progress holds what it has withheld so far and  *)
(* has not left out of a transfer yet.  held[S] is what the requests of S   *)
(* hold together: the only thing a sum must do is to grow by a request's    *)
(* own share when the request joins.                                        *)
Sums(held, share) ==
    /\ held \in [SUBSET Handlers -> Nat]
    /\ \A S \in SUBSET Handlers, h \in Handlers :
          h \notin S => held[S \cup {h}] = held[S] + share[h]

Share == [h \in Handlers |-> loc[h].total]

(* Every transfer so far, and what the releases in progress hold, is paid   *)
(* for by the money transferred and the money withheld.                     *)
MoneyHeld ==
    \E held : /\ Sums(held, Share)
              /\ Payout * transfers + held[Handlers] <= transferred + withheld

(* When the share of one request changes, the sums change with it.          *)
LEMMA OneShareChanges ==
    ASSUME NEW share \in [Handlers -> Nat], NEW held, Sums(held, share),
           NEW h \in Handlers, NEW share2 \in [Handlers -> Nat],
           \A g \in Handlers : g # h => share2[g] = share[g]
    PROVE  \E held2 : /\ Sums(held2, share2)
                      /\ held2[Handlers] = held[Handlers] - share[h] + share2[h]
<1> DEFINE held2 == [S \in SUBSET Handlers |->
                       IF h \in S THEN held[S] - share[h] + share2[h] ELSE held[S]]
<1>0. /\ held \in [SUBSET Handlers -> Nat] /\ share[h] \in Nat /\ share2[h] \in Nat
      /\ \A S \in SUBSET Handlers, g \in Handlers :
            g \notin S => held[S \cup {g}] = held[S] + share[g]
  BY DEF Sums
<1>1. ASSUME NEW S \in SUBSET Handlers, h \in S PROVE held[S] - share[h] \in Nat
  <2>1. /\ S \ {h} \in SUBSET Handlers /\ h \notin S \ {h}
        /\ (S \ {h}) \cup {h} = S
    BY <1>1
  <2>2. held[S] = held[S \ {h}] + share[h]
    BY <1>0, <2>1
  <2>3. held[S \ {h}] \in Nat
    BY <1>0, <2>1
  <2>4. QED
    BY <1>0, <2>2, <2>3
<1>2. held2 \in [SUBSET Handlers -> Nat]
  <2> SUFFICES ASSUME NEW S \in SUBSET Handlers
               PROVE  (IF h \in S THEN held[S] - share[h] + share2[h] ELSE held[S]) \in Nat
    BY DEF held2
  <2>1. CASE h \in S
    BY <1>0, <1>1, <2>1
  <2>2. CASE h \notin S
    BY <1>0, <2>2
  <2>3. QED
    BY <2>1, <2>2
<1>3. ASSUME NEW S \in SUBSET Handlers, NEW g \in Handlers, g \notin S
      PROVE  held2[S \cup {g}] = held2[S] + share2[g]
  <2>1. /\ S \cup {g} \in SUBSET Handlers
        /\ held[S \cup {g}] = held[S] + share[g]
        /\ held[S] \in Nat /\ share[g] \in Nat /\ share2[g] \in Nat
    BY <1>0, <1>3
  <2>2. CASE g = h
    <3>1. held2[S] = held[S]
      BY <1>3, <2>2 DEF held2
    <3>2. held2[S \cup {g}] = held[S \cup {g}] - share[h] + share2[h]
      BY <2>1, <2>2 DEF held2
    <3>3. QED
      BY <2>1, <2>2, <3>1, <3>2
  <2>3. CASE g # h /\ h \in S
    <3>1. held2[S] = held[S] - share[h] + share2[h]
      BY <2>3 DEF held2
    <3>2. held2[S \cup {g}] = held[S \cup {g}] - share[h] + share2[h]
      BY <2>1, <2>3 DEF held2
    <3>3. share2[g] = share[g]
      BY <2>3
    <3>4. QED
      BY <1>0, <2>1, <3>1, <3>2, <3>3
  <2>4. CASE g # h /\ h \notin S
    <3>1. held2[S] = held[S] /\ held2[S \cup {g}] = held[S \cup {g}]
      BY <2>1, <2>4 DEF held2
    <3>2. share2[g] = share[g]
      BY <2>4
    <3>3. QED
      BY <2>1, <3>1, <3>2
  <2>5. QED
    BY <2>2, <2>3, <2>4
<1>4. held2[Handlers] = held[Handlers] - share[h] + share2[h]
  BY DEF held2
<1> HIDE DEF held2
<1>5. Sums(held2, share2)
  BY <1>2, <1>3 DEF Sums
<1>6. QED
  BY <1>4, <1>5

(* What one step of a request h may do with money: let go of what it holds, *)
(* withhold what it then holds, or leave it out of a transfer.              *)
LetsGo(h) ==
    /\ UNCHANGED <<transfers, transferred, withheld>>
    /\ loc'[h].total <= loc[h].total
Withholds(h) ==
    /\ UNCHANGED <<transfers, transferred>>
    /\ \E d \in Nat : withheld' = withheld + d /\ loc'[h].total = loc[h].total + d
Transfers(h) ==
    /\ transfers' = transfers + 1
    /\ transferred' = transferred + (Payout - loc[h].total)
    /\ UNCHANGED withheld
    /\ loc'[h].total = 0
Moves(h) ==
    /\ \A g \in Handlers : g # h => loc'[g] = loc[g]
    /\ LetsGo(h) \/ Withholds(h) \/ Transfers(h)

(* The locals a request starts a step with hold nothing.                    *)
LEMMA FreshHoldNothing ==
    /\ NoLocal.total = 0
    /\ \A b : [NoLocal EXCEPT !.seen = b].total = 0
    /\ \A b, c : [NoLocal EXCEPT !.seen = b, !.ask = c].total = 0
    /\ \A s : [NoLocal EXCEPT !.to = s].total = 0
    /\ \A a : [NoLocal EXCEPT !.id = a].total = 0
    /\ \A due, pool : [NoLocal EXCEPT !.due = due, !.pool = pool].total = 0
  BY DEF NoLocal

(* A request that moves on holding no more than before lets go.             *)
LEMMA GotoLetsGo ==
    ASSUME TypeOK, NEW h \in Handlers, NEW step, NEW local, Goto(h, step, local),
           local.total = 0 \/ local.total = loc[h].total,
           UNCHANGED <<transfers, transferred, withheld>>
    PROVE  Moves(h)
<1>1. loc \in [Handlers -> Locals] /\ loc[h].total \in Nat
  BY DEF TypeOK, RequestOK, Locals
<1>2. loc'[h] = local /\ \A g \in Handlers : g # h => loc'[g] = loc[g]
  BY <1>1 DEF Goto
<1>3. QED
  BY <1>1, <1>2 DEF Moves, LetsGo

(* Every step is one of the three, by one request, or touches neither money *)
(* nor locals.                                                              *)
LEMMA MoneyStep ==
    ASSUME TypeOK, [Next]_vars
    PROVE  \/ UNCHANGED <<transfers, transferred, withheld, loc>>
           \/ \E h \in Handlers : Moves(h)
<1> DEFINE Goal == \/ UNCHANGED <<transfers, transferred, withheld, loc>>
                   \/ \E h \in Handlers : Moves(h)
<1> USE DEF stripeVars, advanceVars
<1>0. loc \in [Handlers -> Locals]
  BY DEF TypeOK, RequestOK
<1>1. ASSUME NEW h \in Handlers, Finish(h),
             UNCHANGED <<transfers, transferred, withheld>>
      PROVE  Moves(h)
  BY <1>1, GotoLetsGo, FreshHoldNothing DEF Finish
<1>2. ASSUME NEW h \in Handlers, Request(h) PROVE Goal
  <2>1. CASE CreateInsert(h) \/ ProcessRead(h) \/ WebhookSucceeded(h)
    BY <2>1, GotoLetsGo, FreshHoldNothing DEF CreateInsert, ProcessRead, WebhookSucceeded
  <2>2. CASE \E ask \in RefundRequests : RefundRead(h, ask)
    BY <2>2, GotoLetsGo, FreshHoldNothing DEF RefundRead
  <2>3. CASE \E a \in Ids : DisburseRead(h, a)
    BY <2>3, GotoLetsGo, FreshHoldNothing DEF DisburseRead
  <2>4. CASE \/ ReleaseRead(h) \/ WebhookFailed(h) \/ WebhookDispute(h)
             \/ \E total \in refundEvents : WebhookRefunded(h, total)
             \/ \E a \in Ids : \/ RequestAdvance(h, a)
                               \/ ReviewAdvance(h, a, "approved")
                               \/ ReviewAdvance(h, a, "rejected")
    BY <2>4
    DEF ReleaseRead, WebhookFailed, WebhookDispute, WebhookStatus, WebhookRefunded,
        UpdateRefund, RequestAdvance, ReviewAdvance, SetAdvance, reqVars
  <2>5. QED
    BY <1>2, <2>1, <2>2, <2>3, <2>4 DEF Request
<1>3. ASSUME NEW h \in Handlers, HandlerStep(h) PROVE Goal
  <2>1. CASE \/ CreateIntent(h) \/ RecordIntent(h) \/ ProcessMark(h)
             \/ CaptureRefused(h)
    BY <2>1, <1>1, GotoLetsGo, FreshHoldNothing
    DEF CreateIntent, RecordIntent, ProcessMark, CaptureRefused
  <2>2. CASE Capture(h)
    BY <2>2, GotoLetsGo, FreshHoldNothing DEF Capture
  <2>3. CASE \/ UpdatePaymentStatus(h) \/ RefundRefused(h) \/ RecordRefund(h)
             \/ DisburseRecord(h) \/ DisburseRefused(h)
    BY <2>3, <1>1
    DEF UpdatePaymentStatus, RefundRefused, RecordRefund, UpdateRefund,
        DisburseRecord, SetAdvance, DisburseRefused
  <2>4. CASE ReleaseAdvances(h)
    <3>1. PICK due \in {Remaining} \cup (IF MayFail THEN {NoDue} ELSE {}) :
             Goto(h, "release_repay",
                  [NoLocal EXCEPT !.due = due,
                                  !.pool = IF due = NoDue THEN 0 ELSE RepaymentPool])
      BY <2>4 DEF ReleaseAdvances
    <3> DEFINE local == [NoLocal EXCEPT !.due = due,
                                  !.pool = IF due = NoDue THEN 0 ELSE RepaymentPool]
    <3>2. local.total = 0
      BY DEF NoLocal
    <3>3. Goto(h, "release_repay", local)
      BY <3>1
    <3> HIDE DEF local
    <3>4. UNCHANGED <<transfers, transferred, withheld>>
      BY <2>4 DEF ReleaseAdvances
    <3>5. QED
      BY <3>2, <3>3, <3>4, GotoLetsGo
  <2>5. CASE UpdateAdvanceRepayment(h)
    <3>1. PICK a \in FirstDue(loc[h].due) :
             LET deduction == Deduction(loc[h].pool, loc[h].due[a])
             IN  /\ withheld' = withheld + deduction
                 /\ Goto(h, "release_repay", Deducted(loc[h], a, deduction))
      BY <2>5 DEF UpdateAdvanceRepayment
    <3> DEFINE d == Deduction(loc[h].pool, loc[h].due[a])
    <3>2. /\ loc[h] \in Locals /\ a \in Ids /\ loc[h].pool > 0 /\ loc[h].due[a] > 0
      BY <1>0, <2>5 DEF UpdateAdvanceRepayment, FirstDue
    <3>3. d \in Nat
      BY <3>2, LoopForms
    <3>4. Deducted(loc[h], a, d).total = loc[h].total + d
      BY <3>2 DEF Deducted, Locals
    <3>5. /\ loc'[h] = Deducted(loc[h], a, d)
          /\ \A g \in Handlers : g # h => loc'[g] = loc[g]
      BY <1>0, <3>1 DEF Goto
    <3>6. transfers' = transfers /\ transferred' = transferred
      BY <2>5 DEF UpdateAdvanceRepayment
    <3> HIDE DEF d
    <3>7. Withholds(h)
      BY <3>1, <3>3, <3>4, <3>5, <3>6 DEF Withholds, d
    <3>8. QED
      BY <3>5, <3>7 DEF Moves
  <2>6. CASE RepaymentFails(h)
    <3>1. PICK a \in FirstDue(loc[h].due) :
             Goto(h, "release_repay", Skipped(loc[h], a))
      BY <2>6 DEF RepaymentFails
    <3>2. Skipped(loc[h], a).total = loc[h].total
      BY <1>0 DEF Skipped, Locals
    <3>3. QED
      BY <2>6, <3>1, <3>2, GotoLetsGo DEF RepaymentFails
  <2>7. CASE CreateTransfer(h)
    <3>1. /\ loc'[h] = [NoLocal EXCEPT !.to = "released"]
          /\ \A g \in Handlers : g # h => loc'[g] = loc[g]
      BY <1>0, <2>7 DEF CreateTransfer, Goto
    <3>2. Transfers(h)
      BY <2>7, <3>1, FreshHoldNothing DEF CreateTransfer, Transfers
    <3>3. QED
      BY <3>1, <3>2 DEF Moves
  <2>8. CASE RecordTransfer(h) \/ StripeRefund(h) \/ CreatePlatformTransfer(h)
    BY <2>8, GotoLetsGo DEF RecordTransfer, StripeRefund, CreatePlatformTransfer
  <2>9. QED
    BY <1>3, <2>1, <2>2, <2>3, <2>4, <2>5, <2>6, <2>7, <2>8 DEF HandlerStep
<1>4. ASSUME NEW h \in Handlers, Abort(h) PROVE Goal
  BY <1>1, <1>4 DEF Abort
<1>5. CASE Authorize \/ Decline \/ Chargeback \/ UNCHANGED vars
  BY <1>5 DEF Authorize, Decline, Chargeback, StripeEvent, reqVars, vars
<1>6. QED
  BY <1>2, <1>3, <1>4, <1>5 DEF Next

(* Each of the three keeps the transfers paid for.                          *)
LEMMA MoneyHeldStep ==
    ASSUME TypeOK, TypeOK', MoneyHeld, [Next]_vars
    PROVE  MoneyHeld'
<1>0. /\ loc \in [Handlers -> Locals] /\ loc' \in [Handlers -> Locals]
      /\ Payout \in Nat /\ transfers \in Nat /\ transferred \in Nat /\ withheld \in Nat
  BY PaymentAssumption DEF TypeOK, RequestOK, StripeOK, AdvanceOK
<1>1. Share \in [Handlers -> Nat] /\ Share' \in [Handlers -> Nat]
  BY <1>0 DEF Share, Locals
<1>2. PICK held : /\ Sums(held, Share)
                  /\ Payout * transfers + held[Handlers] <= transferred + withheld
  BY DEF MoneyHeld
<1>3. held[Handlers] \in Nat
  BY <1>2 DEF Sums
<1>4. CASE UNCHANGED <<transfers, transferred, withheld, loc>>
  <2>1. Share' = Share
    BY <1>4 DEF Share
  <2>2. QED
    BY <1>2, <1>4, <2>1 DEF MoneyHeld
<1>5. ASSUME NEW h \in Handlers, Moves(h) PROVE MoneyHeld'
  <2>1. /\ \A g \in Handlers : g # h => Share'[g] = Share[g]
        /\ Share[h] = loc[h].total /\ Share'[h] = loc'[h].total
    BY <1>5 DEF Moves, Share
  <2>2. PICK held2 :
           /\ Sums(held2, Share')
           /\ held2[Handlers] = held[Handlers] - Share[h] + Share'[h]
    BY <1>1, <1>2, <2>1, OneShareChanges
  <2>3. /\ held2[Handlers] = held[Handlers] - loc[h].total + loc'[h].total
        /\ loc[h].total \in Nat /\ loc'[h].total \in Nat
    BY <1>0, <2>1, <2>2 DEF Locals
  <2>4. Payout * transfers' + held2[Handlers] <= transferred' + withheld'
    <3>0. Payout * transfers \in Nat
      BY <1>0
    <3>1. CASE LetsGo(h)
      BY <1>0, <1>2, <1>3, <2>3, <3>0, <3>1 DEF LetsGo
    <3>2. CASE Withholds(h)
      BY <1>0, <1>2, <1>3, <2>3, <3>0, <3>2 DEF Withholds
    <3>3. CASE Transfers(h)
      <4>1. Payout * transfers' = Payout * transfers + Payout
        BY <1>0, <3>3 DEF Transfers
      <4>2. QED
        BY <1>0, <1>2, <1>3, <2>3, <3>0, <3>3, <4>1 DEF Transfers
    <3>4. QED
      BY <1>5, <3>1, <3>2, <3>3 DEF Moves
  <2>5. QED
    BY <2>2, <2>4 DEF MoneyHeld
<1>6. QED
  BY <1>4, <1>5, MoneyStep

(* ReleaseEscrow: whatever the transfers to the provider fall short of the  *)
(* payout is in the repayment rows, for any number of releases at once, of  *)
(* advances, and of repayments and requests that fail halfway.              *)
THEOREM NothingWithheldIsLost == Spec => []ShortfallCredited
<1>1. Init => MoneyHeld
  <2> SUFFICES ASSUME Init PROVE MoneyHeld
    OBVIOUS
  <2> DEFINE held == [S \in SUBSET Handlers |-> 0]
  <2>1. Share = [h \in Handlers |-> 0]
    BY FreshHoldNothing DEF Init, Share
  <2>2. Sums(held, Share)
    BY <2>1 DEF Sums
  <2>3. Payout * transfers + held[Handlers] <= transferred + withheld
    BY PaymentAssumption DEF Init
  <2> HIDE DEF held
  <2>4. QED
    BY <2>2, <2>3 DEF MoneyHeld
<1>2. MoneyHeld /\ TypeOK => ShortfallCredited
  <2> SUFFICES ASSUME MoneyHeld, TypeOK PROVE ShortfallCredited
    OBVIOUS
  <2>1. PICK held : /\ Sums(held, Share)
                    /\ Payout * transfers + held[Handlers] <= transferred + withheld
    BY DEF MoneyHeld
  <2>2. /\ held[Handlers] \in Nat /\ Payout * transfers \in Nat
        /\ transferred \in Nat /\ withheld \in Nat
    BY <2>1, PaymentAssumption DEF Sums, TypeOK, StripeOK, AdvanceOK
  <2>3. QED
    BY <2>1, <2>2 DEF ShortfallCredited
<1>3. Spec => []MoneyHeld
  <2>1. TypeOK /\ TypeOK' /\ MoneyHeld /\ [Next]_vars => MoneyHeld'
    BY MoneyHeldStep
  <2>2. QED
    BY <1>1, <2>1, TypeCorrect, PTL DEF Spec
<1>4. QED
  BY <1>2, <1>3, TypeCorrect, PTL

-----------------------------------------------------------------------------
(* The lending.  What a request that pays an advance out, or withholds its  *)
(* repayment, knows of it: it was approved, its money has left, and no      *)
(* deduction is larger than the debt.                                       *)
Approved(s) == s = "approved" \/ Begun(s)

Lent(h) ==
    /\ pc[h] = "disburse_transfer" => Approved(advance[loc[h].id])
    /\ pc[h] = "disburse_record" => disbursed[loc[h].id] > 0
    /\ \A a \in Ids : loc[h].due[a] <= Owed[a]

PaidFirst == \A a \in Ids : Begun(advance[a]) => disbursed[a] > 0

LendInv == PaidFirst /\ \A h \in Handlers : Lent(h)

(* Only Stripe's transfers of advances count towards disbursed.             *)
LEMMA DisbursedChange ==
    ASSUME [Next]_vars
    PROVE  \/ \E h \in Handlers : CreatePlatformTransfer(h)
           \/ UNCHANGED disbursed
<1> USE DEF stripeVars
<1>1. ASSUME NEW h \in Handlers, HandlerStep(h), ~CreatePlatformTransfer(h)
      PROVE  UNCHANGED disbursed
  BY <1>1
  DEF HandlerStep, CreateIntent, RecordIntent, ProcessMark, Capture, CaptureRefused,
      UpdatePaymentStatus, ReleaseAdvances, UpdateAdvanceRepayment, RepaymentFails,
      CreateTransfer, RecordTransfer, StripeRefund, RefundRefused, RecordRefund,
      UpdateRefund, DisburseRecord, SetAdvance, DisburseRefused
<1>2. ASSUME NEW h \in Handlers, Request(h) \/ Abort(h) PROVE UNCHANGED disbursed
  BY <1>2
  DEF Request, Abort, CreateInsert, ProcessRead, ReleaseRead, RefundRead,
      WebhookSucceeded, WebhookFailed, WebhookDispute, WebhookStatus, WebhookRefunded,
      UpdateRefund, DisburseRead, RequestAdvance, ReviewAdvance, SetAdvance
<1>3. CASE Authorize \/ Decline \/ Chargeback \/ UNCHANGED vars
  BY <1>3 DEF Authorize, Decline, Chargeback, StripeEvent, vars
<1>4. QED
  BY <1>1, <1>2, <1>3 DEF Next

(* What was approved stays so, and what was paid out stays so.              *)
Lasts == \A a \in Ids : /\ Approved(advance[a]) => Approved(advance'[a])
                        /\ disbursed'[a] >= disbursed[a]

(* Approval and payment outlast every step, whoever takes it.               *)
LEMMA LastsStep ==
    ASSUME IInv, [Next]_vars
    PROVE  Lasts
<1>1. \A a \in Ids : Forward(advance[a], advance'[a])
  BY ForwardStep DEF IInv
<1>2. disbursed \in [Ids -> Nat]
  BY DEF IInv, TypeOK, StripeOK
<1>3. \A a \in Ids : disbursed'[a] >= disbursed[a]
  BY <1>2, DisbursedChange DEF CreatePlatformTransfer
<1>4. \A a \in Ids : Approved(advance[a]) => Approved(advance'[a])
  BY <1>1 DEF Forward, Approved, Begun, Active
<1>5. QED
  BY <1>3, <1>4 DEF Lasts

(* What a request knows of an advance stays true while others move.         *)
LEMMA OthersLent ==
    ASSUME TypeOK, Lasts, NEW g \in Handlers, Lent(g), TypeOK',
           pc'[g] = pc[g], loc'[g] = loc[g]
    PROVE  Lent(g)'
<1>1. pc[g] \in {"disburse_transfer", "disburse_record"} => loc[g].id \in Ids
  BY DEF TypeOK, RequestOK
<1>2. disbursed \in [Ids -> Nat] /\ disbursed' \in [Ids -> Nat]
  BY DEF TypeOK, StripeOK
<1>3. QED
  BY <1>1, <1>2 DEF Lent, Lasts

(* A request that moves on knows what its next step relies on.              *)
LEMMA GotoLent ==
    ASSUME TypeOK, TypeOK', Lasts, LendInv,
           NEW h \in Handlers, NEW step, NEW local, Goto(h, step, local),
           step = "disburse_transfer" => Approved(advance'[local.id]),
           step = "disburse_record" => disbursed'[local.id] > 0,
           \A a \in Ids : local.due[a] <= Owed[a]
    PROVE  \A g \in Handlers : Lent(g)'
<1>1. pc \in [Handlers -> Steps] /\ loc \in [Handlers -> Locals]
  BY DEF TypeOK, RequestOK
<1>2. pc'[h] = step /\ loc'[h] = local
  BY <1>1 DEF Goto
<1>3. Lent(h)'
  BY <1>2 DEF Lent
<1>4. \A g \in Handlers : g # h => pc'[g] = pc[g] /\ loc'[g] = loc[g]
  BY <1>1 DEF Goto
<1>5. QED
  BY <1>3, <1>4, OthersLent DEF LendInv

(* A debt is positive, and locals that owe nothing are within it.           *)
LEMMA NothingDue ==
    /\ \A a \in Ids : Owed[a] \in Nat /\ Owed[a] > 0
    /\ \A a \in Ids : NoLocal.due[a] <= Owed[a]
  BY PaymentAssumption DEF NoLocal, NoDue

(* The locals a request starts a step with owe nothing.                     *)
LEMMA FreshOweNothing ==
    /\ \A b : [NoLocal EXCEPT !.seen = b].due = NoLocal.due
    /\ \A b, c : [NoLocal EXCEPT !.seen = b, !.ask = c].due = NoLocal.due
    /\ \A s : [NoLocal EXCEPT !.to = s].due = NoLocal.due
    /\ \A a : [NoLocal EXCEPT !.id = a].due = NoLocal.due
  BY DEF NoLocal

(* Nothing is deducted that is not owed: the SELECT returns what remains,   *)
(* and the loop only strikes entries out.                                   *)
LEMMA DueWithinDebt ==
    ASSUME TypeOK, NEW h \in Handlers, Lent(h),
           ReleaseAdvances(h) \/ UpdateAdvanceRepayment(h) \/ RepaymentFails(h)
    PROVE  \E local : /\ Goto(h, "release_repay", local)
                      /\ \A a \in Ids : local.due[a] <= Owed[a]
<1>0. loc[h] \in Locals /\ loc[h].due \in [Ids -> Nat]
  BY DEF TypeOK, RequestOK, Locals
<1>1. CASE ReleaseAdvances(h)
  <2>1. PICK due \in {Remaining} \cup (IF MayFail THEN {NoDue} ELSE {}) :
           Goto(h, "release_repay",
                [NoLocal EXCEPT !.due = due,
                                !.pool = IF due = NoDue THEN 0 ELSE RepaymentPool])
    BY <1>1 DEF ReleaseAdvances
  <2>2. PICK local : local = [NoLocal EXCEPT !.due = due,
                                 !.pool = IF due = NoDue THEN 0 ELSE RepaymentPool]
    OBVIOUS
  <2>3. local.due = due
    BY <2>2 DEF NoLocal
  <2>4. \A a \in Ids : Remaining[a] <= Owed[a] /\ NoDue[a] <= Owed[a]
    BY NothingDue DEF Remaining, NoDue, TypeOK, AdvanceOK
  <2>5. QED
    BY <2>1, <2>2, <2>3, <2>4
<1>2. ASSUME NEW a \in FirstDue(loc[h].due), NEW local, Goto(h, "release_repay", local),
             local.due = [loc[h].due EXCEPT ![a] = 0]
      PROVE  \A b \in Ids : local.due[b] <= Owed[b]
  BY <1>0, <1>2, NothingDue DEF Lent
<1>3. CASE UpdateAdvanceRepayment(h)
  <2>1. PICK a \in FirstDue(loc[h].due) :
           Goto(h, "release_repay",
                Deducted(loc[h], a, Deduction(loc[h].pool, loc[h].due[a])))
    BY <1>3 DEF UpdateAdvanceRepayment
  <2>2. \A d : Deducted(loc[h], a, d).due = [loc[h].due EXCEPT ![a] = 0]
    BY <1>0 DEF Deducted, Locals
  <2>3. QED
    BY <1>2, <2>1, <2>2
<1>4. CASE RepaymentFails(h)
  <2>1. PICK a \in FirstDue(loc[h].due) : Goto(h, "release_repay", Skipped(loc[h], a))
    BY <1>4 DEF RepaymentFails
  <2>2. Skipped(loc[h], a).due = [loc[h].due EXCEPT ![a] = 0]
    BY <1>0 DEF Skipped, Locals
  <2>3. QED
    BY <1>2, <2>1, <2>2
<1>5. QED
  BY <1>1, <1>3, <1>4

(* Handlers know only what is true of the advances.                         *)
LEMMA LentStep ==
    ASSUME TypeOK, TypeOK', Lasts, LendInv, [Next]_vars
    PROVE  \A g \in Handlers : Lent(g)'
<1> DEFINE Goal == \A g \in Handlers : Lent(g)'
<1>0. /\ intentRecorded \in BOOLEAN /\ loc \in [Handlers -> Locals]
      /\ pc \in [Handlers -> Steps]
  BY DEF TypeOK, RowOK, RequestOK
<1>1. ASSUME UNCHANGED <<pc, loc>> PROVE Goal
  BY <1>1, OthersLent DEF LendInv
<1>2. ASSUME NEW h \in Handlers, NEW step, NEW local, Goto(h, step, local),
             step # "disburse_transfer", step # "disburse_record",
             local.due = NoLocal.due \/ local.due = loc[h].due
      PROVE  Goal
  <2>1. \A a \in Ids : local.due[a] <= Owed[a]
    BY <1>2, NothingDue DEF LendInv, Lent
  <2>2. QED
    BY <1>2, <2>1, GotoLent
<1>3. ASSUME NEW h \in Handlers, Finish(h) PROVE Goal
  BY <1>2, <1>3 DEF Finish
<1> HIDE DEF Goal
<1>4. ASSUME NEW h \in Handlers, Request(h) PROVE Goal
  <2>1. CASE CreateInsert(h) \/ ProcessRead(h) \/ WebhookSucceeded(h)
    BY <1>2, <2>1, FreshOweNothing DEF CreateInsert, ProcessRead, WebhookSucceeded
  <2>2. CASE \E ask \in RefundRequests : RefundRead(h, ask)
    BY <1>2, <2>2, FreshOweNothing DEF RefundRead
  <2>3. CASE ReleaseRead(h)
    <3>1. /\ loc' = loc /\ pc'[h] = "release_advances"
          /\ \A g \in Handlers : g # h => pc'[g] = pc[g]
      BY <1>0, <2>3 DEF ReleaseRead
    <3>2. Lent(h)'
      BY <3>1 DEF LendInv, Lent
    <3>3. QED
      BY <3>1, <3>2, OthersLent DEF LendInv, Goal
  <2>4. CASE \E a \in Ids : DisburseRead(h, a)
    <3>1. PICK a \in Ids : DisburseRead(h, a)
      BY <2>4
    <3>2. PICK local : local = [NoLocal EXCEPT !.id = a]
      OBVIOUS
    <3>3. local.id = a /\ local.due = NoLocal.due
      BY <3>2 DEF NoLocal
    <3>4. Goto(h, "disburse_transfer", local) /\ Approved(advance'[a])
      BY <3>1, <3>2 DEF DisburseRead, Approved, advanceVars
    <3>5. QED
      BY <3>3, <3>4, GotoLent, NothingDue DEF Goal
  <2>5. CASE \/ WebhookFailed(h) \/ WebhookDispute(h)
             \/ \E total \in refundEvents : WebhookRefunded(h, total)
             \/ \E a \in Ids : \/ RequestAdvance(h, a)
                               \/ ReviewAdvance(h, a, "approved")
                               \/ ReviewAdvance(h, a, "rejected")
    BY <1>1, <2>5
    DEF WebhookFailed, WebhookDispute, WebhookStatus, WebhookRefunded, RequestAdvance,
        ReviewAdvance, reqVars
  <2>6. QED
    BY <1>4, <2>1, <2>2, <2>3, <2>4, <2>5 DEF Request
<1>5. ASSUME NEW h \in Handlers, HandlerStep(h) PROVE Goal
  <2>1. CASE \/ CreateIntent(h) \/ RecordIntent(h) \/ ProcessMark(h) \/ Capture(h)
             \/ CaptureRefused(h) \/ CreateTransfer(h)
    BY <1>2, <1>3, <2>1, FreshOweNothing
    DEF CreateIntent, RecordIntent, ProcessMark, AfterMark, Capture, CaptureRefused,
        CreateTransfer
  <2>2. CASE \/ UpdatePaymentStatus(h) \/ RefundRefused(h) \/ RecordRefund(h)
             \/ DisburseRecord(h) \/ DisburseRefused(h)
    BY <1>3, <2>2
    DEF UpdatePaymentStatus, RefundRefused, RecordRefund, DisburseRecord, DisburseRefused
  <2>3. CASE ReleaseAdvances(h) \/ UpdateAdvanceRepayment(h) \/ RepaymentFails(h)
    BY <2>3, DueWithinDebt, GotoLent DEF LendInv, Goal
  <2>4. CASE RecordTransfer(h) \/ StripeRefund(h)
    BY <1>2, <2>4 DEF RecordTransfer, StripeRefund
  <2>5. CASE CreatePlatformTransfer(h)
    <3>1. loc[h].id \in Ids
      BY <2>5 DEF CreatePlatformTransfer, TypeOK, RequestOK
    <3>2. disbursed'[loc[h].id] > 0
      BY <2>5, <3>1 DEF CreatePlatformTransfer, TypeOK, StripeOK
    <3>3. Goto(h, "disburse_record", loc[h])
      BY <2>5 DEF CreatePlatformTransfer
    <3>4. \A a \in Ids : loc[h].due[a] <= Owed[a]
      BY DEF LendInv, Lent
    <3>5. QED
      BY <3>2, <3>3, <3>4, GotoLent DEF Goal
  <2>6. QED
    BY <1>5, <2>1, <2>2, <2>3, <2>4, <2>5 DEF HandlerStep
<1>6. ASSUME NEW h \in Handlers, Abort(h) PROVE Goal
  BY <1>3, <1>6 DEF Abort
<1>7. CASE Authorize \/ Decline \/ Chargeback \/ UNCHANGED vars
  BY <1>1, <1>7 DEF Authorize, Decline, Chargeback, StripeEvent, vars, reqVars, Goal
<1>8. QED
  BY <1>4, <1>5, <1>6, <1>7 DEF Next, Goal

(* An advance is disbursed only when its money has left.                    *)
LEMMA LendInvStep ==
    ASSUME IInv, LendInv, [Next]_vars, TypeOK'
    PROVE  LendInv'
<1>0. /\ advance \in [Ids -> AdvanceStatuses]
      /\ disbursed \in [Ids -> Nat] /\ disbursed' \in [Ids -> Nat]
  BY DEF IInv, TypeOK, AdvanceOK, StripeOK
<1>1. Lasts
  BY LastsStep
<1>2. \A g \in Handlers : Lent(g)'
  BY <1>1, LentStep DEF IInv
<1>3. ASSUME NEW a \in Ids, Begun(advance'[a]) PROVE disbursed'[a] > 0
  <2>1. CASE Begun(advance[a])
    BY <1>0, <1>1, <2>1 DEF LendInv, PaidFirst, Lasts
  <2>2. CASE ~Begun(advance[a])
    <3>1. advance[a] = "approved" /\ advance'[a] = "disbursed"
      BY <1>3, <2>2, ForwardStep DEF IInv, Forward, Begun, Active
    <3>2. PICK h \in Handlers : DisburseRecord(h) /\ loc[h].id = a
      <4>1. ASSUME NEW h \in Handlers, UpdateAdvanceRepayment(h) PROVE FALSE
        <5>1. PICK b \in Ids, d \in Nat :
                 /\ Begun(advance[b])
                 /\ advance' = [advance EXCEPT ![b] = StatusRepaid(b, repaid[b] + d)]
          BY <4>1, RepayEffect DEF IInv
        <5>2. QED
          BY <1>0, <2>2, <3>1, <5>1
      <4>2. ASSUME NEW h \in Handlers, DisburseRecord(h) PROVE loc[h].id = a
        BY <1>0, <3>1, <4>2 DEF DisburseRecord, SetAdvance
      <4>3. ASSUME NEW h \in Handlers, NEW b \in Ids,
                   \/ RequestAdvance(h, b)
                   \/ ReviewAdvance(h, b, "approved") \/ ReviewAdvance(h, b, "rejected")
            PROVE  FALSE
        BY <1>0, <3>1, <4>3 DEF RequestAdvance, ReviewAdvance, SetAdvance
      <4>4. CASE UNCHANGED advanceVars
        BY <3>1, <4>4 DEF advanceVars
      <4>5. QED
        BY <4>1, <4>2, <4>3, <4>4, AdvanceVarsChange
    <3>3. disbursed[a] > 0
      BY <3>2 DEF DisburseRecord, LendInv, Lent
    <3>4. QED
      BY <1>0, <1>1, <3>3 DEF Lasts
  <2>3. QED
    BY <2>1, <2>2
<1>4. QED
  BY <1>2, <1>3 DEF LendInv, PaidFirst

(* So does every reachable state.                                          *)
LEMMA LendInvHolds == Spec => []LendInv
<1>1. Init => LendInv
  <2> SUFFICES ASSUME Init PROVE LendInv
    OBVIOUS
  <2>1. PaidFirst
    BY DEF Init, PaidFirst, Begun, Active
  <2>2. \A h \in Handlers : Lent(h)
    BY NothingDue DEF Init, Lent
  <2>3. QED
    BY <2>1, <2>2 DEF LendInv
<1>2. IInv /\ TypeOK' /\ LendInv /\ [Next]_vars => LendInv'
  BY LendInvStep
<1>3. QED
  BY <1>1, <1>2, Invariance, TypeCorrect, PTL DEF Spec

(* The transfer of an advance is its paying out, if it is the first.        *)
LEMMA PaysOut ==
    ASSUME IInv, LendInv, NEW h \in Handlers, CreatePlatformTransfer(h)
    PROVE  Books!Next \/ UNCHANGED Books!vars
<1>0. PICK a : a = loc[h].id
  OBVIOUS
<1>1. /\ a \in Ids /\ disbursed \in [Ids -> Nat]
      /\ pc[h] = "disburse_transfer" /\ disbursed' = [disbursed EXCEPT ![a] = @ + 1]
      /\ UNCHANGED <<advance, repaid, withheld, transfers, transferred>>
  BY <1>0 DEF IInv, TypeOK, RequestOK, StripeOK, CreatePlatformTransfer, advanceVars
<1>2. Approved(advance[a])
  BY <1>0, <1>1 DEF LendInv, Lent
<1>3. CASE disbursed[a] > 0
  <2>1. \A b \in Ids : disbursed'[b] > 0 <=> disbursed[b] > 0
    BY <1>1, <1>3
  <2>2. [b \in Ids |-> disbursed'[b] > 0] = [b \in Ids |-> disbursed[b] > 0]
    BY <2>1
  <2>3. QED
    BY <1>1, <2>2 DEF Books!vars
<1>4. CASE ~(disbursed[a] > 0)
  <2>1. advance[a] = "approved"
    BY <1>1, <1>2, <1>4 DEF Approved, LendInv, PaidFirst
  <2>2. \A b \in Ids : disbursed'[b] > 0 <=> (b = a \/ disbursed[b] > 0)
    BY <1>1
  <2>3. [b \in Ids |-> disbursed'[b] > 0]
          = [[b \in Ids |-> disbursed[b] > 0] EXCEPT ![a] = TRUE]
    BY <1>1, <2>2
  <2>4. Books!PayOut(a)
    BY <1>1, <2>1, <2>3 DEF Books!PayOut
  <2>5. QED
    BY <1>1, <2>4 DEF Books!Next
<1>5. QED
  BY <1>3, <1>4

(* A repayment in the loop of a release is one of the lending.              *)
LEMMA RepaysOne ==
    ASSUME IInv, LendInv, NEW h \in Handlers, UpdateAdvanceRepayment(h)
    PROVE  Books!Next
<1>0. /\ advance \in [Ids -> AdvanceStatuses] /\ repaid \in [Ids -> Nat]
      /\ loc[h] \in Locals /\ Carried(h) /\ Lent(h)
  BY DEF IInv, TypeOK, AdvanceOK, RequestOK, InFlight, LendInv
<1>1. PICK a \in FirstDue(loc[h].due) :
         LET d == Deduction(loc[h].pool, loc[h].due[a])
             c == Repay(a, loc[h].due, d)
         IN  /\ repaid' = [repaid EXCEPT ![a] = c]
             /\ advance' = [advance EXCEPT ![a] = StatusRepaid(a, c)]
             /\ withheld' = withheld + d
  BY DEF UpdateAdvanceRepayment
<1>2. PICK d : d = Deduction(loc[h].pool, loc[h].due[a])
  OBVIOUS
<1>3. a \in Ids /\ loc[h].due[a] > 0 /\ loc[h].pool > 0
  BY DEF FirstDue, UpdateAdvanceRepayment
<1>4. d \in 1..Owed[a]
  <2>1. /\ loc[h].pool \in Nat /\ loc[h].due[a] \in Nat
        /\ loc[h].due[a] <= Owed[a] /\ Owed[a] \in Nat
    BY <1>0, <1>3, NothingDue DEF Locals, Lent
  <2>2. QED
    BY <1>2, <1>3, <2>1 DEF Deduction
<1>5. Begun(advance[a])
  BY <1>0, <1>3 DEF Carried
<1>6. /\ repaid' = [repaid EXCEPT ![a] = repaid[a] + d]
      /\ advance' = [advance EXCEPT ![a] = StatusRepaid(a, repaid[a] + d)]
      /\ withheld' = withheld + d
      /\ repaid'[a] = repaid[a] + d
  BY <1>0, <1>1, <1>2, <1>3 DEF Repay
<1>7. StatusRepaid(a, repaid[a] + d)
        = IF repaid'[a] >= Owed[a] THEN "repaid" ELSE "repaying"
  <2>1. CASE repaid[a] + d >= Owed[a]
    BY <1>6, <2>1 DEF StatusRepaid
  <2>2. CASE ~(repaid[a] + d >= Owed[a])
    <3>1. ~(repaid[a] >= Owed[a])
      BY <1>0, <1>3, <1>4, <2>2, NothingDue
    <3>2. advance[a] # "repaid"
      BY <1>3, <3>1 DEF IInv, RepaymentsAccounted
    <3>3. QED
      BY <1>5, <1>6, <2>2, <3>2 DEF StatusRepaid, Begun, Active
  <2>3. QED
    BY <2>1, <2>2
<1>8. UNCHANGED <<disbursed, transfers, transferred>>
  BY DEF UpdateAdvanceRepayment, stripeVars
<1>9. Books!Repay(a)
  BY <1>4, <1>5, <1>6, <1>7, <1>8 DEF Books!Repay, Begun, Active
<1>10. QED
  BY <1>3, <1>9 DEF Books!Next

(* Every step of the service is one of the lending or hidden from it.       *)
LEMMA StepLends ==
    ASSUME IInv, LendInv, ShortfallCredited', [Next]_vars
    PROVE  [Books!Next]_(Books!vars)
<1> DEFINE Goal == Books!Next \/ UNCHANGED Books!vars
<1> USE DEF stripeVars, advanceVars
<1>1. ASSUME UNCHANGED <<advance, disbursed, repaid, withheld, transfers, transferred>>
      PROVE  Goal
  BY <1>1 DEF Books!vars
<1> HIDE DEF Goal
<1>2. ASSUME NEW a \in Ids, NEW from, NEW to, Books!Becomes(a, from, to),
             \/ from = "none" /\ to = "requested"
             \/ from = "requested" /\ to \in {"approved", "rejected"}
             \/ from = "approved" /\ to = "disbursed" /\ disbursed[a] > 0
      PROVE  Goal
  BY <1>2 DEF Goal, Books!Next
<1>3. ASSUME NEW a \in Ids, NEW to, NEW from, advance[a] = from, SetAdvance(a, to)
      PROVE  Books!Becomes(a, from, to)
  BY <1>3 DEF SetAdvance, Books!Becomes
<1>4. ASSUME NEW h \in Handlers, Request(h) PROVE Goal
  <2>1. ASSUME NEW a \in Ids,
               \/ RequestAdvance(h, a)
               \/ ReviewAdvance(h, a, "approved") \/ ReviewAdvance(h, a, "rejected")
        PROVE  Goal
    BY <1>2, <1>3, <2>1 DEF RequestAdvance, ReviewAdvance
  <2>2. CASE ~\E a \in Ids : \/ RequestAdvance(h, a)
                             \/ ReviewAdvance(h, a, "approved")
                             \/ ReviewAdvance(h, a, "rejected")
    BY <1>1, <1>4, <2>2
    DEF Request, CreateInsert, ProcessRead, ReleaseRead, RefundRead, WebhookSucceeded,
        WebhookFailed, WebhookDispute, WebhookStatus, WebhookRefunded, UpdateRefund,
        DisburseRead
  <2>3. QED
    BY <2>1, <2>2
<1>5. ASSUME NEW h \in Handlers, HandlerStep(h) PROVE Goal
  <2>1. CASE UpdateAdvanceRepayment(h)
    BY <2>1, RepaysOne DEF Goal
  <2>2. CASE CreatePlatformTransfer(h)
    BY <2>2, PaysOut DEF Goal
  <2>3. CASE DisburseRecord(h)
    <3>1. PICK a : a = loc[h].id
      OBVIOUS
    <3>2. /\ a \in Ids /\ disbursed[a] > 0 /\ advance[a] = "approved"
          /\ SetAdvance(a, "disbursed")
      BY <2>3, <3>1
      DEF DisburseRecord, MayDisburse, LendInv, Lent, IInv, TypeOK, RequestOK
    <3>3. QED
      BY <1>2, <1>3, <3>2
  <2>4. CASE CreateTransfer(h)
    <3>1. PICK short : short = loc[h].total
      OBVIOUS
    <3>2. /\ transfers' = transfers + 1 /\ transferred' = transferred + (Payout - short)
          /\ UNCHANGED <<advance, disbursed, repaid, withheld>>
      BY <2>4, <3>1 DEF CreateTransfer
    <3>3. short \in 0..Payout
      <4>1. loc[h] \in Locals /\ Carried(h)
        BY DEF IInv, TypeOK, RequestOK, InFlight
      <4>2. QED
        BY <3>1, <4>1, PaymentAssumption DEF Locals, Carried
    <3>4. Payout * transfers' <= transferred' + withheld
      BY <3>2 DEF ShortfallCredited
    <3>5. Books!Transfer
      BY <3>2, <3>3, <3>4 DEF Books!Transfer
    <3>6. QED
      BY <3>5 DEF Goal, Books!Next
  <2>5. CASE ~(\/ UpdateAdvanceRepayment(h) \/ CreatePlatformTransfer(h)
               \/ DisburseRecord(h) \/ CreateTransfer(h))
    BY <1>1, <1>5, <2>5
    DEF HandlerStep, CreateIntent, RecordIntent, ProcessMark, Capture, CaptureRefused,
        UpdatePaymentStatus, ReleaseAdvances, RepaymentFails, RecordTransfer,
        StripeRefund, RefundRefused, RecordRefund, UpdateRefund, DisburseRefused
  <2>6. QED
    BY <2>1, <2>2, <2>3, <2>4, <2>5
<1>6. ASSUME NEW h \in Handlers, Abort(h) PROVE Goal
  BY <1>1, <1>6 DEF Abort
<1>7. CASE Authorize \/ Decline \/ Chargeback \/ UNCHANGED vars
  BY <1>1, <1>7 DEF Authorize, Decline, Chargeback, StripeEvent, vars, Goal
<1>8. QED
  BY <1>4, <1>5, <1>6, <1>7 DEF Next, Goal

(* The payment service implements the lending, for any number of requests   *)
(* in flight, releases, advances and repayments: an advance is disbursed    *)
(* after its money has left, a cent withheld is a cent repaid, and no       *)
(* transfer is shorter than what was withheld.                              *)
THEOREM ServiceLends == Spec => ImplementsLending
<1>1. Init => Books!Init
  <2> SUFFICES ASSUME Init PROVE Books!Init
    OBVIOUS
  <2>1. \A a \in Ids : (disbursed[a] > 0) = FALSE
    BY DEF Init, NoDue
  <2>2. [a \in Ids |-> disbursed[a] > 0] = [a \in Ids |-> FALSE]
    BY <2>1, Zenon
  <2>3. QED
    BY <2>2 DEF Init, NoDue, Books!Init
<1>2. IInv /\ LendInv /\ ShortfallCredited' /\ [Next]_vars => [Books!Next]_(Books!vars)
  BY StepLends
<1>3. QED
  BY <1>1, <1>2, Invariance, LendInvHolds, NothingWithheldIsLost, PTL
  DEF Spec, ImplementsLending, Books!Spec
=============================================================================

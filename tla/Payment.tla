------------------------------- MODULE Payment -------------------------------
(***************************************************************************)
(* One payment of the payment service (services/payment/internal), from    *)
(* the INSERT to escrow, release and refund, the working capital advances  *)
(* of its provider that a release repays, and Stripe as the service sees   *)
(* it: calls that may fail or be executed without an answer, and webhooks  *)
(* that arrive late, twice, out of order or never.                         *)
(*                                                                         *)
(* Statements outside a transaction and calls to Stripe are steps of their *)
(* own; the requests in flight interleave.  UpdatePaymentStatus has no     *)
(* condition on the status it overwrites.  Abort ends a request between    *)
(* two steps: a cancelled context, a crash, an error of the next call.     *)
(***************************************************************************)
EXTENDS Integers, FiniteSets

CONSTANTS Handlers,       \* the requests in flight at the same time
          Amount,         \* payments.amount_cents
          Payout,         \* payments.provider_payout_cents
          Advances,       \* number of advances, 1..Advances by created_at
          Owed,           \* per advance: advance_amount_cents + fee_cents
          RefundRequests, \* amounts a refund may ask for, 0 = all
          MaxReleases,    \* bound: requests to release
          MaxDisburse,    \* bound: transfers of one advance a request may follow
          MayFail         \* Stripe calls and requests may fail

Ids == 1..Advances

ASSUME PaymentAssumption ==
    /\ Amount \in Nat \ {0} /\ Payout \in 0..Amount
    /\ Advances \in Nat /\ Owed \in [Ids -> Nat \ {0}]
    /\ RefundRequests \subseteq 0..Amount
    /\ MaxReleases \in Nat /\ MaxDisburse \in Nat
    /\ MayFail \in BOOLEAN

VARIABLES status,            \* payments.status, "none" before the INSERT
          intentRecorded,    \* stripe_payment_intent_id is set
          transferRecorded,  \* stripe_transfer_id is set
          refundAmount,      \* payments.refund_amount_cents
          advance,           \* working_capital_advances.status
          repaid,            \* working_capital_advances.repaid_cents
          ledger,            \* sum of advance_repayments by advance
          withheld,          \* sum of advance_repayments of this payment
          intent,            \* Stripe: the payment intent
          refunded,          \* Stripe: amount refunded so far
          transfers,         \* Stripe: number of transfers that releases made
          transferred,       \* Stripe: their sum
          disbursed,         \* Stripe: transfers made for each advance
          events,            \* Stripe: the kinds of webhook it may deliver
          refundEvents,      \* Stripe: amount_refunded of charge.refunded events
          releases,          \* requests to release so far
          pc, loc            \* per handler: its next step and its locals

rowVars     == <<status, intentRecorded, transferRecorded, refundAmount>>
advanceVars == <<advance, repaid, ledger, withheld>>
stripeVars  == <<intent, refunded, transfers, transferred, disbursed, events, refundEvents>>
reqVars     == <<releases, pc, loc>>
vars        == <<rowVars, advanceVars, stripeVars, reqVars>>

Statuses        == {"none", "pending", "processing", "escrow", "released", "failed",
                    "refunded", "partially_refunded", "disputed"}
AdvanceStatuses == {"none", "requested", "approved", "rejected", "disbursed",
                    "repaying", "repaid"}
Steps           == {"idle", "create_intent", "record_intent", "process_mark", "capture",
                    "update_status", "release_advances", "release_repay",
                    "record_transfer", "refund", "record_refund",
                    "disburse_transfer", "disburse_record"}
Active          == {"disbursed", "repaying"}

\* The locals a handler carries from one step to the next.
Locals == [seen : BOOLEAN, to : Statuses, ask : 0..Amount, id : Ids \cup {0},
           due : [Ids -> Nat], pool : Nat, total : Nat]
NoDue   == [a \in Ids |-> 0]
NoLocal == [seen |-> FALSE, to |-> "none", ask |-> 0, id |-> 0,
            due |-> NoDue, pool |-> 0, total |-> 0]

Init ==
    /\ status = "none" /\ intentRecorded = FALSE
    /\ transferRecorded = FALSE /\ refundAmount = 0
    /\ advance = [a \in Ids |-> "none"]
    /\ repaid = NoDue /\ ledger = NoDue /\ withheld = 0
    /\ intent = "none" /\ refunded = 0
    /\ transfers = 0 /\ transferred = 0 /\ disbursed = NoDue
    /\ events = {} /\ refundEvents = {}
    /\ releases = 0
    /\ pc = [h \in Handlers |-> "idle"]
    /\ loc = [h \in Handlers |-> NoLocal]

-----------------------------------------------------------------------------
Goto(h, step, local) ==
    /\ pc' = [pc EXCEPT ![h] = step]
    /\ loc' = [loc EXCEPT ![h] = local]
    /\ UNCHANGED releases

Finish(h) == Goto(h, "idle", NoLocal)

Idle(h) == pc[h] = "idle"

\* The last write of several handlers.
UpdatePaymentStatus(h) ==
    /\ pc[h] = "update_status"
    /\ status' = loc[h].to
    /\ Finish(h)
    /\ UNCHANGED <<intentRecorded, transferRecorded, refundAmount, advanceVars, stripeVars>>

-----------------------------------------------------------------------------
(* CreatePayment: row, payment intent, its id in the row *)

CreateInsert(h) ==
    /\ Idle(h)
    /\ status = "none"
    /\ status' = "pending"
    /\ Goto(h, "create_intent", NoLocal)
    /\ UNCHANGED <<intentRecorded, transferRecorded, refundAmount, advanceVars, stripeVars>>

CreateIntent(h) ==
    /\ pc[h] = "create_intent"
    /\ intent' = "created"
    /\ Goto(h, "record_intent", NoLocal)
    /\ UNCHANGED <<rowVars, advanceVars, refunded, transfers, transferred, disbursed,
                   events, refundEvents>>

RecordIntent(h) ==
    /\ pc[h] = "record_intent"
    /\ intentRecorded' = TRUE
    /\ Finish(h)
    /\ UNCHANGED <<status, transferRecorded, refundAmount, advanceVars, stripeVars>>

-----------------------------------------------------------------------------
(* ProcessPayment *)

ProcessRead(h) ==
    /\ Idle(h)
    /\ status = "pending"
    /\ Goto(h, "process_mark", [NoLocal EXCEPT !.seen = intentRecorded])
    /\ UNCHANGED <<rowVars, advanceVars, stripeVars>>

\* What follows 'processing': no capture when the row had no intent.
AfterMark(seen) == IF seen THEN "capture" ELSE "update_status"

ProcessMark(h) ==
    /\ pc[h] = "process_mark"
    /\ status' = "processing"
    /\ Goto(h, AfterMark(loc[h].seen), [NoLocal EXCEPT !.to = "escrow"])
    /\ UNCHANGED <<intentRecorded, transferRecorded, refundAmount, advanceVars, stripeVars>>

\* The status written after a call to capture, by whether it returned an error.
AfterCapture(failed) == IF failed THEN "failed" ELSE "escrow"

\* Stripe captures; when the answer is lost the service sees an error.  The intent is
\* a destination charge: capturing it credits the provider's account already.  That is
\* one with intent = "captured" and not counted in transfers, which are ReleaseEscrow's.
Capture(h) ==
    /\ pc[h] = "capture"
    /\ intent = "authorized"
    /\ intent' = "captured"
    /\ events' = events \cup {"succeeded"}
    /\ \E lost \in {FALSE, MayFail} :
          Goto(h, "update_status", [NoLocal EXCEPT !.to = AfterCapture(lost)])
    /\ UNCHANGED <<rowVars, advanceVars, refunded, transfers, transferred, disbursed,
                   refundEvents>>

\* An intent that is not authorized, or is captured already, is refused.
CaptureRefused(h) ==
    /\ pc[h] = "capture"
    /\ intent # "authorized" \/ MayFail
    /\ Goto(h, "update_status", [NoLocal EXCEPT !.to = AfterCapture(TRUE)])
    /\ UNCHANGED <<rowVars, advanceVars, stripeVars>>

-----------------------------------------------------------------------------
(* ReleaseEscrow: withhold repayments, transfer the rest, record, release *)

ReleaseRead(h) ==
    /\ Idle(h)
    /\ status = "escrow"
    /\ releases < MaxReleases
    /\ releases' = releases + 1
    /\ pc' = [pc EXCEPT ![h] = "release_advances"]
    /\ UNCHANGED <<rowVars, advanceVars, stripeVars, loc>>

\* int64(payout * 0.20)
RepaymentPool == Payout \div 5

\* What the SELECT of active advances says is still owed.
Remaining == [a \in Ids |-> IF advance[a] \in Active /\ Owed[a] > repaid[a]
                            THEN Owed[a] - repaid[a] ELSE 0]

\* The pool is only used when an advance is active.  A failed SELECT is
\* logged and the release goes on without repayment.
ReleaseAdvances(h) ==
    /\ pc[h] = "release_advances"
    /\ \E due \in {Remaining} \cup (IF MayFail THEN {NoDue} ELSE {}) :
          Goto(h, "release_repay",
               [NoLocal EXCEPT !.due = due,
                               !.pool = IF due = NoDue THEN 0 ELSE RepaymentPool])
    /\ UNCHANGED <<rowVars, advanceVars, stripeVars>>

\* Oldest first.
FirstDue(due) == {a \in Ids : due[a] > 0 /\ \A b \in Ids : b < a => due[b] = 0}

\* The deduction for one advance.
Deduction(pool, owes) == IF pool < owes THEN pool ELSE owes

\* Mutant: the column is set from the value that was read.
RepayStale(a, due, deduction) == Owed[a] - due[a] + deduction

\* repaid_cents after UPDATE ... SET repaid_cents = repaid_cents + deduction
Repay(a, due, deduction) == repaid[a] + deduction

\* The CASE of UpdateAdvanceRepayment.
StatusRepaid(a, cents) ==
    IF cents >= Owed[a] THEN "repaid"
    ELSE IF advance[a] = "disbursed" THEN "repaying" ELSE advance[a]

\* The locals of the loop after a deduction.
Deducted(local, a, deduction) ==
    [local EXCEPT !.due[a] = 0, !.pool = @ - deduction, !.total = @ + deduction]

\* One transaction: a row of advance_repayments and the advance's columns.
UpdateAdvanceRepayment(h) ==
    /\ pc[h] = "release_repay"
    /\ loc[h].pool > 0
    /\ \E a \in FirstDue(loc[h].due) :
          LET deduction == Deduction(loc[h].pool, loc[h].due[a])
              cents     == Repay(a, loc[h].due, deduction)
          IN  /\ repaid' = [repaid EXCEPT ![a] = cents]
              /\ advance' = [advance EXCEPT ![a] = StatusRepaid(a, cents)]
              /\ ledger' = [ledger EXCEPT ![a] = @ + deduction]
              /\ withheld' = withheld + deduction
              /\ Goto(h, "release_repay", Deducted(loc[h], a, deduction))
    /\ UNCHANGED <<rowVars, stripeVars>>

\* Mutant: a deduction that could not be recorded is withheld all the same.
SkippedKept(local, a) == Deducted(local, a, Deduction(local.pool, local.due[a]))

\* The locals after a repayment that failed: the advance is passed over.
Skipped(local, a) == [local EXCEPT !.due[a] = 0]

RepaymentFails(h) ==
    /\ MayFail
    /\ pc[h] = "release_repay"
    /\ loc[h].pool > 0
    /\ \E a \in FirstDue(loc[h].due) : Goto(h, "release_repay", Skipped(loc[h], a))
    /\ UNCHANGED <<rowVars, advanceVars, stripeVars>>

\* Mutant: the release is recorded before the transfer, which then fails.
TransferLast(h) ==
    /\ pc[h] = "release_repay"
    /\ loc[h].pool = 0 \/ loc[h].due = NoDue
    /\ Goto(h, "record_transfer", [NoLocal EXCEPT !.to = "released"])
    /\ UNCHANGED <<rowVars, advanceVars, stripeVars>>

CreateTransfer(h) ==
    /\ pc[h] = "release_repay"
    /\ loc[h].pool = 0 \/ loc[h].due = NoDue
    /\ transfers' = transfers + 1
    /\ transferred' = transferred + (Payout - loc[h].total)
    /\ Goto(h, "record_transfer", [NoLocal EXCEPT !.to = "released"])
    /\ UNCHANGED <<rowVars, advanceVars, intent, refunded, disbursed, events, refundEvents>>

RecordTransfer(h) ==
    /\ pc[h] = "record_transfer"
    /\ transferRecorded' = TRUE
    /\ Goto(h, "update_status", loc[h])
    /\ UNCHANGED <<status, intentRecorded, refundAmount, advanceVars, stripeVars>>

-----------------------------------------------------------------------------
(* CreateRefund *)

RefundRead(h, ask) ==
    /\ Idle(h)
    /\ status \in {"escrow", "released"}
    /\ Goto(h, "refund", [NoLocal EXCEPT !.seen = intentRecorded, !.ask = ask])
    /\ UNCHANGED <<rowVars, advanceVars, stripeVars>>

\* What Stripe refunds: all that is left when no amount is given.
Asked(local) == IF local.ask = 0 THEN Amount - refunded ELSE local.ask

Refundable(local) == /\ local.seen /\ intent = "captured"
                     /\ Asked(local) > 0 /\ Asked(local) <= Amount - refunded

StripeRefund(h) ==
    /\ pc[h] = "refund"
    /\ Refundable(loc[h])
    /\ refunded' = refunded + Asked(loc[h])
    /\ refundEvents' = refundEvents \cup {refunded'}
    /\ Goto(h, "record_refund", loc[h])
    /\ UNCHANGED <<rowVars, advanceVars, intent, transfers, transferred, disbursed, events>>

RefundRefused(h) ==
    /\ pc[h] = "refund"
    /\ ~Refundable(loc[h])
    /\ Finish(h)
    /\ UNCHANGED <<rowVars, advanceVars, stripeVars>>

\* Mutant: every refund counts as a full one.
RefundStatusFull(cents) == "refunded"

RefundStatus(cents) == IF cents < Amount THEN "partially_refunded" ELSE "refunded"

\* The row takes this amount, not the sum: UpdateRefund overwrites.
UpdateRefund(cents) ==
    /\ refundAmount' = cents
    /\ status' = RefundStatus(cents)
    /\ UNCHANGED <<intentRecorded, transferRecorded, advanceVars, stripeVars>>

RecordRefund(h) ==
    /\ pc[h] = "record_refund"
    /\ UpdateRefund(IF loc[h].ask = 0 THEN Amount ELSE loc[h].ask)
    /\ Finish(h)

-----------------------------------------------------------------------------
(* Webhooks find the payment by its intent; an unknown intent is ignored. *)

WebhookSucceeded(h) ==
    /\ Idle(h)
    /\ "succeeded" \in events /\ intentRecorded
    /\ status \in {"processing", "pending"}
    /\ Goto(h, "update_status", [NoLocal EXCEPT !.to = "escrow"])
    /\ UNCHANGED <<rowVars, advanceVars, stripeVars>>

WebhookStatus(h, kind, to) ==
    /\ Idle(h)
    /\ kind \in events /\ intentRecorded
    /\ status' = to
    /\ UNCHANGED <<intentRecorded, transferRecorded, refundAmount, advanceVars, stripeVars, reqVars>>

WebhookFailed(h)  == WebhookStatus(h, "failed", "failed")
WebhookDispute(h) == WebhookStatus(h, "dispute", "disputed")

\* amount_refunded of the charge, a running total.
WebhookRefunded(h, total) ==
    /\ Idle(h)
    /\ total \in refundEvents /\ intentRecorded
    /\ UpdateRefund(total)
    /\ UNCHANGED reqVars

-----------------------------------------------------------------------------
(* The customer and the bank, through Stripe.  The client secret is known   *)
(* to the customer once CreatePayment has answered.                         *)

StripeEvent(kind) ==
    /\ events' = events \cup {kind}
    /\ UNCHANGED <<rowVars, advanceVars, refunded, transfers, transferred, disbursed,
                   refundEvents, reqVars>>

Authorize == intent = "created" /\ intentRecorded /\ intent' = "authorized"
             /\ UNCHANGED <<rowVars, advanceVars, refunded, transfers, transferred,
                            disbursed, events, refundEvents, reqVars>>
Decline   == /\ intent = "created" /\ intentRecorded /\ "failed" \notin events
             /\ StripeEvent("failed") /\ UNCHANGED intent
Chargeback == /\ intent = "captured" /\ "dispute" \notin events
              /\ StripeEvent("dispute") /\ UNCHANGED intent

-----------------------------------------------------------------------------
(* Advances *)

SetAdvance(a, s) ==
    /\ advance' = [advance EXCEPT ![a] = s]
    /\ UNCHANGED <<rowVars, repaid, ledger, withheld, stripeVars>>

RequestAdvance(h, a) ==
    Idle(h) /\ advance[a] = "none" /\ SetAdvance(a, "requested") /\ UNCHANGED reqVars

\* UPDATE ... WHERE status = 'requested'
ReviewAdvance(h, a, s) ==
    Idle(h) /\ advance[a] = "requested" /\ SetAdvance(a, s) /\ UNCHANGED reqVars

\* Mutant: the row is updated before the money is sent.
RecordBeforeTransfer(h, a) ==
    /\ Idle(h)
    /\ advance[a] = "approved"
    /\ disbursed[a] < MaxDisburse
    /\ Goto(h, "disburse_record", [NoLocal EXCEPT !.id = a])
    /\ UNCHANGED <<rowVars, advanceVars, stripeVars>>

DisburseRead(h, a) ==
    /\ Idle(h)
    /\ advance[a] = "approved"
    /\ disbursed[a] < MaxDisburse
    /\ Goto(h, "disburse_transfer", [NoLocal EXCEPT !.id = a])
    /\ UNCHANGED <<rowVars, advanceVars, stripeVars>>

CreatePlatformTransfer(h) ==
    /\ pc[h] = "disburse_transfer"
    /\ disbursed' = [disbursed EXCEPT ![loc[h].id] = @ + 1]
    /\ Goto(h, "disburse_record", loc[h])
    /\ UNCHANGED <<rowVars, advanceVars, intent, refunded, transfers, transferred,
                   events, refundEvents>>

\* Mutant: UPDATE working_capital_advances ... WHERE id alone.
MayDisburseAny(a) == TRUE

\* WHERE status = 'approved'
MayDisburse(a) == advance[a] = "approved"

DisburseRecord(h) ==
    /\ pc[h] = "disburse_record"
    /\ MayDisburse(loc[h].id)
    /\ SetAdvance(loc[h].id, "disbursed")
    /\ Finish(h)

DisburseRefused(h) ==
    /\ pc[h] = "disburse_record"
    /\ ~MayDisburse(loc[h].id)
    /\ Finish(h)
    /\ UNCHANGED <<rowVars, advanceVars, stripeVars>>

-----------------------------------------------------------------------------
Abort(h) ==
    /\ MayFail
    /\ ~Idle(h)
    /\ Finish(h)
    /\ UNCHANGED <<rowVars, advanceVars, stripeVars>>

Request(h) ==
    \/ CreateInsert(h) \/ ProcessRead(h) \/ ReleaseRead(h)
    \/ \E ask \in RefundRequests : RefundRead(h, ask)
    \/ WebhookSucceeded(h) \/ WebhookFailed(h) \/ WebhookDispute(h)
    \/ \E total \in refundEvents : WebhookRefunded(h, total)
    \/ \E a \in Ids : \/ RequestAdvance(h, a)
                      \/ ReviewAdvance(h, a, "approved") \/ ReviewAdvance(h, a, "rejected")
                      \/ DisburseRead(h, a)

HandlerStep(h) ==
    \/ CreateIntent(h) \/ RecordIntent(h)
    \/ ProcessMark(h) \/ Capture(h) \/ CaptureRefused(h) \/ UpdatePaymentStatus(h)
    \/ ReleaseAdvances(h) \/ UpdateAdvanceRepayment(h) \/ RepaymentFails(h)
    \/ CreateTransfer(h) \/ RecordTransfer(h)
    \/ StripeRefund(h) \/ RefundRefused(h) \/ RecordRefund(h)
    \/ CreatePlatformTransfer(h) \/ DisburseRecord(h) \/ DisburseRefused(h)

Next ==
    \/ \E h \in Handlers : Request(h) \/ HandlerStep(h) \/ Abort(h)
    \/ Authorize \/ Decline \/ Chargeback

Spec == Init /\ [][Next]_vars

-----------------------------------------------------------------------------
RowOK ==
    /\ status \in Statuses
    /\ intentRecorded \in BOOLEAN /\ transferRecorded \in BOOLEAN
    /\ refundAmount \in 0..Amount

AdvanceOK ==
    /\ advance \in [Ids -> AdvanceStatuses]
    /\ repaid \in [Ids -> Nat] /\ ledger \in [Ids -> Nat] /\ withheld \in Nat

StripeOK ==
    /\ intent \in {"none", "created", "authorized", "captured"}
    /\ refunded \in 0..Amount
    /\ transfers \in Nat /\ transferred \in Nat /\ disbursed \in [Ids -> Nat]
    /\ events \subseteq {"succeeded", "failed", "dispute"}
    /\ refundEvents \subseteq 1..Amount

RequestOK ==
    /\ releases \in 0..MaxReleases
    /\ pc \in [Handlers -> Steps] /\ loc \in [Handlers -> Locals]
    /\ \A h \in Handlers :
          pc[h] \in {"disburse_transfer", "disburse_record"} => loc[h].id \in Ids

TypeOK == RowOK /\ AdvanceOK /\ StripeOK /\ RequestOK

(* A payment the service shows as released was transferred at Stripe and     *)
(* names its transfer, whichever requests and webhooks wrote the status.     *)
ReleasedWasTransferred == status = "released" => transfers > 0 /\ transferRecorded

(* The refund in the row never exceeds what Stripe has refunded, and         *)
(* 'refunded' means all of it, although CreateRefund and charge.refunded     *)
(* overwrite each other in any order.                                        *)
RefundNeverOverstated ==
    /\ refundAmount <= refunded
    /\ status = "refunded" => refunded = Amount

(* What an advance says was repaid is what its repayment rows add up to,     *)
(* and it is closed exactly when that covers the debt, however many          *)
(* releases repay it from stale reads.                                       *)
RepaymentsAccounted ==
    \A a \in Ids : /\ repaid[a] = ledger[a]
                   /\ advance[a] = "repaid" <=> repaid[a] >= Owed[a]

(* Whatever a transfer to the provider falls short of the payout has been    *)
(* credited to the provider's advances, also when a repayment fails halfway. *)
ShortfallCredited == Payout * transfers <= transferred + withheld

(* An advance only moves forward: one that is being repaid or closed is not  *)
(* disbursed again by a request that read it while it was approved.          *)
AdvanceForward ==
    [][\A a \in Ids : advance'[a] # advance[a] =>
          <<advance[a], advance'[a]>> \in
              {<<"none", "requested">>, <<"approved", "disbursed">>}
              \cup ({"requested"} \X {"approved", "rejected"})
              \cup ({"disbursed"} \X {"repaying", "repaid"})
              \cup {<<"repaying", "repaid">>}]_vars

\* The books of the platform, as an outsider may understand them: requests and their
\* reads are hidden, and of the transfers of an advance only that there was one.
Books == INSTANCE Lending WITH paidOut <- [a \in Ids |-> disbursed[a] > 0]

(* The service implements the lending: an advance is disbursed only after    *)
(* its money has left, every cent withheld is repaid in the same statement   *)
(* to an advance that was disbursed, and no transfer is shorter than that.   *)
ImplementsLending == Books!Spec
=============================================================================

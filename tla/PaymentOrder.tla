---------------------------- MODULE PaymentOrder ----------------------------
(* One balance order, from checkout to refund: webhooks, reconciliation and  *)
(* retries fulfil it under a lease, cancellation and expiry race with the    *)
(* payment, and administrators refund it through a gateway that may answer   *)
(* "pending".  Time since the row's last update matters only against one     *)
(* length, five minutes: grace after expiry and lease of a fulfilment.       *)
EXTENDS Integers, FiniteSets

CONSTANTS
  Workers,      \* processes that confirm, cancel or fulfil
  Admins,       \* processes that refund
  Amount,       \* credited by the order
  Deposit,      \* what else the user has
  MaxOverdraft, \* bound: how far usage may overdraw the balance
  MaxFaults,    \* bound: failed calls and dead processes
  MaxLeft       \* bound: workers still about during a refund

ASSUME OrderAssumption ==
  /\ Amount \in Nat \ {0} /\ Deposit \in Nat /\ MaxOverdraft \in Nat
  /\ MaxFaults \in Nat /\ MaxLeft \in Nat

VARIABLES
  status,       \* of the order row
  aged,         \* its last update is more than five minutes ago
  charge,       \* the payment at the provider
  acked,        \* how the provider's notification was answered, once with success
  code,         \* the order's redeem code
  balance,      \* of the user; usage may overdraw it
  audits,       \* audit rows of the order: one per action, by a unique index
  held,         \* the deduction the REFUND_PENDING row records
  worker,       \* worker -> where it is and what it knows
  refund,       \* admin -> likewise
  gateway,      \* the refund at the provider
  faults,       \* failures so far
  swallowed,    \* history: the code took a failed read or write for an answer
  credits,      \* history: times the balance was credited
  rebates,      \* history: times the inviter was credited
  spent,        \* history: what the user consumed
  unseen        \* history: what deductions took that were answered with an error

orderVars == <<status, aged>>
moneyVars == <<code, balance, credits, rebates, spent, unseen>>
vars == <<orderVars, charge, acked, moneyVars, audits, held, worker, refund,
          gateway, faults, swallowed>>

Unpaid == {"PENDING", "CANCELLED", "EXPIRED"}
Fulfillable == {"PAID", "FAILED", "RECHARGING"}
Refundable == {"COMPLETED", "REFUND_REQUESTED", "REFUND_FAILED"}
RefundStatus == {"REFUND_REQUESTED", "REFUNDING", "REFUND_PENDING", "REFUND_FAILED",
                 "REFUNDED"}    \* REFUNDED stands for PARTIALLY_REFUNDED too
Fulfilled == RefundStatus \cup {"COMPLETED"}

WorkerStates ==
  [pc : {"idle", "query", "close", "cancel", "trade", "confirm", "processed", "fulfil",
         "claim", "reload", "lookup", "create", "redeem", "rebate", "complete", "fail"},
   kind : {"webhook", "internal", "CANCELLED", "EXPIRED"},    \* who called, or what it cancels to
   lease : {"none", "held", "lost"}]
RefundStates ==
  [pc : {"idle", "lock", "deduct", "call", "rollback", "restore", "failed", "ok", "pend",
         "query", "final ok", "final fail", "final mark"},
   from : {"COMPLETED", "REFUND_REQUESTED"}, amount : 0 .. Amount]

\* The types of the state.
TypeOK ==
  /\ status \in Unpaid \cup Fulfillable \cup Fulfilled
  /\ aged \in BOOLEAN /\ swallowed \in BOOLEAN
  /\ acked \in {"no", "yes", "late", "unresolved"}
  /\ charge \in {"open", "closed", "paid"}
  /\ code \in {"none", "unused", "used"}
  /\ balance \in Int
  /\ audits \subseteq {"REBATE", "REFUND_PENDING", "REFUND_FAILED", "ROLLBACK_FAILED",
                       "REFUND_SUCCESS"}
  /\ held \in 0 .. Amount
  /\ worker \in [Workers -> WorkerStates]
  /\ refund \in [Admins -> RefundStates]
  /\ gateway \in {"none", "pending", "refunded", "failed"}
  /\ faults \in 0 .. MaxFaults
  /\ credits \in Nat /\ rebates \in Nat /\ spent \in Nat /\ unseen \in Nat

Idle == [pc |-> "idle", kind |-> "webhook", lease |-> "none"]
NoRefund == [pc |-> "idle", from |-> "COMPLETED", amount |-> 0]

Init ==
  /\ status = "PENDING" /\ aged = FALSE
  /\ charge = "open" /\ acked = "no"
  /\ code = "none" /\ balance = Deposit
  /\ audits = {} /\ held = 0
  /\ worker = [w \in Workers |-> Idle]
  /\ refund = [d \in Admins |-> NoRefund]
  /\ gateway = "none" /\ faults = 0 /\ swallowed = FALSE
  /\ credits = 0 /\ rebates = 0 /\ spent = 0 /\ unseen = 0

At(w, pc) == worker[w].pc = pc
Goto(w, pc) == worker' = [worker EXCEPT ![w].pc = pc]

Active == Cardinality({w \in Workers : ~ At(w, "idle")})

Fault == faults < MaxFaults /\ faults' = faults + 1
NoFault == UNCHANGED faults
Swallow == Fault /\ swallowed' = TRUE

\* a worker's call returns; a webhook answers the provider by its outcome
Answers(w, ok) ==
  acked' = IF ~ ok \/ worker[w].kind # "webhook" THEN acked
           ELSE IF status = "EXPIRED" THEN "late" ELSE "yes"
Returns(w, ok) == worker' = [worker EXCEPT ![w] = Idle] /\ Answers(w, ok)

\* every update of the row moves updated_at, which is the version of a lease
Losing(x) == IF x.lease = "held" THEN [x EXCEPT !.lease = "lost"] ELSE x
Update(s, w, x) ==
  /\ status' = s /\ aged' = FALSE
  /\ worker' = [v \in Workers |-> IF v = w THEN x ELSE Losing(worker[v])]

\* five minutes pass; elsewhere nothing looks at the time of the update
Age ==
  /\ ~ aged /\ status \in {"EXPIRED", "RECHARGING"}
  /\ aged' = TRUE
  /\ UNCHANGED <<status, charge, acked, moneyVars, audits, held, worker, refund, gateway,
                 faults, swallowed>>

-----------------------------------------------------------------------------
(* The user and the provider. *)

Pay ==
  /\ charge = "open"
  /\ charge' = "paid"
  /\ UNCHANGED <<orderVars, acked, moneyVars, audits, held, worker, refund, gateway,
                 faults, swallowed>>

\* DeductBalance charges for what was served, into a negative balance too
Spend ==
  /\ status \in Fulfilled    \* bound: only once the order is completed
  /\ balance + MaxOverdraft > 0
  /\ balance' = balance - 1 /\ spent' = spent + 1
  /\ UNCHANGED <<orderVars, charge, acked, code, credits, rebates, unseen, audits, held,
                 worker, refund, gateway, faults, swallowed>>

\* the gateway decides a refund it had answered with "pending"
Settle ==
  /\ gateway = "pending"
  /\ gateway' \in {"refunded", "failed"}
  /\ UNCHANGED <<orderVars, charge, acked, moneyVars, audits, held, worker, refund, faults,
                 swallowed>>

restOfWorker == <<audits, held, refund, gateway>>

-----------------------------------------------------------------------------
(* Cancellation, expiry and reconciliation: checkPaidWithOptions, cancelCore. *)

StartCheck(w, kind) ==
  /\ At(w, "idle")
  /\ status = "PENDING" \/ (kind = "internal" /\ status = "EXPIRED")
  /\ worker' = [worker EXCEPT ![w] = [pc |-> "query", kind |-> kind, lease |-> "none"]]
  /\ UNCHANGED <<orderVars, charge, acked, moneyVars, restOfWorker, faults, swallowed>>

\* where a check goes on that found no payment
Unconfirmed(w, pc) ==
  IF worker[w].kind = "internal" THEN Returns(w, TRUE) ELSE Goto(w, pc) /\ UNCHANGED acked

Query(w) ==
  /\ At(w, "query")
  /\ \/ charge = "paid" /\ Goto(w, "trade") /\ NoFault /\ UNCHANGED acked
     \/ charge # "paid" /\ Unconfirmed(w, "close") /\ NoFault
     \/ Fault /\ Unconfirmed(w, "cancel")
  /\ UNCHANGED <<orderVars, charge, moneyVars, restOfWorker, swallowed>>

\* CancelPayment; its failure is ignored, and not every provider has it
Close(w) ==
  /\ At(w, "close")
  /\ charge' \in (IF charge = "open" THEN {"open", "closed"} ELSE {charge})
  /\ Goto(w, "cancel")
  /\ UNCHANGED <<orderVars, acked, moneyVars, restOfWorker, faults, swallowed>>

\* mutant: the row is set whatever it has become
CancelsAny == TRUE

StillPending == status = "PENDING"

CancelCore(w) ==
  /\ At(w, "cancel")
  /\ IF StillPending THEN Update(worker[w].kind, w, Idle) /\ UNCHANGED acked
     ELSE Returns(w, TRUE) /\ UNCHANGED orderVars
  /\ UNCHANGED <<charge, moneyVars, restOfWorker, faults, swallowed>>

\* the provider's trade number may have to be stored before the confirmation
PersistTradeNo(w) ==
  /\ At(w, "trade")
  /\ LET x == [worker[w] EXCEPT !.pc = "confirm", !.kind = "internal"]
     IN \/ Update(status, w, x)
        \/ worker' = [worker EXCEPT ![w] = x] /\ UNCHANGED orderVars
  /\ UNCHANGED <<charge, acked, moneyVars, restOfWorker, faults, swallowed>>

-----------------------------------------------------------------------------
(* Confirmation: HandlePaymentNotification, toPaid, alreadyProcessed. *)

\* the provider notifies until it is answered with success; the handler answers
\* so itself when it resolves no provider to verify the notification with (all
\* providers but WeChat Pay)
Notify(w) ==
  /\ At(w, "idle") /\ charge = "paid" /\ acked = "no"
  /\ status \in RefundStatus \/ (\E d \in Admins : refund[d].pc # "idle") => Active < MaxLeft
  /\ \/ /\ worker' = [worker EXCEPT ![w] = [pc |-> "confirm", kind |-> "webhook", lease |-> "none"]]
        /\ UNCHANGED acked
     \/ acked' = "unresolved" /\ UNCHANGED worker
  /\ UNCHANGED <<orderVars, charge, moneyVars, restOfWorker, faults, swallowed>>

Payable == status \in {"PENDING", "CANCELLED"} \/ (status = "EXPIRED" /\ ~ aged)

\* confirmPayment takes a failed read of the order for its absence
ToPaid(w) ==
  /\ At(w, "confirm")
  /\ \/ /\ Payable /\ Update("PAID", w, [worker[w] EXCEPT !.pc = "fulfil"])
        /\ NoFault /\ UNCHANGED <<acked, swallowed>>
     \/ /\ ~ Payable /\ Goto(w, "processed")
        /\ NoFault /\ UNCHANGED <<orderVars, acked, swallowed>>
     \/ Swallow /\ Returns(w, TRUE) /\ UNCHANGED orderVars
     \/ Fault /\ Returns(w, FALSE) /\ UNCHANGED <<orderVars, swallowed>>
  /\ UNCHANGED <<charge, moneyVars, restOfWorker>>

\* mutant: an order somebody is fulfilling needs nothing more
UnclaimedOnly == {"PAID", "FAILED"}

ToBeFulfilled == Fulfillable

AlreadyProcessed(w) ==
  /\ At(w, "processed")
  /\ \/ /\ status \in ToBeFulfilled /\ Goto(w, "fulfil")
        /\ NoFault /\ UNCHANGED <<acked, swallowed>>
     \/ status \notin ToBeFulfilled /\ Returns(w, TRUE) /\ NoFault /\ UNCHANGED swallowed
     \/ Swallow /\ Returns(w, TRUE)
  /\ UNCHANGED <<orderVars, charge, moneyVars, restOfWorker>>

\* RetryFulfillment
Retry(w) ==
  /\ At(w, "idle") /\ status \in Fulfillable
  /\ worker' = [worker EXCEPT ![w] = [pc |-> "fulfil", kind |-> "internal", lease |-> "none"]]
  /\ UNCHANGED <<orderVars, charge, acked, moneyVars, restOfWorker, faults, swallowed>>

-----------------------------------------------------------------------------
(* Fulfilment: ExecuteBalanceFulfillment, the lease, doBalance. *)

Fulfil(w) ==
  /\ At(w, "fulfil")
  /\ IF status \in Fulfillable THEN Goto(w, "claim") /\ UNCHANGED acked
     ELSE Returns(w, status = "COMPLETED")
  /\ UNCHANGED <<orderVars, charge, moneyVars, restOfWorker, faults, swallowed>>

Claimable == status \in {"PAID", "FAILED"} \/ (status = "RECHARGING" /\ aged)

AcquireLease(w) ==
  /\ At(w, "claim")
  /\ IF Claimable THEN Update("RECHARGING", w, [worker[w] EXCEPT !.pc = "reload"]) /\ UNCHANGED acked
     ELSE Returns(w, status = "COMPLETED") /\ UNCHANGED orderVars
  /\ UNCHANGED <<charge, moneyVars, restOfWorker, faults, swallowed>>

\* the version is read back, with whatever happened to the row since
ReloadLease(w) ==
  /\ At(w, "reload")
  /\ IF status = "RECHARGING"
     THEN /\ worker' = [worker EXCEPT ![w] = [@ EXCEPT !.pc = "lookup", !.lease = "held"]]
          /\ UNCHANGED acked
     ELSE Returns(w, FALSE)
  /\ UNCHANGED <<orderVars, charge, moneyVars, restOfWorker, faults, swallowed>>

\* resolveRedeemAction
AfterLookup ==
  CASE code = "none" -> "create" [] code = "unused" -> "redeem" [] code = "used" -> "rebate"

LookupCode(w) ==
  /\ At(w, "lookup")
  /\ \/ Goto(w, AfterLookup) /\ NoFault
     \/ Fault /\ Goto(w, "fail")
  /\ UNCHANGED <<orderVars, charge, acked, moneyVars, restOfWorker, swallowed>>

\* the code is unique
CreateCode(w) ==
  /\ At(w, "create")
  /\ \/ code = "none" /\ code' = "unused" /\ Goto(w, "redeem") /\ NoFault
     \/ code # "none" /\ Goto(w, "fail") /\ NoFault /\ UNCHANGED code
     \/ Fault /\ Goto(w, "fail") /\ code' \in {code, IF code = "none" THEN "unused" ELSE code}
  /\ UNCHANGED <<orderVars, charge, acked, balance, credits, rebates, spent, unseen,
                 restOfWorker, swallowed>>

\* mutant: the code's status is not looked at again
UsableAgain == code # "none"

Usable == code = "unused"

Credit == code' = "used" /\ balance' = balance + Amount /\ credits' = credits + 1

\* code and balance change in one transaction, and the call may fail after it
RedeemCode(w) ==
  /\ At(w, "redeem")
  /\ \/ Usable /\ Credit /\ Goto(w, "rebate") /\ NoFault
     \/ Usable /\ Credit /\ Fault /\ Goto(w, "fail")
     \/ ~ Usable /\ NoFault /\ Goto(w, "fail") /\ UNCHANGED <<code, balance, credits>>
     \/ Fault /\ Goto(w, "fail") /\ UNCHANGED <<code, balance, credits>>
  /\ UNCHANGED <<orderVars, charge, acked, rebates, spent, unseen, restOfWorker, swallowed>>

RebateUnclaimed == "REBATE" \notin audits

\* the claim, the accrual and the outcome are one transaction
Accrue ==
  IF RebateUnclaimed THEN rebates' = rebates + 1 /\ audits' = audits \cup {"REBATE"}
  ELSE UNCHANGED <<rebates, audits>>

ApplyRebate(w) ==
  /\ At(w, "rebate")
  /\ \/ Accrue /\ Goto(w, "complete") /\ NoFault
     \/ (Accrue \/ UNCHANGED <<rebates, audits>>) /\ Goto(w, "fail") /\ Fault
  /\ UNCHANGED <<orderVars, charge, acked, code, balance, credits, spent, unseen, held, refund,
                 gateway, swallowed>>

OwnsLease(w) == status = "RECHARGING" /\ worker[w].lease = "held"

MarkCompleted(w) ==
  /\ At(w, "complete")
  /\ \/ OwnsLease(w) /\ NoFault /\ Update("COMPLETED", w, Idle) /\ Answers(w, TRUE)
     \/ /\ ~ OwnsLease(w) /\ NoFault /\ UNCHANGED orderVars
        /\ IF status = "COMPLETED" THEN Returns(w, TRUE)
           ELSE Goto(w, "fail") /\ UNCHANGED acked
     \/ Fault /\ Goto(w, "fail") /\ UNCHANGED <<orderVars, acked>>
     \/ /\ OwnsLease(w) /\ Fault /\ UNCHANGED acked
        /\ Update("COMPLETED", w, [worker[w] EXCEPT !.pc = "fail", !.lease = "lost"])
  /\ UNCHANGED <<charge, moneyVars, restOfWorker, swallowed>>

MarkFailed(w) ==
  /\ At(w, "fail")
  /\ \/ OwnsLease(w) /\ NoFault /\ Update("FAILED", w, Idle) /\ Answers(w, FALSE)
     \/ ~ OwnsLease(w) /\ NoFault /\ Returns(w, FALSE) /\ UNCHANGED orderVars
     \/ Fault /\ Returns(w, FALSE) /\ UNCHANGED orderVars
  /\ UNCHANGED <<charge, moneyVars, restOfWorker, swallowed>>

\* the process dies, or its request is abandoned
WorkerDies(w) ==
  /\ worker[w].pc # "idle" /\ Fault
  /\ worker' = [worker EXCEPT ![w] = Idle]
  /\ UNCHANGED <<orderVars, charge, acked, moneyVars, restOfWorker, swallowed>>

WorkerStep(w) ==
  \/ Query(w) \/ Close(w) \/ CancelCore(w) \/ PersistTradeNo(w) \/ ToPaid(w)
  \/ AlreadyProcessed(w) \/ Fulfil(w) \/ AcquireLease(w) \/ ReloadLease(w) \/ LookupCode(w)
  \/ CreateCode(w) \/ RedeemCode(w) \/ ApplyRebate(w) \/ MarkCompleted(w) \/ MarkFailed(w)

-----------------------------------------------------------------------------
(* Refunds: RequestRefund, PrepareRefund, ExecuteRefund.  A row in a refund's *)
(* hands is in nobody else's, and no status of it looks at aged or a lease.   *)

RequestRefund ==
  /\ status = "COMPLETED" /\ balance >= Amount
  /\ status' = "REFUND_REQUESTED"
  /\ UNCHANGED <<aged, charge, acked, moneyVars, audits, held, worker, refund, gateway,
                 faults, swallowed>>

restOfDeduct == <<aged, charge, acked, code, credits, rebates, spent, worker>>
restOfRefund == <<restOfDeduct, unseen>>

In(d, pc) == refund[d].pc = pc
Then(d, pc) == refund' = [refund EXCEPT ![d].pc = pc]
Ends(d) == refund' = [refund EXCEPT ![d] = NoRefund]

\* of the amount x, what a balance can give
Covered(x) ==
  IF balance <= 0 THEN 0 ELSE IF x < balance THEN x ELSE balance

\* the status the attempt gives back when it fails
RestoredTo == IF status = "REFUND_REQUESTED" THEN "REFUND_REQUESTED" ELSE "COMPLETED"

\* with or without a deduction, of what the balance allows
PrepareRefund(d, wanted) ==
  /\ In(d, "idle") /\ status \in Refundable /\ Active <= MaxLeft
  /\ refund' = [refund EXCEPT ![d] = [pc |-> "lock", from |-> RestoredTo,
                                      amount |-> Covered(wanted)]]
  /\ UNCHANGED <<restOfRefund, status, balance, audits, held, gateway, faults, swallowed>>

StillRefundable == status \in Refundable

LockRefund(d) ==
  /\ In(d, "lock")
  /\ IF StillRefundable THEN status' = "REFUNDING" /\ Then(d, "deduct")
     ELSE Ends(d) /\ UNCHANGED status
  /\ UNCHANGED <<restOfRefund, balance, audits, held, gateway, faults, swallowed>>

\* mutant: the deduction of an earlier attempt is not remembered
NeverTaken == FALSE

\* the audit row of a rollback that failed
TakenBefore == "ROLLBACK_FAILED" \in audits

\* DeductAvailableBalance looks at the balance again
Available(d) == Covered(refund[d].amount)

Deducted(d) ==
  /\ balance' = balance - Available(d) /\ UNCHANGED unseen
  /\ refund' = [refund EXCEPT ![d] = [@ EXCEPT !.pc = "call", !.amount = Available(d)]]

\* the statement commits by itself, and its answer may be an error all the same
DeductionFails(d) ==
  /\ Fault /\ Then(d, "restore")
  /\ \/ UNCHANGED <<balance, unseen>>
     \/ balance' = balance - Available(d) /\ unseen' = unseen + Available(d)

Deduct(d) ==
  /\ In(d, "deduct")
  /\ \/ /\ refund[d].amount = 0 \/ TakenBefore
        /\ refund' = [refund EXCEPT ![d] = [@ EXCEPT !.pc = "call", !.amount = 0]]
        /\ NoFault /\ UNCHANGED <<balance, unseen, swallowed>>
     \/ refund[d].amount # 0 /\ ~ TakenBefore /\ Deducted(d) /\ NoFault /\ UNCHANGED swallowed
     \/ refund[d].amount # 0 /\ TakenBefore /\ Deducted(d) /\ Swallow
     \/ refund[d].amount # 0 /\ DeductionFails(d) /\ swallowed' = (swallowed \/ TakenBefore)
  /\ UNCHANGED <<restOfDeduct, status, audits, held, gateway>>

\* gwRefund; an answer that does not arrive is taken for a refusal
GatewayRefund(d) ==
  /\ In(d, "call")
  /\ \/ gateway' = "refunded" /\ Then(d, "ok") /\ NoFault
     \/ gateway # "refunded" /\ gateway' = "pending" /\ Then(d, "pend") /\ NoFault
     \/ UNCHANGED gateway /\ Then(d, "rollback") /\ NoFault
     \/ gateway' = "refunded" /\ Then(d, "rollback") /\ Fault
  /\ UNCHANGED <<restOfRefund, status, balance, audits, held, swallowed>>

\* handleGwFail, RollbackRefund: returned with an error, the amount may be back
RollbackRefund(d) ==
  /\ In(d, "rollback")
  /\ \/ /\ balance' = balance + refund[d].amount /\ Then(d, "restore")
        /\ NoFault /\ UNCHANGED <<audits, swallowed>>
     \/ /\ refund[d].amount # 0 /\ Then(d, "failed")
        /\ balance' \in {balance, balance + refund[d].amount}
        /\ \/ Fault /\ audits' = audits \cup {"ROLLBACK_FAILED"} /\ UNCHANGED swallowed
           \/ Swallow /\ UNCHANGED audits
  /\ UNCHANGED <<restOfRefund, status, held, gateway>>

RestoreStatus(d) ==
  /\ In(d, "restore") /\ Ends(d)
  /\ \/ status' = refund[d].from /\ NoFault /\ UNCHANGED swallowed
     \/ Swallow /\ UNCHANGED status
  /\ UNCHANGED <<restOfRefund, balance, audits, held, gateway>>

\* two writes, and neither's failure is looked at
MarkRefundFailed(d) ==
  /\ In(d, "failed") /\ Ends(d)
  /\ \/ status' = "REFUND_FAILED" /\ audits' = audits \cup {"REFUND_FAILED"}
        /\ NoFault /\ UNCHANGED swallowed
     \/ status' = "REFUND_FAILED" /\ UNCHANGED <<audits, swallowed>> /\ Fault
     \/ UNCHANGED status /\ audits' \in {audits, audits \cup {"REFUND_FAILED"}} /\ Swallow
  /\ UNCHANGED <<restOfRefund, balance, held, gateway>>

RecordSuccess == status' = "REFUNDED" /\ audits' = audits \cup {"REFUND_SUCCESS"}

\* accounting that fails after the gateway has paid is left to reconciliation,
\* the commit that was answered with an error and landed among it
MarkRefundOk(d) ==
  /\ In(d, "ok")
  /\ \/ RecordSuccess /\ Ends(d) /\ NoFault
     \/ (RecordSuccess \/ UNCHANGED <<status, audits>>) /\ Then(d, "pend") /\ Fault
  /\ UNCHANGED <<restOfRefund, balance, held, gateway, swallowed>>

\* mutant: the deduction recorded is the one that was planned
PlannedHold(d) == Amount

Hold(d) == refund[d].amount

\* status, whatever it was, and audit row in one transaction, which the unique
\* index may refuse
MarkRefundPending(d) ==
  /\ In(d, "pend") /\ Ends(d)
  /\ \/ /\ "REFUND_PENDING" \notin audits /\ NoFault
        /\ status' = "REFUND_PENDING"
        /\ audits' = audits \cup {"REFUND_PENDING"} /\ held' = Hold(d)
     \/ "REFUND_PENDING" \in audits /\ NoFault /\ UNCHANGED <<status, audits, held>>
     \/ Fault /\ UNCHANGED <<status, audits, held>>
  /\ UNCHANGED <<restOfRefund, balance, gateway, swallowed>>

-----------------------------------------------------------------------------
(* QueryAndFinalizeRefund. *)

StartFinalize(d) ==
  /\ In(d, "idle") /\ status = "REFUND_PENDING"
  /\ refund' = [refund EXCEPT ![d] = [NoRefund EXCEPT !.pc = "query", !.amount = held]]
  /\ UNCHANGED <<restOfRefund, status, balance, audits, held, gateway, faults, swallowed>>

QueryRefund(d) ==
  /\ In(d, "query")
  /\ \/ gateway = "pending" /\ Ends(d) /\ NoFault
     \/ gateway = "refunded" /\ Then(d, "final ok") /\ NoFault
     \/ gateway = "failed" /\ Then(d, "final fail") /\ NoFault
     \/ Fault /\ Ends(d)
  /\ UNCHANGED <<restOfRefund, status, balance, audits, held, gateway, swallowed>>

\* the first statement of every finalizing transaction
ClaimsPending == status = "REFUND_PENDING"

\* the unique index refuses a second record of the success
MayRecordSuccess == ClaimsPending /\ "REFUND_SUCCESS" \notin audits

FinalizeSuccess(d) ==
  /\ In(d, "final ok") /\ Ends(d)
  /\ \/ MayRecordSuccess /\ RecordSuccess /\ NoFault
     \/ ~ MayRecordSuccess /\ NoFault /\ UNCHANGED <<status, audits>>
     \/ Fault /\ UNCHANGED <<status, audits>>
  /\ UNCHANGED <<restOfRefund, balance, held, gateway, swallowed>>

\* finalizeRefundFailed: status, deduction and audit row in one transaction
FinalizeFailed(d) ==
  /\ In(d, "final fail")
  /\ \/ /\ ClaimsPending /\ "REFUND_FAILED" \notin audits /\ NoFault /\ Ends(d)
        /\ status' = "REFUND_FAILED" /\ audits' = audits \cup {"REFUND_FAILED"}
        /\ balance' = balance + refund[d].amount
     \/ /\ ~ (ClaimsPending /\ "REFUND_FAILED" \notin audits) /\ NoFault /\ Ends(d)
        /\ UNCHANGED <<status, balance, audits>>
     \/ /\ ClaimsPending /\ Fault /\ refund[d].amount # 0 /\ Then(d, "final mark")
        /\ UNCHANGED <<status, balance, audits>>
     \/ Fault /\ Ends(d) /\ UNCHANGED <<status, balance, audits>>
  /\ UNCHANGED <<restOfRefund, held, gateway, swallowed>>

\* the deduction could not be returned: the row says so instead
FinalizeMarked(d) ==
  /\ In(d, "final mark") /\ Ends(d)
  /\ \/ /\ ClaimsPending /\ {"REFUND_FAILED", "ROLLBACK_FAILED"} \cap audits = {} /\ NoFault
        /\ status' = "REFUND_FAILED"
        /\ audits' = audits \cup {"REFUND_FAILED", "ROLLBACK_FAILED"}
     \/ /\ ~ (ClaimsPending /\ {"REFUND_FAILED", "ROLLBACK_FAILED"} \cap audits = {})
        /\ NoFault /\ UNCHANGED <<status, audits>>
     \/ Fault /\ UNCHANGED <<status, audits>>
  /\ UNCHANGED <<restOfRefund, balance, held, gateway, swallowed>>

AdminDies(d) ==
  /\ refund[d].pc # "idle" /\ Fault /\ Ends(d)
  /\ UNCHANGED <<restOfRefund, status, balance, audits, held, gateway, swallowed>>

RefundStep(d) ==
  \/ LockRefund(d) \/ Deduct(d) \/ GatewayRefund(d) \/ RollbackRefund(d) \/ RestoreStatus(d)
  \/ MarkRefundFailed(d) \/ MarkRefundOk(d) \/ MarkRefundPending(d) \/ QueryRefund(d)
  \/ FinalizeSuccess(d) \/ FinalizeFailed(d) \/ FinalizeMarked(d)

-----------------------------------------------------------------------------
Next ==
  \/ Age \/ Pay \/ Spend \/ Settle \/ RequestRefund
  \/ \E w \in Workers :
       \/ \E kind \in {"CANCELLED", "EXPIRED", "internal"} : StartCheck(w, kind)
       \/ Notify(w) \/ Retry(w) \/ WorkerStep(w) \/ WorkerDies(w)
  \/ \E d \in Admins :
       \/ \E wanted \in 0 .. Amount : PrepareRefund(d, wanted)
       \/ StartFinalize(d) \/ RefundStep(d) \/ AdminDies(d)

Spec == Init /\ [][Next]_vars

-----------------------------------------------------------------------------
(* What must hold. *)

\* The user is credited once and the inviter once, however many notifications,
\* retries and takeovers of a stale lease there are, and an order is completed
\* only after both.
CreditedOnce ==
  /\ credits <= 1 /\ rebates <= 1
  /\ status \in Fulfilled => credits = 1 /\ rebates = 1

\* A payment the code has recorded is never forgotten again, a fulfilled order
\* is never fulfilled again, and one whose refund is on record is never open to
\* a second refund: the most that happens to it, after a commit answered with
\* an error, is that it waits for reconciliation again.
NeverUndone ==
  [][/\ status \in Fulfillable => status' \in Fulfillable \cup {"COMPLETED"}
     /\ status \in Fulfilled => status' \in Fulfilled
     /\ status = "REFUNDED" \/ "REFUND_SUCCESS" \in audits =>
          status' \in {"REFUNDED", "REFUND_PENDING"}]_vars

\* what refunds have taken from the balance and not returned, without what was
\* taken by deductions the code was told had failed
Taken == (Deposit + credits * Amount) - (balance + spent + unseen)

\* Refunds never return more than they took, and never hold more than the order
\* was worth, through failed calls, failed rollbacks and repeated attempts, but
\* for deductions that were answered with an error after they committed: of
\* those the code keeps no record and the next attempt deducts again.  (All
\* state is of its type.)
DeductedOnce ==
  /\ TypeOK
  /\ Taken >= 0
  /\ ~ swallowed => Taken <= Amount

\* Between attempts the deduction is what the row says: none, unless the failed
\* rollback is on record, and for a pending refund the amount recorded with it,
\* so that the final outcome returns or keeps exactly that.  Deductions answered
\* with an error are left out here too.
HoldOnRecord ==
  ~ swallowed /\ "ROLLBACK_FAILED" \notin audits =>
    /\ status \in Refundable => Taken = 0
    /\ status = "REFUND_PENDING" => Taken = held

\* HandlePaymentNotification lets the provider, who stops notifying then, be
\* answered with success only when the user has been credited, or when the
\* payment came after the grace of an expired order, or when a failed read was
\* taken for an answer.  The success the handler answers with before it, when it
\* resolves no provider, says nothing of the order ("unresolved").
AckedIsCredited == acked = "yes" => status \in Fulfilled \/ swallowed

\* A refund the gateway answered with "pending" is on record for the query that
\* returns or keeps its deduction, once no attempt is under way.
PendingOnRecord ==
  (\A d \in Admins : In(d, "idle")) /\ gateway = "pending" => status = "REFUND_PENDING"
=============================================================================

# Verification of sub2apipro

sub2apipro is a gateway that sells access to upstream AI accounts. One primary
site owns users, keys, accounts and money; regional sites serve requests close
to the users from their own database. Two things are shared between the sites
and must never be spent twice: **concurrency slots** (how many requests an
account, a user or an API key may have in flight) and **money** (the user's
balance, subscription and key quotas). This directory holds TLA+ modules of the
protocols that share them, of the Live sessions and the signed snapshots built
around them, and of the orders by which money enters and leaves; TLC
configurations that check the modules on small instances; and TLAPS proofs, for
every value of the constants, of every safety and action property those runs check,
of the ledger's refinement of a wallet, and of the price arithmetic.

All paths below are relative to `src/backend/internal/` unless they say
otherwise.

## 1. Inventory

### Parts, their state and their operations

| part | state | operations that change it |
|---|---|---|
| slot authority, `regional/slots/slots.go` | budget row (`primary_used`, `granted`), primary requests, grants, rejected issues | Issue, Renew, BeginDrain, Close, Acquire, Release |
| slot leases of a region, `regional/slots/local.go` | installed grants with a `used` counter, slots bound to requests, cancellations | Install, AcquireResource, ReleaseResource, Drain, Close |
| broker, `regional/control/broker.go` | persisted operations pending / installed / rejected | Queue, Replay, RunOnce, EnsureSlots |
| control plane, `regional/control/http.go` | none | carries the operations; 410 is the only conclusive refusal |
| quota ledger at the authority, `regional/ledger/primary.go`, `primary_requests.go` | quota leases, settled events, holds of primary requests | Issue, Settle, Close; Reserve, Start, Complete, Cancel |
| quota ledger of a region, `regional/ledger/local.go`, `worker.go` | local leases (`spent`, `reserved`), requests, usage outbox | Install, Reserve, Start, Complete, Cancel, Acknowledge, Drain, Close, Flush |
| budget scope, `repository/regional_budget_scope.go`, `regional_budget_authority.go` | allocations against key quotas, balance or subscription funding | Reserve, Charge, Close |
| funds broker, `repository/regional_funds_broker.go` | uses the broker's table | ensureRegionalFunds, drainRegionalFunds |
| metering boundary, `service/regional_metering.go`, `regional/ledger/execution.go` | per request: sent flag, finished flag | before-send, finish |
| wait queue of a key, `repository/regional_queue.go`, `service/api_key_queue.go` | tickets, slots; per request a goroutine with its deadline, mode and limit | AcquireWithTime, Advance, Abort; the wait loop and its cleanups |
| lease watchdog, `service/api_key_slot_lease.go` | timer, refresh worker | renew, lose, stop, release |
| Live sessions, `service/openai_live.go`, `repository/regional_live.go`, `repository/gateway_cache.go` | handoff row, slots of account, user and key; call record with its controller | create (transfer, migrate, abort, release), claim, hand back, mark closed, finalize |
| snapshot publishers, `repository/regional_auth_authority.go`, `service/regional_scheduler_runtime.go` | the stream's row; the packet each process serves | Publish, Restore, serve |
| snapshot replica, `regional/sync.go`, `contracts.go` | file with the last accepted packet, failed flag | Open, Accept, Pull, Current |
| payment orders, `service/payment_order_lifecycle.go`, `payment_fulfillment.go`, `payment_refund.go` | order row, redeem code, audit rows, balance | confirm, cancel, expire, fulfil, retry, refund, finalize |
| pricing, `regional/ledger/pricing.go`, `amount.go` | none | Charge, Maximum |
| budget windows, `repository/regional_budget_window_rollover.go` | window start and usage | rollover |
| cutover, `repository/regional_cutover.go`, `regional_funds_cutover.go` | epoch rows, member heartbeats | start, join, activate |

The rest of the repository (gateway, scheduling, batch images, caches,
credentials, front end) runs on one site and is listed in `PROJECT.json` with
the reason it is not modelled. `frontend/`, `prism-adapter/`, `deploy/` and the
generated `backend/ent/` hold no protocol of their own.

### How they interact

```
 request at a region                     request at the primary site
   |  wait queue (KeyQueue)                |  wait queue (KeyQueue)
   v                                       v
 local slots, local ledger               budget row, balance
   ^   | outbox, receipts                  ^
   |   v                                   |
 broker / funds broker / flush worker --HTTP--> authority (Issue, Renew, Settle, Close)
```

A Live session starts as an ordinary request (queue, watchdog) and moves its three
slots to a lease of its own. Snapshots tell a region which keys and accounts
exist at all. Orders change the balance the ledger draws on.

Each arrow into a table is one SQL transaction that locks the row it decides
on. Between transactions anything may happen: another site commits, an answer is
lost, the process dies, the administrator edits the limit.

### What is hard

- a lost or late answer makes both sides believe different things about a lease
  (issue, renewal, settlement, receipt);
- a region must neither give up a lease that the authority allocated nor ask for
  a second one while the first may be allocated;
- a cancellation can overtake the acquisition it cancels;
- capacity and money return once, and only after the last user is gone;
- between "nothing was sent" and "cancel the reservation" the request may be sent;
- two clocks decide expiry;
- waiting requests must be served in order although they poll, time out, die and
  are fenced by commands that may be served in any order;
- a slot changes its owner in the middle of a request whose watchdog, deferred
  releases and retries know only the old one;
- a commit that is not acknowledged happened or did not (Live transfer, snapshot
  revision, redeemed code), and a file that was renamed may not be on disk;
- several processes end the same session, or fulfil the same order, after a lease
  ran out that its owner still believes in;
- a refund fails after its deduction, and undoing the deduction fails too.

`PROJECT.json` lists these as hazards with the line where each bites and the
properties that cover it.

## 2. Modules

| module | models |
|---|---|
| `RegionalSlots` | slot authority, region leases and broker for one resource |
| `RegionalLedger` | quota ledger, budget scope, funds broker, worker and metering boundary for one user and key |
| `Wallet` | what the ledger promises the owner of a balance: hold, charge once, give back |
| `KeyQueue` | the wait queue of one key at one site and the goroutines that use it |
| `LiveSession` | one Live session: creation with its retries, the watchdog of the key reservation, the handoff tables, controllers and finalization |
| `SnapshotStream` | one stream of signed snapshots: publishers at the primary site, one region's replica, two clocks |
| `PaymentOrder` | one balance order, its fulfilment and its refunds |
| `Pricing` | `Price.Charge` and `Price.Maximum` as functions, with their theorems |
| `Piles`, `PileTheorems` | sums over finite sets, and the facts proved about them |
| `RegionalSlotsProofs`, `RegionalLedgerProofs`, `KeyQueueProofs`, `LiveSessionProofs`, `SnapshotStreamProofs`, `PaymentOrderProofs` | the inductive invariant of each specification and its consequences |
| `MC...` | each specification with its symmetry set for TLC |

A table is a function whose domain is the set of primary keys present, named
after the table or the Go field; a transaction is one action named after the
method. An HTTP request is a member of `wire` (or the persisted operation
itself) that may be served at any time and any number of times, so loss, delay,
repetition and reordering need no actions of their own. Rows of different
resources, users and keys never meet in a transaction except in the Live
handoff, so one of each is enough. Clocks are integers; only comparisons with
issue and expiry times matter. Operators that begin with a comment "Mutant" are
plausible bugs used to show that a property can fail; nothing else uses them.

**RegionalSlots.** `limit` is what `LimitReader` reads inside each transaction.
The region keeps `localGrants`, `localSlots` and `cancellations`; the broker keeps
`operations`; `calls` is where the replay that holds an operation's row lock has
got to, so that a crash between posting, installing and marking is a behaviour
(`ReplayFails`).

**RegionalLedger.** The authority debits `balance` at `Issue`; the region reserves
the maximum of a request (`Reserve`), commits `Start` before the first upstream
byte, replaces the maximum by the charge at `Complete`, and delivers the event
(`Settle`, `Acknowledge`). `attempts`, `canceling` and `dispatched` are the state
of the process that serves a request: `BeforeSend` sets the sent flag before
`Start`, `GiveUp` is `finish` that found nothing sent, `Die` is a crash. Usage above the
maximum may be measured, and `Complete` has to refuse it. The many limits and
windows of a key are reduced to one quota; a group change switches `kind`
between balance and subscription funding.

**KeyQueue.** `AcquireAPIKeySlotWithTime`, `AdvanceAPIKeyQueue` and
`AbortAPIKeyQueueAttempt` compute what their transaction leaves behind; `ServeCall`
commits it, the goroutine learns the answer in a later step or never
(`CallFails`). A command its caller gave up on may be served later (`ServeLate`).
The row lock makes that rare in SQL, but the abort exists to fence it
("fences late ENTER/POLL commands", `service/api_key_queue.go`; "fence delayed
commands across restarts", `migrations/281_regional_admission.sql`), so the model
allows it without limit. Cleanups are bounded retries of an idempotent
transaction: either some retry commits or the cleanup is given up and logged
(`residue`). The auth cache (`cached`) lags behind the limit in force. The slot
table is reduced to one state per request, which is what `RegionalSlots` shows
of it: at most one slot, and none again after release. `share` is what regions
hold of the budget on the primary, and in a region the slots of open grants plus
those still in use on drained ones. The Redis implementation of the same cache
interface is not the subject of this module.

**LiveSession.** `rows` holds, per resource, the state of the ordinary request's
slot and of the Live request's; `handoff` is the row of `regional_live_handoffs`.
`pc` walks through the handler and `CreateLiveCall`, `joint` is the lease as that
process knows it (its account becomes unknown after a failed attempt, as in the
code), `consumed` says that the reservation's release has become a mere stop.
`renewal` and `worker` are the two halves of the watchdog; `StopRenewal` and
`Joined` are the two halves of stopping it. `controller` and `owner` are the Redis
record; every script is one action. `agent` is what each observer or proxy
goroutine does. `Faults` names the calls that may fail; calls with effects may
fail after taking effect, a proxy's claim of the controller among them
(`ProxyClaimFails`). `spoiled` remembers that a clean-up, hand-back, mark or
release failed: the code logs such a failure and does not retry it. Whether a
resource has room is a free choice, and the row states are what `RegionalSlots`
shows of the slot table. The primary and the regional store answer alike.

**SnapshotStream.** A packet is a revision, the version of the data it exports and
its issue time. The publisher's transaction reads everything as of its first
statement (`BeginPublish`), takes the advisory lock and the row (`Build`, refused when
the row changed in between) and commits, or learns nothing about its commit
(`CommitInDoubt`); `wire` is what a process serves. The region's file has a visible
and a durable version; `WriteFails` may leave the new one visible only. `OpenReplica`
only reads: a reopened replica (`Restart`) serves a renamed file that was never synced,
and `PowerLoss` may still take it back. `accepted` is a history variable, the last
revision whose `Accept` succeeded. Reopening assumes that the state lock keeps a second
process away. `Tick` and `RegionTick` keep
the clocks within `Skew` of each other, which the policy's tolerance presupposes.
The scheduler stream has the same protocol as the auth stream.

**PaymentOrder.** `status` is the order row's; `aged` says its last update is more
than five minutes old, the length both of the grace after expiry and of a
fulfilment lease. Every update of the row gives it a new version, so a worker's
lease is `held` until somebody else updates the row (`Losing`). `audits` is a set
because a unique index allows one row per order and action. A worker is a webhook,
a reconciliation, a cancellation, an expiry or a retry; an admin is a refund
attempt or its finalization. `Fault` is a failing call or a dying process;
`swallowed` records that the code took a failed read for an answer or ignored a
failed write, after which some relations cannot hold. A call that changes something
may fail after its effect: the redeem code, the rebate, the completion, the deduction,
its return and the accounting of a refund. `unseen` is a history variable, what was
taken by deductions that were answered with an error; the code keeps no record of it.
`Notify` includes the handler's own answer: "unresolved" is the success it gives when
it finds no provider to verify the notification with. Usage may overdraw the balance
(`DeductBalance`, bounded by `MaxOverdraft`), a refund never does (`Covered`). Amounts
are whole units; REFUNDED stands for partially refunded too. The order has the
provider's trade number, without which `gwRefund` takes the refund for done.

**Pricing.** Integers are unbounded, as in `math/big`; the `int64` range of the
result is a constant. `Refused` is the error.

## 3. Runs

"Bounds" names what matters; the complete values are in the `.cfg` files. All
identifiers are symmetric in safety runs; runs under fairness use no symmetry.

| run | bounds | what it shows |
|---|---|---|
| `slots_lifecycle` | 1 region, 2 leases of 1 slot, limits 0 and 2, 1 + 2 requests, clocks to 2 | budget and `used` counters exact, in flight never above the allocation, no growth above the limit in force, permanent identities, no orphan grant, one open grant per region and resource, receipts only when idle |
| `slots_liveness` | 1 lease, limits 0 and 1 | an issue is decided; a drained grant whose revision the region knows returns its slots |
| `ledger_lifecycle` | 1 region, 2 successive leases, 2 requests, crashes | the sums of four tables agree, dispatched work is covered, deliveries never refused, no orphan or doubled lease |
| `ledger_administration` | a region and the primary, both funding kinds, quotas none and 2 | quota growth and the refinement of `Wallet` under edits |
| `ledger_liveness` | 1 lease, 1 request, crashes | usage is delivered, the lease's money returns |
| `queue_primary` | 2 queueing requests and 1 without a queue, a line of 1, limits 0 and 1, failures and crashes | every slot has an owner, a forwarded request has its slot, an unlimited request left the line, the line stays within its bound |
| `queue_region` | 2 requests, a line of 2, moving limit and grant capacity, fair | order of admission, every attempt ends |
| `live_handoff` | 2 accounts, 2 attempts (4 in the code), 3 controllers, every call may fail any number of times, fair | no slot doubled or lost, aborted leases hold nothing, the watchdog never reports a moved slot, finalized once, creation ends, slots return |
| `live_joint_leak` | 2 accounts, no failing call | a disagreement with a comment, see section 6 |
| `snapshot_stream` | 2 publishers, 1 change of data, clocks to 2 and 1, lifetime and skew 1, 1 commit in doubt, fair | revisions faithful, the view never below an accepted revision and not too old, back only when a power loss undoes an unsynced rename, an open replica catches up |
| `payment_order` | 2 workers, 2 administrators, 1 unit credited and 1 already there, an overdraft of 1, 1 failure anywhere | credited and rebated once, nothing undone, deductions bounded and on record but for those answered with an error, a handled notification answered with success only when credited |
| `refund_second_pending` | 1 worker, 1 administrator, no failure | a disagreement with a comment, see section 6 |

Why these bounds are enough for the cases that matter: every race in the code is
between two holders of one row, or between one operation and a late copy of it,
or between an operation and one clock; two leases let an old one meet its
successor, a region and the primary site compete for the budget row as two
regions would (the proofs cover any number); in the queue a capacity of 0
stands for the holders, so two requests are the head and the second in line, and
the third request of `queue_primary` is a holder that ignores the line. Clock
bounds reach one tick past every expiry that decides something. The type invariant
`TypeOK` of a module is a conjunct of one of its checked invariants
(`CapacityAccounted`, `LedgersExact`, `OneSlotPerDimension`, `RevisionsFaithful`,
`DeductedOnce`); in the queue it carries the bound of the line. Each property is
accompanied by a mutant of the code that breaks it within the same bounds.
Deadlock is not checked in the queue, Live, snapshot and order runs, where all
attempts end or all bounded counters are used up.

In the newer modules: two attempts contain a first transfer and a migration, and
every later attempt is another migration; three controllers are a first observer,
a proxy and the proxy or observer that meets them. `Worthwhile` leaves out
publications that would repeat the packet in force, `MaxDoubts` bounds unknown
commits, and a lifetime of one tick lets a packet expire within the horizon.
In `snapshot_stream` a closed replica pulls nothing, because it would refuse it.
In `payment_order`, `MaxFaults` allows one failure because the code's promises
hold per failure (the proofs are for any number); `MaxLeft` bounds the workers still about when a refund begins
(one late notification, retry or slow fulfilment against two refunds), and `Spend`
starts once the order is completed, before which nothing compares the balance.

### Fairness

- Slots: the broker's `RunOnce` replays every pending operation periodically, the
  clocks run, requests in flight end, and an operator who started a drain follows
  the procedure to its end. A post that is repeated for ever is answered some time.
- Ledger: `meter.Run` repeats its cycle every five seconds; strong fairness stands
  for "a post that can be answered, or a commit that can succeed, does not fail
  every time". A process that reserved sends or gives up and its database calls
  return; the upstream may stay silent for ever, therefore `LeaseReturned` excludes
  leases with a request that never ends.
- Queue: the goroutine runs on, calls return or fail, time passes, and the loop
  looks at its local deadline on every turn (strong fairness of `LocalTimeout`).
  The auth cache need never catch up and the limit may move for ever.

- Live: the creating goroutine and the controllers run on, a stopped worker
  notices it (its select has the stop channel), and the session's maximum duration
  passes. Nothing is assumed of renewals, of clients or of calls that fail;
  `SessionReleased` is excused by a failed hand-back, mark or release, and by a proxy
  whose claim took effect and was answered with an error (`Orphaned`, section 6).
- Snapshots: publishers tick, the region pulls, and strong fairness says that no
  kind of failure hits every attempt. A replica that closed after a failed write
  stays closed until somebody restarts it, which `CatchesUp` allows.
- Orders: no fairness; nothing in the code guarantees that somebody retries.

## 4. Proofs

Every invariant and every action property that a run checks is also a theorem, for
any value of the constants that satisfies the module's `ASSUME`: any finite sets of
regions, leases and requests, any number of workers or publishers, any limits,
amounts and horizons. Each proofs module states an invariant, shows that the initial
states satisfy it (`InitInv`) and that every action preserves it (one lemma per
action, `NextInv`), and derives the properties.

**Slots** (`RegionalSlotsProofs`).

| theorem | statement |
|---|---|
| `Invariance`, `TypeCorrect` | `Spec => []IInv`; no counter becomes negative |
| `BudgetIsExact` | `primary_used` and `granted` are the primary requests in flight and the slots of grants not closed |
| `UsedIsExact` | a region's `used` is its requests in flight, within the grant |
| `InFlightIsBacked` | requests in flight on all sites never exceed the allocation |
| `RegionIsNeverAhead` | a region's terms are terms the authority granted |
| `ReturnsOnlyIdleCapacity` | a closed grant has no request in flight |
| `CapacityIsAccounted` | the six above together: `CapacityAccounted`, which `slots_lifecycle` checks |
| `CancellationsHold` | a cancelled request holds nothing, whatever overtook what |
| `GrowthIsWithinLimit` | no step grows the allocation beyond the limit in force |
| `OwnersInvariance` | a second inductive invariant, `OwnersInv` |
| `NoGrantIsOrphaned` | no slots stay reserved for a lease its region neither has nor asks for |
| `OneGrantIsOpen` | a region has one open grant and one outstanding operation |
| `IdentitiesArePermanent` | released identities stay released, bound ones stay with their lease |

A region's grant is safe only because the authority once allocated exactly these
terms, so `IInv` carries every copy of a grant back to its origin: rows are filed
under the lease they name (`RowsKeyed`), every message in flight is a persisted
operation (`WirePersisted`), a confirmed replay, an installed grant and a receipt name
a grant of the authority with the same identity and no later revision (`LocalGranted`
and its companions), every bound slot belongs to an installed grant (`Bound`), and a
receipt exists only for a grant that is closed and idle in its region
(`ClosedFinished`). `InFlightBacked` then follows by comparing, lease by lease, the
requests bound to a grant with its slots. `OwnersInv` adds the other direction: an
issue is outstanding only while no grant but its own is open (`OneAtATime`), what was
answered agrees with the authority (`OutcomesSound`), and a rejected issue was never
granted, which is what the rejection row is for.

**Ledger** (`RegionalLedgerProofs`).

| theorem | statement |
|---|---|
| `Invariance` | `Spec => []Inv` |
| `SumsAreExact` | the sums kept in four places equal the rows they stand for and fit into the grant |
| `UpstreamIsCovered` | unsettled work that went upstream is covered by an open lease |
| `DeliveriesAreNeverRefused` | events can always be settled, receipts always agree |
| `NoLeaseIsOrphaned` | money is held only for leases their region has or asks for |
| `OneLeaseIsOpen` | one open lease per target |
| `QuotaIsKept` | use, and what may still come, grows only up to the quota in force |
| `LedgerIsAWallet` | `Spec => ImplementsWallet`: the refinement, step by step |

`Inv` says, table by table, how the four copies of a lease agree: the authority's row
and its allocation (`LeasesSound`), the region's row (`LocalSound`), the issue and its
call (`IssuesSound`) and the receipt (`ClosesSound`); that a completed request has its
event and a settled event its charge (`RequestsSound`, `EventsSound`); that a target
has one lease that is asked for or not returned (`OneAwaited`); and the sums
(`AuthoritySums`, `RegionSums`). Without `ClosesSound` nothing would stop the
authority from closing a lease under a request whose event is on its way; that a closed
region lease is `Resolved`, and that only settled events are acknowledged, is what
makes both sums of a receipt equal. `UpstreamCovered` and `DeliveryNeverRefused` share
one lemma (`Coverage`): any rows of a lease outside the settled ones cost no more than
the authority has left, because settled rows, other events and live rows are disjoint
parts of a sum that fits the grant. `QuotaGrowth` splits each step into taking, using
and freeing one allocation of the key's budget. For the refinement each action is one of
`Hold`, `Charge`, `Release` or a stutter: the money held is a sum over open balance
leases and live primary requests, so an action changes one summand (`WalletIssue`,
`WalletSettle`, `WalletClose`, `WalletReserve`, `WalletCancel`, `WalletComplete`), and
the others change none (`WalletIdle`). Steps on a subscription-funded lease are stutters
because the lease remembers the funding of its issue.

**Queue** (`KeyQueueProofs`): `LineIsBounded` (`TypeOK`, with the bound of the line),
`NoSlotLeaks`, `ForwardsHoldSlots`, `UnlimitedRequestsLeave`, and `NobodyOvertakes`, an
action property. `Sound` says for each stage of the goroutine which slot, ticket and
unserved command it may have; the properties are about few stages, but a command served
late can reach any of them. `LineSound` makes ticket numbers unique, without which
"older" would not be an order.

**Live sessions** (`LiveSessionProofs`): `SessionsKeepSlots`, `SlotsAreCountedOnce`,
`FencedLeasesHoldNothing`, `MovedSlotsAreNotLost`, `SessionsAreFinalizedOnce`,
`FailuresLeaveNoAccount`. The invariant follows the creation through its attempts: which
ordinary slots it may still hold (`SourcesSound`), what the lease holds before, during
and between attempts (`FirstAttempt`, `Attempting`, `BetweenAttempts`, `Ending`), that the
watchdog is off before anything moves (`RenewalOff`), and that one controller closes
(`OneCloser`).

**Snapshots** (`SnapshotStreamProofs`): `RevisionsAreFaithful`, `ViewsAreServedInTime`,
and `ViewsNeverRegress`, an action property: never below an accepted revision, and back
at all only in a power loss that finds a rename not synced. The invariant orders every packet in
circulation below the row of the stream (`StreamLatest`), lets a transaction whose row is
unchanged still become the next revision (`TransactionsSound`), and keeps the
accepted revision, the file's durable copy, the view and the visible file in order, the
last two equal while the replica is open (`RegionOrdered`).

**Orders** (`PaymentOrderProofs`): `CreditsOnce`, `DeductionsAreBounded`,
`HoldsAreOnRecord`, `AcksAreCredited`, and `OrdersAreNeverUndone`, an action property.
What a worker has seen still holds when it acts (`WorkersSound`: the code's state only
moves forward, audit rows stay), one refund owns the row (`RefundsSound`), what it is to
return has been taken (`Backed`), and the amount taken is the one on record as long as
no failed read was taken for an answer (`OnRecord`). What is taken is counted without
`unseen`, so `Backed` and `OnRecord` say nothing of a deduction that committed and was
answered with an error; the balance itself does contain it. `OrdersAreNeverUndone`
needs a second layer, `Recorded`: a success on record is the gateway's, which is final,
so that no finalization of a failure is under way or can begin once a commit in doubt
has put a refunded order back to pending. A deduction of an accounted refund is
therefore never returned.

**Prices** (`Pricing`), for every valid price and every usage:

| theorem | statement |
|---|---|
| `ChargeWithinMaximum` | usage within the window and the reserved output limit costs at most what `Maximum` reserved, and is never refused for its amount when the reservation was not |
| `ChargeRoundsOnce` | the charge is a multiple of the quantum, at least the exact price and less than one quantum above it |

The argument is monotonicity: each input category costs at most the dearest rate,
the window bounds their sum, and rounding up preserves order. `RegionalLedger`
uses the result: a `Complete` above the maximum is refused there, and the theorem
says that only an upstream which breaks the contract causes one. `Pricing` has no
state and no run; its only hypothesis about a constant, `MaxAmount \in Nat`, is
stated in the theorem.

**Sums** (`PileTheorems`). A sum over a finite set is the size of a set of tokens
(`Piles`), so that facts about sums follow from facts about finite sets, without the
induction over data that no installed prover can do: adding, removing and changing
one element (`TotalAdd`, `TotalRemove`, `TotalChange`), disjoint unions and subsets
(`TotalSplit`, `TotalSubset`), and `PileBound`, a counting argument.

Only model-checked: the liveness properties `IssueDecided`, `DrainReturnsSlots`,
`UsageDelivered`, `LeaseReturned`, `AttemptEnds`, `CreationEnds`, `SessionReleased` and
`CatchesUp`, because liveness under fairness (and ENABLED) is out of the prover's reach;
and the two properties that the code violates (section 6).

What the proofs changed in the modules: `Serve` in `KeyQueue` had a CASE whose guards
overlapped for a request without a queue and is now a plain conditional;
`DeductedOnce` bounds what refunds return unconditionally, not only while nothing was
swallowed; the packet type of `SnapshotStream` bounds the possible revisions by
`MaxData + Horizon + 1 + MaxDoubts`.

## 5. Properties by hazard

The mapping from each hazard to its properties is in `PROJECT.json`. The ones to
read first: `CapacityAccounted`, `NoOrphanGrant`, `CancelledHoldsNothing` (slots);
`ImplementsWallet`, `UpstreamCovered`, `DeliveryNeverRefused` (ledger);
`NoLeakedSlot`, `ForwardHoldsSlot`, `NoOvertaking` (queue); `SessionKeepsSlots`,
`FencedHoldsNothing`, `SessionReleased` (Live); `RevisionsFaithful`,
`ViewNeverRegresses` (snapshots); `CreditedOnce`, `HoldOnRecord`,
`AckedIsCredited` (orders).

## 6. Where the code and its documents disagree

Shown by a run:

1. **A failed Live creation keeps the key's and the user's slot**
   (`live_joint_leak`). After a failed upstream attempt `CreateLiveCall` forgets the
   account of the joint lease and later releases the lease under account 0. The SQL
   store compares the account with the stored one and refuses; the refusal is
   ignored. The comment above the last `releaseJoint` says exhausted attempts
   release these slots now. `FailedLeavesNoAccount` is what does hold.
2. **A second pending refund is not recorded** (`refund_second_pending`).
   `markRefundPending` writes the status and a REFUND_PENDING audit row in one
   transaction so that the kept deduction can be found later. Migration 131 made
   (order, action) unique, so for an order that was pending before, the row is
   refused and the status with it: the order stays REFUNDING, where neither a
   query nor a new attempt accepts it. `finalizeRefundFailedTx` meets the same index
   with a second REFUND_FAILED row.

Found while modelling, not kept as runs:

3. **Lost renewal blocks a drain.** A renewal committed at the authority whose
   answer is lost before `BeginDrain` leaves the region one revision behind; its
   receipt never matches (`slots.go`, `Close`) and the slots are not returned, although
   `docs/regional-shared-slots.md` describes the procedure as ending with their
   return. `DrainReturnsSlots` therefore speaks of grants whose revision the region
   knows.
4. **A refused Start blocks a drain.** A request reserved but refused at `Start`
   counts as sent, is canceled by nobody and keeps its lease from closing, although
   `docs/regional-ledger.md` says a drain waits for started requests.
   `LeaseReturned` excludes leases with such a request.
5. **A changed limit dead-ends the queue.** A ticket keeps the limit it was written
   with, so a retry with the refreshed limit, which the comment of the wait loop
   describes, is refused until the deadline. `AttemptEnds` holds all the same.
6. **A grant drained or renewed before its issue was confirmed** is no longer
   answered with success (`Primary.Issue`), so the broker can neither install nor
   close it. `IssueDecided` excludes it.

7. **A deduction answered with an error is taken twice.** `DeductAvailableBalance` is
   one statement that commits by itself; when its answer is an error after the commit
   (`user_repo.go:956-974`), `ExecuteRefund` restores the status
   (`payment_refund.go:319-323`) with nothing on record, and the next attempt deducts
   again. `DeductedOnce` and `HoldOnRecord` leave such deductions out (`unseen`).
8. **A rollback answered with an error is remembered as failed.** When the amount was
   returned all the same, REFUND_ROLLBACK_FAILED makes the next attempt skip its
   deduction, and the refund is paid without one.
9. **A refunded order may be pending again, for good.** When the commit of
   `markRefundOk` landed and was answered with an error (`payment_refund.go:790`),
   `finishRefund` calls `markRefundPending`, whose update by ID has no condition on the
   status (867). Reconciliation cannot leave that state: its REFUND_SUCCESS row is the
   order's second, which the unique index refuses. `NeverUndone` says that it is no worse.
10. **Success is answered for a payment nobody looked at.** When
   `GetWebhookProviders` fails (no instance, an ambiguous fallback, an unusable
   configuration), `handleNotify` answers every provider but WeChat Pay with success
   (`payment_webhook_handler.go:90-99`), and the provider stops notifying of a paid
   order. `AckedIsCredited` is about `HandlePaymentNotification` only.
11. **A claim in doubt orphans a Live session.** `ProxyLiveSideband` returns when its
   claim is answered with an error (`openai_live.go:756-759`), although the script may
   have made it the controller. Nobody runs then, observers leave a session that a
   proxy controls, and its slots stay held: `SessionReleased` excuses it (`Orphaned`).
12. **A reopened replica may serve what a power loss takes back.** `writeAtomic`
   renames before it syncs the directory; after a failure in between,
   `OpenReplica` (`sync.go:122-152`) serves the new file without syncing it, and
   the loss of power then brings the old revision back. What `contracts.go:50`
   demands ("Accepted revision must never regress") holds of revisions whose `Accept`
   returned without error, not of all that are served. `ViewNeverRegresses` says the
   first and allows this one step of the second.

What the models show the code leaves open, as their history variables say:
`ProxyLiveSideband` goes on as an observer although its hand-back failed, and then
finds a session that still names the proxy; a failed `MarkLiveCallClosed` or
`ReleaseLiveLease` is not retried (`spoiled`). A failed read of an order is taken for
its absence and answered with success; a failed restore of a status or audit row is
only logged (`swallowed`). A process that dies in a refund leaves the order
REFUNDING, and a gateway whose answer is lost after it paid is taken for a refusal.
The version of a fulfilment lease protects the order row; that the balance is
credited once rests on the redeem code and the rebate on its audit row, not on it.

## 7. Plan

Done so far: the slot protocol, the ledger and its abstract wallet, the queue, Live
sessions with the watchdog, the snapshot stream, payment orders and pricing, each with
proofs of its safety properties.

Next proofs: an abstract specification of the slots (a semaphore whose holders never
outnumber what was admitted under a limit) and of the wait queue (first come, first
served), each with its step simulation; that the watchdog and the controllers of
`LiveSession` implement a single owner.

Next modules, should the project grow: budget windows that roll over while
allocations are out, the cutover epochs, the idempotency store, batch image holds.

## 8. Not modelled

Message encoding, signatures, mutual TLS, JSON and SQL text; statistics and
read-only endpoints; the choice of amounts from model usage (abstracted to an amount
within the maximum, or above it and refused). Of Live sessions: the renewal of a
running lease and the sorted row locks of the handoff (`regional_live.go:55`), whose
freedom from deadlock a model of whole transactions cannot show. Of orders:
subscription orders, order creation and provider choice, partial amounts. Everything
listed as `not_modelled` in `PROJECT.json`: the larger part of the repository converts
protocols between clients and upstreams, or is generated code (`backend/ent/`), and
has no state of its own that a model checker would reach better than a test. A
region's database that loses committed data is outside the failure model of the
code and of the modules.

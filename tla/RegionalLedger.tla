---------------------------- MODULE RegionalLedger ----------------------------
(***************************************************************************)
(* The money of ONE user, spent through one API key on the primary site    *)
(* and in its regions (backend/internal/regional/ledger,                   *)
(* .../repository/regional_budget_*.go, regional_funds_broker.go,          *)
(* .../service/regional_metering.go).                                      *)
(*                                                                         *)
(* The authority debits the balance when it issues a lease to a region.    *)
(* The region reserves the maximum of each request from its lease, commits *)
(* Start before the first upstream byte, and on completion replaces the    *)
(* maximum by the charge and queues a usage event.  A background worker    *)
(* settles the events at the authority, drains leases that expired or ran  *)
(* out, and returns what is left.  Requests of the primary site take their *)
(* maximum from the balance directly.                                      *)
(*                                                                         *)
(* A database transaction locks the rows it reads, so it is one action.    *)
(* Each region has one funded target (this user, this key, one account).   *)
(***************************************************************************)
EXTENDS Integers, FiniteSets, Piles

CONSTANTS
  Regions,          \* regional sites
  Leases,           \* lease IDs (uuid.NewString) the brokers may draw
  RegionRequests,   \* request IDs served by a region
  PrimaryRequests,  \* request IDs served by the primary site
  Amounts,          \* grants a region may be configured to ask for
  Maxima,           \* conservative maximum cost of a request
  Deposit,          \* users.balance at cutover
  Quotas,           \* api_keys.quota values an administrator sets; 0: none
  Kinds,            \* funding of the key's group: "balance", "subscription"
  Lifetime,         \* configured lease lifetime, in clock ticks
  MaxAge,           \* the five seconds after which an issue is stale, in ticks
  Crashes,          \* whether requests may die without finishing
  PrimaryHorizon,   \* bound on the authority's clock
  RegionHorizon     \* bound on every region's clock

Requests == RegionRequests \cup PrimaryRequests

ASSUME LedgerAssumption ==
  /\ IsFiniteSet(Regions)
  /\ IsFiniteSet(Leases)
  /\ IsFiniteSet(RegionRequests)
  /\ IsFiniteSet(PrimaryRequests)
  /\ RegionRequests \cap PrimaryRequests = {}
  /\ Leases \cap Requests = {}
  /\ Amounts \subseteq Nat \ {0}
  /\ Maxima \subseteq Nat \ {0}
  /\ Deposit \in Nat
  /\ Quotas \subseteq Nat
  /\ Kinds \subseteq {"balance", "subscription"}
  /\ Lifetime \in Nat \ {0}
  /\ MaxAge \in Nat
  /\ Crashes \in BOOLEAN
  /\ PrimaryHorizon \in Nat
  /\ RegionHorizon \in Nat

VARIABLES
  balance,      \* users.balance
  active,       \* user, key, group and account are all active
  kind,         \* subscription_type of the key's group
  quota,        \* api_keys.quota
  quotaUsed,    \* api_keys.quota_used
  allocations,  \* regional_budget_allocations: lease or request -> [maximum, spent, state]
  leases,       \* regional_quota_leases: lease -> [l, spent, state]
  settled,      \* regional_settled_events: request -> charge
  holds,        \* regional_primary_requests: request -> [maximum, state, funded, charge]
  primaryNow,   \* clock_timestamp() of the authority
  localLeases,  \* regional_local_leases: lease -> [l, spent, reserved, state]
  requests,     \* regional_local_requests: request -> [lease, maximum, state]
  outbox,       \* regional_usage_outbox: request -> [charge, acknowledged]
  regionNow,    \* clock_timestamp() of each region
  attempts,     \* request -> "admitted" | "sending" | "ended": the process serving it
  canceling,    \* requests whose finish found that nothing was sent
  dispatched,   \* requests that may have reached the upstream
  issues,       \* regional_broker_operations quota/issue: lease -> [l, state]
  closes,       \* regional_broker_operations quota/close: lease -> [spent, state]
  calls,        \* progress of the replay that holds an issue's row lock
  confirmed     \* events and receipts the authority has confirmed to a worker

authorityVars == <<balance, active, kind, quota, quotaUsed, allocations, leases,
                   settled, holds, primaryNow>>
regionVars    == <<localLeases, requests, outbox, regionNow>>
processVars   == <<attempts, canceling, dispatched>>
brokerVars    == <<issues, closes, calls, confirmed>>
vars == <<authorityVars, regionVars, processVars, brokerVars>>

-----------------------------------------------------------------------------
(* Leases and tables *)

Lease == [id: Leases, region: Regions, granted: Amounts, mode: Kinds,
          issuedAt: Nat, expiresAt: Nat]

RequestState == {"reserved", "started", "completed", "canceled"}

\* The table t with a row inserted or replaced under key k.
Put(t, k, row) == [x \in DOMAIN t \cup {k} |-> IF x = k THEN row ELSE t[x]]

TypeOK ==
  /\ balance \in Nat
  /\ active \in BOOLEAN
  /\ kind \in Kinds
  /\ quota \in Quotas
  /\ quotaUsed \in Nat
  /\ DOMAIN allocations \subseteq Leases \cup PrimaryRequests
  /\ \A a \in DOMAIN allocations :
        allocations[a] \in [maximum: Nat, spent: Nat, state: {"held", "closed"}]
  /\ DOMAIN leases \subseteq Leases
  /\ \A l \in DOMAIN leases :
        leases[l] \in [l: Lease, spent: Nat, state: {"open", "closed"}]
  /\ DOMAIN settled \subseteq RegionRequests
  /\ \A q \in DOMAIN settled : settled[q] \in Nat
  /\ DOMAIN holds \subseteq PrimaryRequests
  /\ \A q \in DOMAIN holds :
        holds[q] \in [maximum: Maxima, state: RequestState, funded: BOOLEAN, charge: Nat]
  /\ primaryNow \in Nat
  /\ DOMAIN localLeases \subseteq Leases
  /\ \A l \in DOMAIN localLeases :
        localLeases[l] \in [l: Lease, spent: Nat, reserved: Nat,
                            state: {"open", "draining", "closed"}]
  /\ DOMAIN requests \subseteq RegionRequests
  /\ \A q \in DOMAIN requests :
        requests[q] \in [lease: Leases, maximum: Maxima, state: RequestState]
  /\ DOMAIN outbox \subseteq RegionRequests
  /\ \A q \in DOMAIN outbox : outbox[q] \in [charge: Nat, acknowledged: BOOLEAN]
  /\ regionNow \in [Regions -> Nat]
  /\ DOMAIN attempts \subseteq Requests
  /\ \A q \in DOMAIN attempts : attempts[q] \in {"admitted", "sending", "ended"}
  /\ canceling \subseteq Requests
  /\ dispatched \subseteq Requests
  /\ DOMAIN issues \subseteq Leases
  /\ \A l \in DOMAIN issues :
        issues[l] \in [l: Lease, state: {"pending", "installed", "rejected"}]
  /\ DOMAIN closes \subseteq Leases
  /\ \A l \in DOMAIN closes :
        closes[l] \in [spent: Nat, state: {"pending", "installed"}]
  /\ DOMAIN calls = DOMAIN issues
  /\ \A l \in DOMAIN calls : calls[l] \in {"idle", "ok", "gone", "stored"}
  /\ confirmed \subseteq RegionRequests \cup Leases

Empty == [x \in {} |-> x]

Init ==
  /\ balance = Deposit
  /\ active = TRUE
  /\ kind \in Kinds
  /\ quota \in Quotas
  /\ quotaUsed = 0
  /\ allocations = Empty /\ leases = Empty /\ settled = Empty /\ holds = Empty
  /\ primaryNow = 0
  /\ localLeases = Empty /\ requests = Empty /\ outbox = Empty
  /\ regionNow = [r \in Regions |-> 0]
  /\ attempts = Empty /\ canceling = {} /\ dispatched = {}
  /\ issues = Empty /\ closes = Empty /\ calls = Empty /\ confirmed = {}

-----------------------------------------------------------------------------
(* The authority: administration and scope (regional_budget_*.go) *)

\* An administrator disables or enables the user, the key, its group or the
\* account; moves the key to a group of the other kind; edits the key's quota.
Administer ==
  /\ \/ active' = ~active /\ UNCHANGED <<kind, quota>>
     \/ kind' \in Kinds \ {kind} /\ UNCHANGED <<active, quota>>
     \/ quota' \in Quotas \ {quota} /\ UNCHANGED <<active, kind>>
  /\ UNCHANGED <<balance, quotaUsed, allocations, leases, settled, holds,
                 primaryNow, regionVars, processVars, brokerVars>>

HeldAllocations == {a \in DOMAIN allocations : allocations[a].state = "held"}

\* What the key's requests and leases may still add to quota_used.
HeldBudget ==
  Total(HeldAllocations,
        [a \in DOMAIN allocations |-> allocations[a].maximum - allocations[a].spent])

\* Mutant: unresolved allocations are left out of the comparison.
FitsUsage(n) == active /\ (quota = 0 \/ quotaUsed + n <= quota)

\* RegionalBudgetScope.Reserve.  The time windows, the account, subscription
\* and platform limits have the shape of this one.
ScopeAdmits(n) == active /\ (quota = 0 \/ quotaUsed + n + HeldBudget <= quota)

NewAllocation(n) == [maximum |-> n, spent |-> 0, state |-> "held"]

\* The debit of users.balance finds an active user with enough of it.
Affordable(n) == active /\ n <= balance

Funded == kind # "subscription"

\* The answer to an event or receipt x reaches the worker that still waits for
\* it, or it is lost.
Confirm(x) == \/ confirmed' = confirmed \cup {x}
              \/ UNCHANGED confirmed

-----------------------------------------------------------------------------
(* The authority: leases (primary.go) *)

AnswerIssue(l, status) ==
  /\ IF issues[l].state = "pending" /\ calls[l] = "idle"
       THEN \/ calls' = [calls EXCEPT ![l] = status]
            \/ UNCHANGED calls
       ELSE UNCHANGED calls
  /\ UNCHANGED <<issues, closes, confirmed>>

\* Primary.Issue of a lease that exists, in whatever state it is by now.
IssueRepeated(l) ==
  /\ l \in DOMAIN leases
  /\ leases[l].l = issues[l].l
  /\ AnswerIssue(l, "ok")
  /\ UNCHANGED <<authorityVars, regionVars, processVars>>

ExpiredUnissued(l) == l \notin DOMAIN leases /\ primaryNow >= issues[l].l.expiresAt

\* ErrExpiredUnissued is conclusive without being recorded: the authority's
\* clock never runs backwards, so no later copy can be issued either.
IssueExpired(l) ==
  /\ ExpiredUnissued(l)
  /\ AnswerIssue(l, "gone")
  /\ UNCHANGED <<authorityVars, regionVars, processVars>>

Issuable(g) ==
  /\ primaryNow < g.expiresAt
  /\ g.issuedAt <= primaryNow
  /\ primaryNow - g.issuedAt <= MaxAge

\* Primary.Issue of a new lease: debit, budget scope and identity together.
Issue(l) ==
  LET g == issues[l].l IN
    /\ l \notin DOMAIN leases
    /\ Issuable(g)
    /\ g.mode = kind
    /\ Funded => Affordable(g.granted)
    /\ balance' = IF Funded THEN balance - g.granted ELSE balance
    /\ ScopeAdmits(g.granted)
    /\ allocations' = Put(allocations, l, NewAllocation(g.granted))
    /\ leases' = Put(leases, l, [l |-> g, spent |-> 0, state |-> "open"])
    /\ AnswerIssue(l, "ok")
    /\ UNCHANGED <<active, kind, quota, quotaUsed, settled, holds, primaryNow,
                   regionVars, processVars>>

\* Mutant: the permanent event identity is not looked up.
AnyEvent(q) == TRUE

Unsettled(q) == q \notin DOMAIN settled

\* Mutant: usage is settled only while the lease has not expired.
SettleableInTime(q) ==
  LET l == requests[q].lease IN
    /\ l \in DOMAIN leases
    /\ leases[l].state = "open"
    /\ primaryNow < leases[l].l.expiresAt

\* Primary.Settle refuses an event its open lease or its allocation cannot pay.
Settleable(q) ==
  LET l == requests[q].lease  c == outbox[q].charge IN
    /\ l \in DOMAIN leases
    /\ leases[l].state = "open"
    /\ allocations[l].state = "held"
    /\ c <= allocations[l].maximum - allocations[l].spent
    /\ c <= leases[l].l.granted - leases[l].spent

\* Primary.Settle of an event seen for the first time, with the verifier's
\* RegionalBudgetScope.Charge.
Settle(q) ==
  LET l == requests[q].lease  c == outbox[q].charge IN
    /\ Unsettled(q)
    /\ Settleable(q)
    /\ quotaUsed' = quotaUsed + c
    /\ allocations' = [allocations EXCEPT ![l].spent = @ + c]
    /\ leases' = [leases EXCEPT ![l].spent = @ + c]
    /\ settled' = Put(settled, q, c)
    /\ Confirm(q)
    /\ UNCHANGED <<balance, active, kind, quota, holds, primaryNow, regionVars,
                   processVars, issues, closes, calls>>

\* Primary.Settle of an event that was settled before.  A copy that arrives after
\* the acknowledgement changes nothing.
SettleRepeated(q) ==
  /\ q \in DOMAIN settled
  /\ settled[q] = outbox[q].charge
  /\ ~outbox[q].acknowledged
  /\ confirmed' = confirmed \cup {q}
  /\ UNCHANGED <<authorityVars, regionVars, processVars, issues, closes, calls>>

StillOpen(l) == leases[l].state = "open"

\* Mutant: the funding of today decides, not that of the issue.
RefundToday(l) == IF Funded THEN leases[l].l.granted - leases[l].spent ELSE 0

Refund(l) ==
  IF leases[l].l.mode = "subscription" THEN 0 ELSE leases[l].l.granted - leases[l].spent

\* Primary.Close of a receipt that agrees with the authority's own sum.
ReceiptAgrees(l) == l \in DOMAIN leases /\ closes[l].spent = leases[l].spent

Close(l) ==
  /\ ReceiptAgrees(l)
  /\ StillOpen(l)
  /\ allocations[l].spent = leases[l].spent
  /\ balance' = balance + Refund(l)
  /\ allocations' = [allocations EXCEPT ![l].state = "closed"]
  /\ leases' = [leases EXCEPT ![l].state = "closed"]
  /\ Confirm(l)
  /\ UNCHANGED <<active, kind, quota, quotaUsed, settled, holds, primaryNow,
                 regionVars, processVars, issues, closes, calls>>

\* Mutant: only an open lease is closed.
NeverClosed(l) == FALSE

ClosedBefore(l) == leases[l].state = "closed"

CloseRepeated(l) ==
  /\ ReceiptAgrees(l)
  /\ ClosedBefore(l)
  /\ closes[l].state = "pending"
  /\ confirmed' = confirmed \cup {l}
  /\ UNCHANGED <<authorityVars, regionVars, processVars, issues, closes, calls>>

TickPrimary ==
  /\ primaryNow < PrimaryHorizon
  /\ primaryNow' = primaryNow + 1
  /\ UNCHANGED <<balance, active, kind, quota, quotaUsed, allocations, leases,
                 settled, holds, regionVars, processVars, brokerVars>>

-----------------------------------------------------------------------------
(* Requests of the primary site (primary_requests.go) *)

\* Reserve of a request without a row; a repetition is not fresh and is never
\* dispatched.
PrimaryReserve(q, m) ==
  /\ q \notin DOMAIN holds
  /\ Funded => Affordable(m)
  /\ balance' = IF Funded THEN balance - m ELSE balance
  /\ ScopeAdmits(m)
  /\ allocations' = Put(allocations, q, NewAllocation(m))
  /\ holds' = Put(holds, q, [maximum |-> m, state |-> "reserved", funded |-> Funded,
                             charge |-> 0])
  /\ attempts' = Put(attempts, q, "admitted")
  /\ UNCHANGED <<active, kind, quota, quotaUsed, leases, settled, primaryNow,
                 canceling, dispatched, regionVars, brokerVars>>

PrimaryStart(q) ==
  /\ attempts[q] = "sending" /\ q \notin dispatched
  /\ holds[q].state = "reserved"
  /\ holds' = [holds EXCEPT ![q].state = "started"]
  /\ dispatched' = dispatched \cup {q}
  /\ UNCHANGED <<balance, active, kind, quota, quotaUsed, allocations, leases,
                 settled, primaryNow, attempts, canceling, regionVars, brokerVars>>

Returned(q, n) == IF holds[q].funded THEN n ELSE 0

Cancelable(row) == row.state = "reserved"

PrimaryCancel(q) ==
  /\ q \in canceling
  /\ Cancelable(holds[q])
  /\ allocations' = [allocations EXCEPT ![q].state = "closed"]
  /\ balance' = balance + Returned(q, holds[q].maximum)
  /\ holds' = [holds EXCEPT ![q].state = "canceled"]
  /\ canceling' = canceling \ {q}
  /\ UNCHANGED <<active, kind, quota, quotaUsed, leases, settled, primaryNow,
                 attempts, dispatched, regionVars, brokerVars>>

PrimaryComplete(q, c) ==
  /\ attempts[q] = "sending" /\ q \in dispatched /\ q \notin canceling
  /\ holds[q].state = "started"
  /\ c <= holds[q].maximum
  /\ allocations[q].state = "held"
  /\ quotaUsed' = quotaUsed + c
  /\ allocations' = [allocations EXCEPT ![q].spent = c, ![q].state = "closed"]
  /\ balance' = balance + Returned(q, holds[q].maximum - c)
  /\ holds' = [holds EXCEPT ![q].state = "completed", ![q].charge = c]
  /\ attempts' = [attempts EXCEPT ![q] = "ended"]
  /\ UNCHANGED <<active, kind, quota, leases, settled, primaryNow, canceling,
                 dispatched, regionVars, brokerVars>>

-----------------------------------------------------------------------------
(* Requests of a region (local.go) *)

\* The lease takes new work at the region's present time.
Spendable(l) ==
  LET row == localLeases[l] IN
    /\ row.state = "open"
    /\ regionNow[row.l.region] >= row.l.issuedAt
    /\ regionNow[row.l.region] < row.l.expiresAt

\* Mutant: what other requests have reserved is not counted.
CoversSpent(row, m) == row.l.granted - row.spent >= m

Covers(row, m) == row.l.granted - row.spent - row.reserved >= m

\* Local.Reserve of a request without a row.
Reserve(q, l, m) ==
  /\ q \notin DOMAIN requests
  /\ l \in DOMAIN localLeases
  /\ m <= localLeases[l].l.granted
  /\ Spendable(l)
  /\ Covers(localLeases[l], m)
  /\ localLeases' = [localLeases EXCEPT ![l].reserved = @ + m]
  /\ requests' = Put(requests, q, [lease |-> l, maximum |-> m, state |-> "reserved"])
  /\ attempts' = Put(attempts, q, "admitted")
  /\ UNCHANGED <<outbox, regionNow, canceling, dispatched, authorityVars, brokerVars>>

Startable(q) == Spendable(requests[q].lease) /\ requests[q].state = "reserved"

\* Local.Start commits before the first upstream byte.
Start(q) ==
  /\ attempts[q] = "sending" /\ q \notin dispatched
  /\ Startable(q)
  /\ requests' = [requests EXCEPT ![q].state = "started"]
  /\ dispatched' = dispatched \cup {q}
  /\ UNCHANGED <<localLeases, outbox, regionNow, attempts, canceling,
                 authorityVars, brokerVars>>

\* Local.CancelBeforeStart.
Cancel(q) ==
  /\ q \in canceling
  /\ Cancelable(requests[q])
  /\ localLeases' = [localLeases EXCEPT ![requests[q].lease].reserved = @ - requests[q].maximum]
  /\ requests' = [requests EXCEPT ![q].state = "canceled"]
  /\ canceling' = canceling \ {q}
  /\ UNCHANGED <<outbox, regionNow, attempts, dispatched, authorityVars, brokerVars>>

\* Local.Complete, also after the lease expired or began to drain.
Complete(q, c) ==
  LET l == requests[q].lease IN
    /\ attempts[q] = "sending" /\ q \in dispatched /\ q \notin canceling
    /\ requests[q].state = "started"
    /\ c <= localLeases[l].l.granted
    /\ c <= requests[q].maximum
    /\ localLeases' = [localLeases EXCEPT ![l].reserved = @ - requests[q].maximum,
                                          ![l].spent = @ + c]
    /\ requests' = [requests EXCEPT ![q].state = "completed"]
    /\ outbox' = Put(outbox, q, [charge |-> c, acknowledged |-> FALSE])
    /\ attempts' = [attempts EXCEPT ![q] = "ended"]
    /\ UNCHANGED <<regionNow, canceling, dispatched, authorityVars, brokerVars>>

\* Local.Acknowledge after Flush saw the event settled.
Acknowledge(q) ==
  /\ q \in confirmed
  /\ outbox' = [outbox EXCEPT ![q].acknowledged = TRUE]
  /\ confirmed' = confirmed \ {q}
  /\ UNCHANGED <<localLeases, requests, regionNow, issues, closes, calls,
                 authorityVars, processVars>>

TickRegion(r) ==
  /\ regionNow[r] < RegionHorizon
  /\ regionNow' = [regionNow EXCEPT ![r] = @ + 1]
  /\ UNCHANGED <<localLeases, requests, outbox, authorityVars, processVars, brokerVars>>

-----------------------------------------------------------------------------
(* The process serving a request (regional_metering.go, execution.go) *)

\* regionalMeterBeforeSend: one attempt per request may go on to call Start.
BeforeSend(q) ==
  /\ attempts[q] = "admitted"
  /\ attempts' = [attempts EXCEPT ![q] = "sending"]
  /\ UNCHANGED <<canceling, dispatched, authorityVars, regionVars, brokerVars>>

\* finish found nothing sent and is about to cancel.  A sender of the same turn
\* may still be on its way to BeforeSend.
GiveUp(q) ==
  /\ attempts[q] = "admitted"
  /\ q \notin canceling
  /\ canceling' = canceling \cup {q}
  /\ UNCHANGED <<attempts, dispatched, authorityVars, regionVars, brokerVars>>

RowState(q) == IF q \in PrimaryRequests THEN holds[q].state ELSE requests[q].state

\* ErrAlreadyDispatched: a sender was faster.  This was the only call of finish,
\* so the usage of the request is lost and its maximum stays taken.
CancelRefused(q) ==
  /\ q \in canceling
  /\ RowState(q) # "reserved"
  /\ canceling' = canceling \ {q}
  /\ attempts' = [attempts EXCEPT ![q] = "ended"]
  /\ UNCHANGED <<dispatched, authorityVars, regionVars, brokerVars>>

\* Start refused: nothing goes upstream, and finish does not cancel either
\* because the attempt counts as sent.
StartRefused(q) ==
  /\ attempts[q] = "sending" /\ q \notin dispatched
  /\ IF q \in PrimaryRequests THEN holds[q].state # "reserved" ELSE ~Startable(q)
  /\ attempts' = [attempts EXCEPT ![q] = "ended"]
  /\ UNCHANGED <<canceling, dispatched, authorityVars, regionVars, brokerVars>>

\* The process dies, a database call fails or loses its answer, or the upstream
\* sends no final usage: the row stays as it is.
Die(q) ==
  /\ Crashes
  /\ attempts[q] # "ended"
  /\ attempts' = [attempts EXCEPT ![q] = "ended"]
  /\ canceling' = canceling \ {q}
  /\ UNCHANGED <<dispatched, authorityVars, regionVars, brokerVars>>

-----------------------------------------------------------------------------
(* The region's background worker (regional_funds_broker.go, broker.go) *)

\* Mutant: a lease closed in the region counts as returned.
NothingOpen(r) ==
  \A l \in DOMAIN localLeases :
    localLeases[l].l.region = r => localLeases[l].state = "closed"

\* Every lease of the target is closed here and at the authority.
NothingOut(r) ==
  \A l \in DOMAIN localLeases :
    localLeases[l].l.region = r =>
      /\ localLeases[l].state = "closed"
      /\ l \in DOMAIN closes /\ closes[l].state = "installed"

NothingPending(r) ==
  \A l \in DOMAIN issues : issues[l].l.region = r => issues[l].state # "pending"

\* ensureRegionalFunds persists the issue of a fresh lease.  The last guard is
\* the bound on the model's clocks.
EnsureFunds(r, n, mode) ==
  /\ NothingPending(r)
  /\ NothingOut(r)
  /\ regionNow[r] + Lifetime <= RegionHorizon
  /\ \E l \in Leases \ DOMAIN issues :
       /\ issues' = Put(issues, l,
            [state |-> "pending",
             l |-> [id |-> l, region |-> r, granted |-> n, mode |-> mode,
                    issuedAt |-> regionNow[r], expiresAt |-> regionNow[r] + Lifetime]])
       /\ calls' = Put(calls, l, "idle")
  /\ UNCHANGED <<closes, confirmed, authorityVars, regionVars, processVars>>

\* A replay loses its transaction, or Install fails, after the answer came.
ReplayFails(l) ==
  /\ calls[l] # "idle"
  /\ calls' = [calls EXCEPT ![l] = "idle"]
  /\ UNCHANGED <<issues, closes, confirmed, authorityVars, regionVars, processVars>>

\* Mutant: an issue without an answer is taken for a refusal.
NoConfirmation(l) == issues[l].state = "pending" /\ calls[l] \in {"idle", "gone"}

ToldGone(l) == calls[l] = "gone"

ReplayRejected(l) ==
  /\ ToldGone(l)
  /\ issues' = [issues EXCEPT ![l].state = "rejected"]
  /\ calls' = [calls EXCEPT ![l] = "idle"]
  /\ UNCHANGED <<closes, confirmed, authorityVars, regionVars, processVars>>

\* Local.Install: ON CONFLICT DO NOTHING keeps the row of a replayed issue.
Installed(l) ==
  IF l \in DOMAIN localLeases THEN localLeases
  ELSE Put(localLeases, l,
           [l |-> issues[l].l, spent |-> 0, reserved |-> 0, state |-> "open"])

ReplayInstall(l) ==
  /\ calls[l] = "ok"
  /\ localLeases' = Installed(l)
  /\ calls' = [calls EXCEPT ![l] = "stored"]
  /\ UNCHANGED <<requests, outbox, regionNow, issues, closes, confirmed,
                 authorityVars, processVars>>

ReplayInstalled(l) ==
  /\ calls[l] = "stored"
  /\ issues' = [issues EXCEPT ![l].state = "installed"]
  /\ calls' = [calls EXCEPT ![l] = "idle"]
  /\ UNCHANGED <<closes, confirmed, authorityVars, regionVars, processVars>>

\* drainRegionalFunds picks the open leases that expired or ran out.
Due(row) ==
  \/ row.l.expiresAt <= regionNow[row.l.region]
  \/ row.l.granted = row.spent /\ row.reserved = 0

\* Local.Drain.
Drain(l) ==
  /\ localLeases[l].state = "open"
  /\ Due(localLeases[l])
  /\ localLeases' = [localLeases EXCEPT ![l].state = "draining"]
  /\ UNCHANGED <<requests, outbox, regionNow, authorityVars, processVars, brokerVars>>

RowsOf(l) == {q \in DOMAIN requests : requests[q].lease = l}

\* Mutant: events on their way to the authority do not hold up the close.
NothingInFlight(l) ==
  \A q \in RowsOf(l) : requests[q].state \notin {"reserved", "started"}

Resolved(l) ==
  \A q \in RowsOf(l) :
    \/ requests[q].state = "canceled"
    \/ requests[q].state = "completed" /\ q \in DOMAIN outbox /\ outbox[q].acknowledged

\* Local.Close.
LocalClose(l) ==
  /\ localLeases[l].state = "draining"
  /\ localLeases[l].reserved = 0
  /\ Resolved(l)
  /\ localLeases' = [localLeases EXCEPT ![l].state = "closed"]
  /\ UNCHANGED <<requests, outbox, regionNow, authorityVars, processVars, brokerVars>>

\* The receipt is queued in a transaction of its own, again after a crash.
QueueClose(l) ==
  /\ localLeases[l].state = "closed"
  /\ l \notin DOMAIN closes
  /\ closes' = Put(closes, l, [spent |-> localLeases[l].spent, state |-> "pending"])
  /\ UNCHANGED <<issues, calls, confirmed, authorityVars, regionVars, processVars>>

CloseInstalled(l) ==
  /\ l \in confirmed
  /\ closes' = [closes EXCEPT ![l].state = "installed"]
  /\ confirmed' = confirmed \ {l}
  /\ UNCHANGED <<issues, calls, authorityVars, regionVars, processVars>>

\* A worker dies between the authority's confirmation and its own commit.
ForgetAnswer(x) ==
  /\ x \in confirmed
  /\ confirmed' = confirmed \ {x}
  /\ UNCHANGED <<issues, closes, calls, authorityVars, regionVars, processVars>>

-----------------------------------------------------------------------------
\* A copy of an operation or event may be served as soon as it is persisted and
\* at any time later, however often.
Authority ==
  \/ Administer
  \/ \E l \in DOMAIN issues : IssueRepeated(l) \/ IssueExpired(l) \/ Issue(l)
  \/ \E q \in DOMAIN outbox : Settle(q) \/ SettleRepeated(q)
  \/ \E l \in DOMAIN closes : Close(l) \/ CloseRepeated(l)
  \/ TickPrimary

\* Usage may be measured above the maximum; Complete has to refuse it.
Primary ==
  \/ \E q \in PrimaryRequests, m \in Maxima : PrimaryReserve(q, m)
  \/ \E q \in DOMAIN holds :
       \/ PrimaryStart(q) \/ PrimaryCancel(q)
       \/ \E c \in 0..(holds[q].maximum + 1) : PrimaryComplete(q, c)

Region ==
  \/ \E q \in RegionRequests, l \in Leases, m \in Maxima : Reserve(q, l, m)
  \/ \E q \in DOMAIN requests :
       \/ Start(q) \/ Cancel(q)
       \/ \E c \in 0..(requests[q].maximum + 1) : Complete(q, c)
  \/ \E q \in DOMAIN outbox : Acknowledge(q)
  \/ \E r \in Regions : TickRegion(r)

Process ==
  \E q \in DOMAIN attempts :
    BeforeSend(q) \/ GiveUp(q) \/ CancelRefused(q) \/ StartRefused(q) \/ Die(q)

Worker ==
  \/ \E r \in Regions, n \in Amounts, mode \in Kinds : EnsureFunds(r, n, mode)
  \/ \E l \in DOMAIN issues :
       ReplayFails(l) \/ ReplayRejected(l) \/ ReplayInstall(l) \/ ReplayInstalled(l)
  \/ \E l \in DOMAIN localLeases : Drain(l) \/ LocalClose(l) \/ QueueClose(l)
  \/ \E l \in DOMAIN closes : CloseInstalled(l)
  \/ \E x \in confirmed : ForgetAnswer(x)

Next == Authority \/ Primary \/ Region \/ Process \/ Worker

Spec == Init /\ [][Next]_vars

-----------------------------------------------------------------------------
(* What the ledger promises *)

BalanceLeases == {l \in DOMAIN leases : leases[l].l.mode # "subscription"}

Live(row) == row.state \in {"reserved", "started"}

\* Money that left the balance and is neither charged nor returned.
HeldMoney ==
  Total({l \in BalanceLeases : leases[l].state = "open"},
        [l \in DOMAIN leases |-> leases[l].l.granted - leases[l].spent])
  + Total({q \in DOMAIN holds : holds[q].funded /\ Live(holds[q])},
          [q \in DOMAIN holds |-> holds[q].maximum])

ChargedRegion == {q \in DOMAIN settled : requests[q].lease \in BalanceLeases}

ChargedPrimary == {q \in DOMAIN holds : holds[q].funded /\ holds[q].state = "completed"}

Charged == [q \in ChargedRegion \cup ChargedPrimary |->
              IF q \in ChargedRegion THEN settled[q] ELSE holds[q].charge]

W == INSTANCE Wallet WITH Bills <- Requests, spendable <- balance,
                          held <- HeldMoney, charges <- Charged

\* The ledger implements the wallet: across leases, settlements, refunds, retries
\* and lost answers every request is charged at most once, out of money taken
\* from the balance before, and nothing of the rest is lost or returned twice.
ImplementsWallet == W!WalletSpec

SettledOf(l) == {q \in DOMAIN settled : requests[q].lease = l}

\* The four places that keep the sums of a lease agree with the rows they sum up:
\* the authority's spent and the allocation's spent with the settled events, the
\* region's spent and reserved with its outbox and its unfinished requests, which
\* fit into the grant (primary.go Settle, local.go Reserve and finish); and no
\* amount anywhere is negative (TypeOK).
LedgersExact ==
  /\ TypeOK
  /\ \A l \in DOMAIN leases :
       /\ leases[l].spent = Total(SettledOf(l), settled)
       /\ allocations[l].spent = leases[l].spent
       /\ allocations[l].state = "held" <=> leases[l].state = "open"
  /\ \A l \in DOMAIN localLeases :
       LET row == localLeases[l]
           rows == RowsOf(l) IN
         /\ row.spent = Total(rows \cap DOMAIN outbox,
                              [q \in DOMAIN outbox |-> outbox[q].charge])
         /\ row.reserved = Total({q \in rows : Live(requests[q])},
                                 [q \in DOMAIN requests |-> requests[q].maximum])
         /\ row.spent + row.reserved <= row.l.granted

\* What the upstream may charge for requests the authority has not heard of.
Exposure(l) ==
  Total({q \in RowsOf(l) : q \in dispatched /\ q \notin DOMAIN settled},
        [q \in DOMAIN requests |->
           IF q \in DOMAIN outbox THEN outbox[q].charge ELSE requests[q].maximum])

\* Work that went upstream is paid for: as long as its charge is unknown or not
\* settled, the authority keeps the lease open with enough unspent money for all
\* of it, through expiry, crashes and restarts (local.go Start: "recovery cannot
\* assume no upstream charge").
UpstreamCovered ==
  \A l \in DOMAIN localLeases :
    Exposure(l) > 0 =>
      /\ l \in DOMAIN leases
      /\ leases[l].state = "open"
      /\ Exposure(l) <= leases[l].l.granted - leases[l].spent

\* The authority never refuses what a region's worker must deliver: a completed
\* event can always be settled and a receipt always carries the authority's own
\* sum, so neither the outbox nor a close can get stuck (worker.go Flush stops at
\* the first failing event).
DeliveryNeverRefused ==
  /\ \A q \in DOMAIN outbox : Unsettled(q) => Settleable(q)
  /\ \A l \in DOMAIN closes : ReceiptAgrees(l)

\* No money is held for a lease that its region has neither installed nor still
\* asks for (regional_funds_broker.go, control/broker.go Replay).
NoOrphanLease ==
  \A l \in DOMAIN leases :
    \/ l \in DOMAIN localLeases
    \/ issues[l].state = "pending"

\* The authority holds money for one lease of a target at a time: a new one is
\* asked for only after the old one was closed there ("A target cannot be reissued
\* until the primary acknowledges its exact receipt", regional_funds_broker.go).
OneLeasePerTarget ==
  \A k, l \in DOMAIN leases :
    /\ leases[k].state = "open" /\ leases[l].state = "open"
    /\ leases[k].l.region = leases[l].l.region
    => k = l

\* What the key has used and may still come to use grows only up to the quota in
\* force, although sites compete, charges arrive late and the quota is edited
\* (RegionalBudgetScope.Reserve and Charge).
QuotaGrowth ==
  [][quotaUsed' + HeldBudget' > quotaUsed + HeldBudget
       => quota = 0 \/ quotaUsed' + HeldBudget' <= quota]_vars

-----------------------------------------------------------------------------
(* Liveness *)

Answered(l) ==
  /\ l \in DOMAIN issues
  /\ IssueRepeated(l) \/ IssueExpired(l) \/ Issue(l)
  /\ calls'[l] # calls[l]

\* meter.Run repeats its cycle every five seconds for ever and clocks run; a post
\* that can be answered and a commit that can succeed do not fail every time.
WorkerFairness ==
  /\ WF_vars(TickPrimary)
  /\ \A r \in Regions : WF_vars(TickRegion(r))
  /\ \A q \in RegionRequests :
       /\ WF_vars(q \in DOMAIN outbox /\ (Settle(q) \/ SettleRepeated(q)))
       /\ SF_vars(q \in DOMAIN outbox /\ Acknowledge(q))
  /\ \A l \in Leases :
       /\ SF_vars(Answered(l))
       /\ SF_vars(l \in DOMAIN issues /\ ReplayRejected(l))
       /\ SF_vars(l \in DOMAIN issues /\ ReplayInstall(l))
       /\ SF_vars(l \in DOMAIN issues /\ ReplayInstalled(l))
       /\ WF_vars(l \in DOMAIN localLeases /\ Drain(l))
       /\ WF_vars(l \in DOMAIN localLeases /\ LocalClose(l))
       /\ WF_vars(l \in DOMAIN localLeases /\ QueueClose(l))
       /\ WF_vars(l \in DOMAIN closes /\ (Close(l) \/ CloseRepeated(l)))
       /\ SF_vars(l \in DOMAIN closes /\ CloseInstalled(l))

\* A process that has reserved goes on: it sends or it gives up, and its database
\* calls return.  The upstream may stay silent for ever.
ProcessFairness ==
  \A q \in Requests :
    /\ WF_vars(q \in DOMAIN attempts /\ (BeforeSend(q) \/ GiveUp(q)))
    /\ WF_vars(q \in DOMAIN attempts /\ (CancelRefused(q) \/ StartRefused(q)))
    /\ WF_vars(q \in DOMAIN requests /\ (Start(q) \/ Cancel(q)))
    /\ WF_vars(q \in DOMAIN holds /\ (PrimaryStart(q) \/ PrimaryCancel(q)))

FairSpec == Spec /\ WorkerFairness /\ ProcessFairness

\* Every completed request is billed and leaves the outbox, whichever answers are
\* lost, also when its lease has expired meanwhile (worker.go Flush).
UsageDelivered ==
  \A q \in RegionRequests :
    (q \in DOMAIN outbox) ~> (q \in DOMAIN outbox /\ outbox[q].acknowledged)

Unfinished(l) == \E q \in RowsOf(l) : Live(requests[q])

GivenBack(l) == l \in DOMAIN closes /\ closes[l].state = "installed"

\* What is left of an installed lease comes back and its target can be funded
\* again, unless some request of it stays reserved or started for ever
\* (regional_funds_broker.go drainRegionalFunds).
LeaseReturned ==
  \A l \in Leases :
    (l \in DOMAIN localLeases) ~> (GivenBack(l) \/ []Unfinished(l))
=============================================================================

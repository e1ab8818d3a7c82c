---------------------------- MODULE RegionalSlots ----------------------------
(***************************************************************************)
(* Shared concurrency slots of ONE resource (an account, a user or an API  *)
(* key) between the primary site and its regions                           *)
(* (backend/internal/regional/slots, .../control/broker.go).               *)
(*                                                                         *)
(* The authority database holds one budget row per resource.  A primary    *)
(* request takes one slot of it; a region leases a grant of several slots  *)
(* and hands them out from its own database without asking the authority.  *)
(* A region's background broker persists every issue and renewal before it *)
(* sends it over HTTP, and replays it until the answer is conclusive.      *)
(*                                                                         *)
(* Every database transaction locks the budget row of the resource, so it  *)
(* is one action here.  Rows of different resources never meet, hence one  *)
(* resource is enough.  SQL tables are functions whose domain is the set   *)
(* of primary keys present.                                                *)
(***************************************************************************)
EXTENDS Integers, FiniteSets, Piles

CONSTANTS
  Regions,      \* regional sites
  Leases,       \* lease IDs (uuid.NewString) the brokers may draw
  PrimaryRequests,  \* request IDs served by the primary site
  RegionRequests,   \* request IDs served by a region
  Capacities,   \* slots per grant a region may be configured with
  Limits,       \* limits an administrator configures; 0 is paused or disabled
  Lifetime,     \* configured grant lifetime, in clock ticks
  MaxAge,       \* the five seconds after which an issue is stale, in ticks
  PrimaryHorizon,  \* bound on the authority's clock
  RegionHorizon    \* bound on every region's clock

ASSUME SlotsAssumption ==
  /\ IsFiniteSet(Leases)
  /\ IsFiniteSet(PrimaryRequests)
  /\ IsFiniteSet(RegionRequests)
  /\ IsFiniteSet(Regions)
  /\ Capacities \subseteq Nat \ {0}
  /\ Limits \subseteq Nat
  /\ Lifetime \in Nat \ {0}
  /\ MaxAge \in Nat
  /\ PrimaryHorizon \in Nat
  /\ RegionHorizon \in Nat

VARIABLES
  limit,          \* current limit of the resource, read in every authority tx
  primaryUsed,    \* regional_slot_budgets.primary_used
  granted,        \* regional_slot_budgets.granted
  primarySlots,   \* regional_primary_slots: request -> "held" | "released"
  grants,         \* regional_slot_grants: lease -> [g, state]
  rejections,     \* regional_slot_issue_rejections: lease IDs
  primaryNow,     \* clock_timestamp() of the authority
  localGrants,    \* regional_local_slot_grants: lease -> [g, used, state]
  localSlots,     \* regional_local_slots: <<region, request>> -> [lease, released]
  cancellations,  \* regional_slot_cancellations: <<region, request>>
  regionNow,      \* clock_timestamp() of each region
  operations,     \* regional_broker_operations: <<lease, revision>> -> [op, g, state]
  calls,          \* progress of the replay that holds an operation's row lock
  wire,           \* control requests sent; a copy may be served at any later time
  receipts        \* drain receipts produced by Local.Close

authorityVars == <<limit, primaryUsed, granted, primarySlots, grants, rejections, primaryNow>>
regionVars    == <<localGrants, localSlots, cancellations, regionNow>>
brokerVars    == <<operations, calls, wire, receipts>>
vars == <<authorityVars, regionVars, brokerVars>>

-----------------------------------------------------------------------------
(* Grants and tables *)

Grant == [id: Leases, region: Regions, slots: Capacities, revision: Nat \ {0},
          issuedAt: Nat, expiresAt: Nat]

GrantState == {"open", "draining", "closed"}

sameIdentity(a, b) ==
  /\ a.id = b.id
  /\ a.region = b.region
  /\ a.slots = b.slots
  /\ a.issuedAt = b.issuedAt

\* The table t with a row inserted or replaced under key k.
Put(t, k, row) == [x \in DOMAIN t \cup {k} |-> IF x = k THEN row ELSE t[x]]

Key(g) == <<g.id, g.revision>>

TypeOK ==
  /\ limit \in Limits
  /\ primaryUsed \in Nat
  /\ granted \in Nat
  /\ DOMAIN primarySlots \subseteq PrimaryRequests
  /\ \A q \in DOMAIN primarySlots : primarySlots[q] \in {"held", "released"}
  /\ DOMAIN grants \subseteq Leases
  /\ \A l \in DOMAIN grants : grants[l] \in [g: Grant, state: GrantState]
  /\ rejections \subseteq Leases
  /\ primaryNow \in Nat
  /\ DOMAIN localGrants \subseteq Leases
  /\ \A l \in DOMAIN localGrants :
        localGrants[l] \in [g: Grant, used: Nat, state: GrantState]
  /\ DOMAIN localSlots \subseteq Regions \X RegionRequests
  /\ \A h \in DOMAIN localSlots :
        localSlots[h] \in [lease: Leases, released: BOOLEAN]
  /\ cancellations \subseteq Regions \X RegionRequests
  /\ regionNow \in [Regions -> Nat]
  /\ DOMAIN operations \subseteq Leases \X (Nat \ {0})
  /\ \A k \in DOMAIN operations :
        operations[k] \in [op: {"issue", "renew"}, g: Grant,
                           state: {"pending", "installed", "rejected"}]
  /\ DOMAIN calls = DOMAIN operations
  /\ \A k \in DOMAIN calls :
        calls[k] \in {"idle", "ok", "gone", "stored"}
  /\ wire \subseteq [op: {"issue", "renew"}, g: Grant]
  /\ receipts \subseteq [lease: Leases, region: Regions, revision: Nat \ {0}]

Empty == [x \in {} |-> x]

Init ==
  /\ limit \in Limits
  /\ primaryUsed = 0 /\ granted = 0
  /\ primarySlots = Empty /\ grants = Empty /\ rejections = {}
  /\ primaryNow = 0
  /\ localGrants = Empty /\ localSlots = Empty /\ cancellations = {}
  /\ regionNow = [r \in Regions |-> 0]
  /\ operations = Empty /\ calls = Empty
  /\ wire = {} /\ receipts = {}

-----------------------------------------------------------------------------
(* The authority (slots.go) *)

\* An administrator edits, pauses or disables the resource at any moment.
\* Disabled and missing resources read as 0: neither admits anything.
SetLimit(n) ==
  /\ n # limit
  /\ limit' = n
  /\ UNCHANGED <<primaryUsed, granted, primarySlots, grants, rejections,
                 primaryNow, regionVars, brokerVars>>

\* Mutant: a released request is admitted again.
NotHeld(q) == ~(q \in DOMAIN primarySlots /\ primarySlots[q] = "held")

Unknown(q) == q \notin DOMAIN primarySlots

\* Primary.Acquire of a request without a row.  A request that has one gets
\* ~released as its answer and changes nothing.
PrimaryAcquire(q) ==
  /\ Unknown(q)
  /\ limit > 0
  /\ primaryUsed + granted < limit
  /\ primaryUsed' = primaryUsed + 1
  /\ primarySlots' = Put(primarySlots, q, "held")
  /\ UNCHANGED <<limit, granted, grants, rejections, primaryNow,
                 regionVars, brokerVars>>

HoldsPrimary(q) == q \in DOMAIN primarySlots /\ primarySlots[q] = "held"

\* Primary.Release: also leaves a tombstone for a request never admitted.
PrimaryRelease(q) ==
  /\ IF HoldsPrimary(q)
       THEN primaryUsed' = primaryUsed - 1
       ELSE UNCHANGED primaryUsed
  /\ primarySlots' = Put(primarySlots, q, "released")
  /\ UNCHANGED <<limit, granted, grants, rejections, primaryNow,
                 regionVars, brokerVars>>

\* The conclusive HTTP answer (204 or 410) to the request m reaches a replay
\* that waits for it, or nobody waits any more and it is lost.
Answer(m, status) ==
  /\ IF operations[Key(m.g)].state = "pending" /\ calls[Key(m.g)] = "idle"
       THEN \/ calls' = [calls EXCEPT ![Key(m.g)] = status]
            \/ UNCHANGED calls
       ELSE UNCHANGED calls
  /\ UNCHANGED <<operations, wire, receipts>>

\* Primary.Issue of a lease that was already allocated.
IssueRepeated(m) ==
  /\ m.op = "issue"
  /\ m.g.id \in DOMAIN grants
  /\ LET old == grants[m.g.id] IN
       /\ sameIdentity(old.g, m.g)
       /\ old.g.revision = m.g.revision
       /\ old.g.expiresAt = m.g.expiresAt
       /\ old.state = "open"
  /\ Answer(m, "ok")
  /\ UNCHANGED <<authorityVars, regionVars>>

Stale(g) == primaryNow >= g.expiresAt \/ primaryNow - g.issuedAt > MaxAge

\* Mutant: a stale issue is turned away but never concluded.
WasRejected(g) == g.id \notin DOMAIN grants /\ g.id \in rejections

Rejectable(g) ==
  /\ g.id \notin DOMAIN grants
  /\ \/ g.id \in rejections
     \/ primaryNow >= g.issuedAt /\ Stale(g)

\* Primary.Issue that arrives too late: the rejection is recorded for ever.
IssueReject(m) ==
  /\ m.op = "issue"
  /\ m.g.revision = 1
  /\ Rejectable(m.g)
  /\ rejections' = rejections \cup {m.g.id}
  /\ Answer(m, "gone")
  /\ UNCHANGED <<limit, primaryUsed, granted, primarySlots, grants, primaryNow,
                 regionVars>>

\* Mutant: the slots of primary requests are not counted.
RoomBesidesPrimary(g) == granted <= limit - g.slots

RoomFor(g) == limit > 0 /\ primaryUsed + granted <= limit - g.slots

\* Primary.Issue that reserves the slots of a new grant.
IssueAllocate(m) ==
  /\ m.op = "issue"
  /\ m.g.id \notin DOMAIN grants
  /\ m.g.revision = 1
  /\ m.g.id \notin rejections
  /\ primaryNow >= m.g.issuedAt
  /\ ~Stale(m.g)
  /\ RoomFor(m.g)
  /\ granted' = granted + m.g.slots
  /\ grants' = Put(grants, m.g.id, [g |-> m.g, state |-> "open"])
  /\ Answer(m, "ok")
  /\ UNCHANGED <<limit, primaryUsed, primarySlots, rejections, primaryNow,
                 regionVars>>

\* Primary.Renew: the same terms again, or the next revision.
RenewRepeated(m) ==
  /\ m.op = "renew"
  /\ m.g.id \in DOMAIN grants
  /\ LET old == grants[m.g.id] IN
       /\ sameIdentity(old.g, m.g)
       /\ old.state = "open"
       /\ old.g.revision = m.g.revision
       /\ old.g.expiresAt = m.g.expiresAt
  /\ Answer(m, "ok")
  /\ UNCHANGED <<authorityVars, regionVars>>

RenewAdvance(m) ==
  /\ m.op = "renew"
  /\ m.g.id \in DOMAIN grants
  /\ LET old == grants[m.g.id] IN
       /\ sameIdentity(old.g, m.g)
       /\ old.state = "open"
       /\ m.g.revision = old.g.revision + 1
       /\ m.g.expiresAt > old.g.expiresAt
       /\ primaryNow < old.g.expiresAt
  /\ limit > 0
  /\ primaryUsed + granted <= limit
  /\ grants' = [grants EXCEPT ![m.g.id].g = m.g]
  /\ Answer(m, "ok")
  /\ UNCHANGED <<limit, primaryUsed, granted, primarySlots, rejections,
                 primaryNow, regionVars>>

\* Primary.BeginDrain, called by an operator.
BeginDrain(l) ==
  /\ l \in DOMAIN grants
  /\ grants[l].state = "open"
  /\ grants' = [grants EXCEPT ![l].state = "draining"]
  /\ UNCHANGED <<limit, primaryUsed, granted, primarySlots, rejections,
                 primaryNow, regionVars, brokerVars>>

Draining(row) == row.state = "draining"

\* Primary.Close of a receipt; a closed grant answers success and changes nothing.
Close(c) ==
  /\ c.lease \in DOMAIN grants
  /\ LET row == grants[c.lease] IN
       /\ c.region = row.g.region
       /\ c.revision = row.g.revision
       /\ Draining(row)
       /\ granted' = granted - row.g.slots
  /\ grants' = [grants EXCEPT ![c.lease].state = "closed"]
  /\ UNCHANGED <<limit, primaryUsed, primarySlots, rejections, primaryNow,
                 regionVars, brokerVars>>

TickPrimary ==
  /\ primaryNow < PrimaryHorizon
  /\ primaryNow' = primaryNow + 1
  /\ UNCHANGED <<limit, primaryUsed, granted, primarySlots, grants, rejections,
                 regionVars, brokerVars>>

-----------------------------------------------------------------------------
(* A region's own slots (local.go) *)

\* Local.Install: what it does to the row of g.id, and when it refuses.
Installable(g) ==
  g.id \in DOMAIN localGrants =>
    LET old == localGrants[g.id] IN
      /\ sameIdentity(old.g, g)
      /\ g.revision >= old.g.revision
      /\ g.revision = old.g.revision => g.expiresAt = old.g.expiresAt
      /\ g.revision > old.g.revision =>
           old.state = "open" /\ g.expiresAt > old.g.expiresAt

Install(g) ==
  localGrants' =
    IF g.id \in DOMAIN localGrants
      THEN [localGrants EXCEPT ![g.id].g = g]
      ELSE Put(localGrants, g.id, [g |-> g, used |-> 0, state |-> "open"])

\* The lease admits new requests at the region's present time.
Admitting(l) ==
  LET row == localGrants[l] IN
    /\ row.state = "open"
    /\ regionNow[row.g.region] >= row.g.issuedAt
    /\ regionNow[row.g.region] < row.g.expiresAt

\* Mutant: the comparison with the slots of the grant is off by one.
OneMore(row) == row.used <= row.g.slots

HasRoom(row) == row.used < row.g.slots

\* Mutant: only the slot table is consulted.
Unbound(r, q) == <<r, q>> \notin DOMAIN localSlots

Fresh(r, q) == <<r, q>> \notin cancellations /\ <<r, q>> \notin DOMAIN localSlots

\* Local.AcquireResource of a request that is bound to no lease yet.  The code
\* tries the open leases in ID order; OneOpenGrant shows there is at most one.
\* A request that is already bound or cancelled changes nothing.
AcquireResource(r, q) ==
  /\ Fresh(r, q)
  /\ \E l \in DOMAIN localGrants :
       /\ localGrants[l].g.region = r
       /\ Admitting(l)
       /\ HasRoom(localGrants[l])
       /\ localGrants' = [localGrants EXCEPT ![l].used = @ + 1]
       /\ localSlots' = Put(localSlots, <<r, q>>, [lease |-> l, released |-> FALSE])
  /\ UNCHANGED <<cancellations, regionNow, authorityVars, brokerVars>>

\* Local.ReleaseResource: the cancellation outlives the request, bound or not.
ReleaseResource(r, q) ==
  /\ cancellations' = cancellations \cup {<<r, q>>}
  /\ IF <<r, q>> \in DOMAIN localSlots /\ ~localSlots[<<r, q>>].released
       THEN /\ localGrants' = [localGrants EXCEPT ![localSlots[<<r, q>>].lease].used = @ - 1]
            /\ localSlots' = [localSlots EXCEPT ![<<r, q>>].released = TRUE]
       ELSE UNCHANGED <<localGrants, localSlots>>
  /\ UNCHANGED <<regionNow, authorityVars, brokerVars>>

\* Local.Drain, called by an operator.
Drain(l) ==
  /\ l \in DOMAIN localGrants
  /\ localGrants[l].state = "open"
  /\ localGrants' = [localGrants EXCEPT ![l].state = "draining"]
  /\ UNCHANGED <<localSlots, cancellations, regionNow, authorityVars, brokerVars>>

Drained(row) == row.state # "open" /\ row.used = 0

\* Mutant: the receipt names the revision the lease was issued with.
FirstReceipt(g) == [lease |-> g.id, region |-> g.region, revision |-> 1]

DrainReceipt(g) == [lease |-> g.id, region |-> g.region, revision |-> g.revision]

\* Local.Close: the receipt names the revision the region knows.
LocalClose(l) ==
  /\ l \in DOMAIN localGrants
  /\ Drained(localGrants[l])
  /\ localGrants' = [localGrants EXCEPT ![l].state = "closed"]
  /\ receipts' = receipts \cup {DrainReceipt(localGrants[l].g)}
  /\ UNCHANGED <<localSlots, cancellations, regionNow, operations, calls, wire,
                 authorityVars>>

TickRegion(r) ==
  /\ regionNow[r] < RegionHorizon
  /\ regionNow' = [regionNow EXCEPT ![r] = @ + 1]
  /\ UNCHANGED <<localGrants, localSlots, cancellations, authorityVars, brokerVars>>

-----------------------------------------------------------------------------
(* The region's broker (control/broker.go) *)

OpenGrants(r) ==
  {l \in DOMAIN localGrants : localGrants[l].g.region = r /\ localGrants[l].state = "open"}

PendingOps(r) ==
  {k \in DOMAIN operations : operations[k].g.region = r /\ operations[k].state = "pending"}

\* Mutant: only an operation that was never sent counts as outstanding.
NothingUnsent(r) ==
  \A k \in PendingOps(r) : \E m \in wire : Key(m.g) = k

NothingPending(r) == PendingOps(r) = {}

Persist(op, g) ==
  /\ Key(g) \notin DOMAIN operations
  /\ operations' = Put(operations, Key(g), [op |-> op, g |-> g, state |-> "pending"])
  /\ calls' = Put(calls, Key(g), "idle")
  /\ UNCHANGED <<wire, receipts, authorityVars, regionVars>>

\* Broker.EnsureSlots without an open grant: a fresh lease ID is persisted.
EnsureIssue(r, capacity) ==
  /\ NothingPending(r)
  /\ OpenGrants(r) = {}
  /\ \E l \in Leases :
       /\ \A k \in DOMAIN operations : operations[k].g.id # l
       /\ Persist("issue", [id |-> l, region |-> r, slots |-> capacity,
                            revision |-> 1, issuedAt |-> regionNow[r],
                            expiresAt |-> regionNow[r] + Lifetime])

\* Broker.EnsureSlots in the second half of an open grant's life.
EnsureRenew(r, capacity) ==
  /\ NothingPending(r)
  /\ \E l \in OpenGrants(r) :
       LET g == localGrants[l].g IN
         /\ g.slots = capacity
         /\ 2 * (g.expiresAt - regionNow[r]) <= Lifetime
         /\ regionNow[r] < g.expiresAt
         /\ Persist("renew", [g EXCEPT !.revision = @ + 1,
                                       !.expiresAt = regionNow[r] + Lifetime])

\* Broker.Replay takes the row lock of a pending operation and posts it.  Posts
\* of one operation are alike, so wire need not count them: a replay waits for
\* an answer whenever the operation is pending and its call is idle.
Replay(k) ==
  /\ operations[k].state = "pending"
  /\ calls[k] = "idle"
  /\ wire' = wire \cup {[op |-> operations[k].op, g |-> operations[k].g]}
  /\ UNCHANGED <<operations, calls, receipts, authorityVars, regionVars>>

\* A replay that has its answer may still stop: Install refuses, a transaction
\* fails or the process crashes.  The row lock goes with the transaction and the
\* operation stays pending.  (A post that times out or that the authority denies
\* with 403, 409, 429 or 503 changes nothing at all.)
ReplayFails(k) ==
  /\ calls[k] # "idle"
  /\ calls' = [calls EXCEPT ![k] = "idle"]
  /\ UNCHANGED <<operations, wire, receipts, authorityVars, regionVars>>

ToldGone(k) == calls[k] = "gone"

\* HTTP 410 settles an issue as never allocated.
ReplayRejected(k) ==
  /\ ToldGone(k)
  /\ operations[k].op = "issue"
  /\ operations' = [operations EXCEPT ![k].state = "rejected"]
  /\ calls' = [calls EXCEPT ![k] = "idle"]
  /\ UNCHANGED <<wire, receipts, authorityVars, regionVars>>

Confirmed(k) == calls[k] = "ok"

\* HTTP 204: the grant is installed in a transaction of its own ...
ReplayInstall(k) ==
  /\ Confirmed(k)
  /\ Installable(operations[k].g)
  /\ Install(operations[k].g)
  /\ calls' = [calls EXCEPT ![k] = "stored"]
  /\ UNCHANGED <<operations, wire, receipts, localSlots, cancellations, regionNow,
                 authorityVars>>

\* Mutant: the operation is marked as soon as the answer is there.
MarkedOnAnswer(k) ==
  /\ calls[k] \in {"ok", "stored"}
  /\ operations' = [operations EXCEPT ![k].state = "installed"]
  /\ calls' = [calls EXCEPT ![k] = "idle"]
  /\ UNCHANGED <<wire, receipts, authorityVars, regionVars>>

\* ... and the operation is marked afterwards.
ReplayInstalled(k) ==
  /\ calls[k] = "stored"
  /\ operations' = [operations EXCEPT ![k].state = "installed"]
  /\ calls' = [calls EXCEPT ![k] = "idle"]
  /\ UNCHANGED <<wire, receipts, authorityVars, regionVars>>

-----------------------------------------------------------------------------
Authority ==
  \/ \E n \in Limits : SetLimit(n)
  \/ \E q \in PrimaryRequests : PrimaryAcquire(q) \/ PrimaryRelease(q)
  \/ \E m \in wire : \/ IssueRepeated(m) \/ IssueReject(m) \/ IssueAllocate(m)
                     \/ RenewRepeated(m) \/ RenewAdvance(m)
  \/ \E l \in Leases : BeginDrain(l)
  \/ \E c \in receipts : Close(c)
  \/ TickPrimary

Region ==
  \/ \E r \in Regions, q \in RegionRequests : AcquireResource(r, q) \/ ReleaseResource(r, q)
  \/ \E l \in Leases : Drain(l) \/ LocalClose(l)
  \/ \E r \in Regions : TickRegion(r)

Broker ==
  \/ \E r \in Regions, c \in Capacities : EnsureIssue(r, c) \/ EnsureRenew(r, c)
  \/ \E k \in DOMAIN operations :
       \/ Replay(k) \/ ReplayFails(k) \/ ReplayRejected(k)
       \/ ReplayInstall(k) \/ ReplayInstalled(k)

Next == Authority \/ Region \/ Broker

Spec == Init /\ [][Next]_vars

-----------------------------------------------------------------------------
(* What the slots promise *)

HeldPrimary  == {q \in DOMAIN primarySlots : primarySlots[q] = "held"}
HeldRegional == {h \in DOMAIN localSlots : ~localSlots[h].released}
HeldBy(l)    == {h \in HeldRegional : localSlots[h].lease = l}
LiveGrants   == {l \in DOMAIN grants : grants[l].state # "closed"}
LeasedSlots  == Pile(LiveGrants, [l \in DOMAIN grants |-> grants[l].g.slots])

\* The two counters of the budget row are never off by a slot: they equal the
\* primary requests in flight and the slots of every grant not closed, whatever
\* is repeated, lost, cancelled early or drained (slots.go, package comment).
BudgetExact ==
  /\ primaryUsed = Cardinality(HeldPrimary)
  /\ granted = Cardinality(LeasedSlots)

\* All requests in flight on all sites together fit into what the authority has
\* allocated, so no overcommitment can hide in a region's database
\* (slots.go: "in-flight requests must drain before capacity returns").
InFlightBacked ==
  Cardinality(HeldPrimary) + Cardinality(HeldRegional) <= primaryUsed + granted

\* A region's used counter is its requests in flight, and never exceeds the
\* slots of the grant they were admitted under (Local.AcquireTx, Local.ReleaseTx).
UsedExact ==
  \A l \in DOMAIN localGrants :
    /\ localGrants[l].used = Cardinality(HeldBy(l))
    /\ localGrants[l].used <= localGrants[l].g.slots

\* A region never holds better terms than the authority gave it: no newer
\* revision, no later expiry, no other capacity (Local.Install, Primary.Renew).
RegionNeverAhead ==
  \A l \in DOMAIN localGrants :
    /\ l \in DOMAIN grants
    /\ sameIdentity(localGrants[l].g, grants[l].g)
    /\ localGrants[l].g.revision <= grants[l].g.revision
    /\ localGrants[l].g.expiresAt <= grants[l].g.expiresAt

\* Capacity returns to the budget only after the region has stopped for good
\* and its last request has ended (Primary.Close, Local.Close).
ReturnedOnlyWhenIdle ==
  \A l \in DOMAIN grants :
    grants[l].state = "closed" =>
      /\ l \in DOMAIN localGrants
      /\ localGrants[l].state = "closed"
      /\ HeldBy(l) = {}

\* Capacity is accounted for at every site: the counters of authority and regions
\* are exact, a region's terms are terms it was given, nothing returns while it is
\* in use, and so whatever is in flight anywhere is backed by the budget row.
CapacityAccounted ==
  /\ TypeOK
  /\ BudgetExact
  /\ UsedExact
  /\ RegionNeverAhead
  /\ ReturnedOnlyWhenIdle
  /\ InFlightBacked

\* A released or cancelled request never holds a slot afterwards, even when the
\* release overtakes the acquisition (regional_slot_cancellations).
CancelledHoldsNothing == HeldRegional \cap cancellations = {}

\* Draining, renewing and replaying never leave a region with two grants it
\* would hand out at once, nor with two operations (Broker.EnsureSlots: "at
\* most one outstanding operation per resource").
OneOpenGrant ==
  \A r \in Regions :
    /\ Cardinality(OpenGrants(r)) <= 1
    /\ Cardinality(PendingOps(r)) <= 1

\* No slots are reserved for a lease that its region has neither installed nor
\* still asks for (Broker.EnsureSlots: "cannot be replaced with a fresh ID and
\* silently leak an authority grant after a lost response").
NoOrphanGrant ==
  \A l \in LiveGrants :
    \/ l \in DOMAIN localGrants
    \/ <<l, 1>> \in DOMAIN operations /\ operations[<<l, 1>>].state = "pending"

\* The allocation of the resource grows only up to the limit in force, although
\* primary requests and grants of several regions compete for it and the limit
\* may be cut below what is already out (Primary.AcquireTx, Primary.Issue).
GrowthWithinLimit ==
  [][primaryUsed' + granted' > primaryUsed + granted
       => primaryUsed' + granted' <= limit]_vars

\* Request identities are permanent: a request released on the primary never
\* gets a slot again, and one bound to a lease never moves to another lease.
IdentitiesPermanent ==
  [][/\ \A q \in DOMAIN primarySlots :
          primarySlots[q] = "released" => primarySlots'[q] = "released"
     /\ \A h \in DOMAIN localSlots :
          /\ localSlots'[h].lease = localSlots[h].lease
          /\ localSlots[h].released => localSlots'[h].released]_vars

-----------------------------------------------------------------------------
(* Liveness *)

Keys == Leases \X (1..(RegionHorizon + 1))

\* The authority serves a copy of operation k and the answer gets through.
Answered(k) ==
  /\ k \in DOMAIN operations
  /\ \E m \in wire :
       /\ Key(m.g) = k
       /\ \/ IssueRepeated(m) \/ IssueReject(m) \/ IssueAllocate(m)
          \/ RenewRepeated(m) \/ RenewAdvance(m)
  /\ calls'[k] # calls[k]

\* The background loop of regional_runtime.go calls RunOnce for ever and both
\* clocks run, so no operation is neglected; a post that can be answered and a
\* transaction that can commit do not fail at every single attempt.
BrokerFairness ==
  /\ WF_vars(TickPrimary)
  /\ \A k \in Keys :
       /\ WF_vars(k \in DOMAIN operations /\ Replay(k))
       /\ SF_vars(Answered(k))
       /\ SF_vars(k \in DOMAIN operations /\ ReplayRejected(k))
       /\ SF_vars(k \in DOMAIN operations /\ ReplayInstall(k))
       /\ SF_vars(k \in DOMAIN operations /\ ReplayInstalled(k))

\* Requests end, and an operator who began to drain a grant completes the
\* documented procedure: Drain, Close on the region, Close on the authority.
DrainFairness ==
  /\ \A h \in Regions \X RegionRequests :
       WF_vars(h \in HeldRegional /\ ReleaseResource(h[1], h[2]))
  /\ \A l \in Leases :
       /\ WF_vars(l \in DOMAIN grants /\ grants[l].state = "draining" /\ Drain(l))
       /\ WF_vars(LocalClose(l))
       /\ WF_vars(\E c \in receipts : c.lease = l /\ Close(c))

FairSpec == Spec /\ BrokerFairness /\ DrainFairness

PendingIssue(l) ==
  <<l, 1>> \in DOMAIN operations /\ operations[<<l, 1>>].state = "pending"

\* A persisted issue does not stay undecided for ever although answers may be
\* lost, clocks disagree and the limit moves: it is installed or rejected,
\* unless an operator drains it first (Broker.Replay, Primary.Issue).
IssueDecided ==
  \A l \in Leases :
    PendingIssue(l) ~>
      (~PendingIssue(l) \/ (l \in DOMAIN grants /\ grants[l].state # "open"))

\* A grant the authority drains while the region knows its current revision
\* gives its slots back once the region's requests end (Primary.Close).
DrainReturnsSlots ==
  \A l \in Leases :
    (/\ l \in DOMAIN grants /\ l \in DOMAIN localGrants
     /\ grants[l].state = "draining"
     /\ grants[l].g.revision = localGrants[l].g.revision)
      ~> (l \in DOMAIN grants \ LiveGrants)
=============================================================================

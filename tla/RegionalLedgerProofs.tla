------------------------- MODULE RegionalLedgerProofs -------------------------
(* Proofs about RegionalLedger for any number of sites, leases and requests, *)
(* any amounts, any administration and any clocks, with crashes and replays. *)
EXTENDS RegionalLedger, PileTheorems

-----------------------------------------------------------------------------
(* The inductive invariant. *)

\* a lease of the authority answers an issue, and its allocation keeps its sums
LeasesSound ==
  \A l \in DOMAIN leases :
    /\ l \in DOMAIN issues /\ leases[l].l = issues[l].l
    /\ l \in DOMAIN allocations /\ allocations[l].maximum = leases[l].l.granted
    /\ allocations[l].spent = leases[l].spent /\ leases[l].spent <= leases[l].l.granted
    /\ allocations[l].state = "held" <=> leases[l].state = "open"

\* every other allocation belongs to a request of the primary site
HoldsSound ==
  /\ DOMAIN allocations = DOMAIN leases \cup DOMAIN holds
  /\ \A q \in DOMAIN holds :
       /\ allocations[q].maximum = holds[q].maximum
       /\ allocations[q].state = "held" <=> Live(holds[q])
       /\ Live(holds[q]) => allocations[q].spent = 0

\* what a region was told of its issue is still true
IssuesSound ==
  \A l \in DOMAIN issues :
    /\ calls[l] # "idle" => issues[l].state = "pending"
    /\ calls[l] \in {"ok", "stored"} => l \in DOMAIN leases
    /\ calls[l] = "stored" \/ issues[l].state = "installed" => l \in DOMAIN localLeases
    /\ calls[l] = "gone" \/ issues[l].state = "rejected" => ExpiredUnissued(l)

\* a lease of a region is one of the authority's, and is closed with nothing open
LocalSound ==
  \A l \in DOMAIN localLeases :
    /\ l \in DOMAIN leases /\ localLeases[l].l = leases[l].l
    /\ localLeases[l].state = "closed" => Resolved(l)

\* a request has a lease, an event when it completed, and was sent when it started
RequestsSound ==
  /\ DOMAIN outbox \subseteq DOMAIN requests
  /\ dispatched \cap RegionRequests \subseteq DOMAIN requests
  /\ \A q \in DOMAIN requests :
       /\ requests[q].lease \in DOMAIN localLeases
       /\ requests[q].state = "completed" <=> q \in DOMAIN outbox
       /\ requests[q].state \in {"started", "completed"} <=> q \in dispatched

\* only events are settled, with their charge, and only settled ones are confirmed
EventsSound ==
  /\ \A q \in DOMAIN settled : q \in DOMAIN outbox /\ settled[q] = outbox[q].charge
  /\ \A q \in DOMAIN outbox : outbox[q].acknowledged => q \in DOMAIN settled
  /\ confirmed \cap RegionRequests \subseteq DOMAIN settled

\* a receipt carries the final sum of a closed lease, and without one the
\* authority keeps its side open
ClosesSound ==
  /\ \A l \in DOMAIN closes :
       /\ l \in DOMAIN localLeases /\ localLeases[l].state = "closed"
       /\ closes[l].spent = localLeases[l].spent
       /\ closes[l].state = "installed" => leases[l].state = "closed"
  /\ \A l \in DOMAIN leases : leases[l].state = "closed" => l \in DOMAIN closes
  /\ \A l \in confirmed \cap Leases : l \in DOMAIN closes /\ leases[l].state = "closed"

\* the lease is asked for, or is in the region and not returned
Awaited(l) == issues[l].state = "pending" \/ (l \in DOMAIN localLeases /\ ~ GivenBack(l))

OneAwaited ==
  \A k, l \in DOMAIN issues :
    Awaited(k) /\ Awaited(l) /\ issues[k].l.region = issues[l].l.region => k = l

AuthoritySums == \A l \in DOMAIN leases : leases[l].spent = Total(SettledOf(l), settled)

Charges == [q \in DOMAIN outbox |-> outbox[q].charge]

Reserves == [q \in DOMAIN requests |-> requests[q].maximum]

LiveRows(l) == {q \in RowsOf(l) : Live(requests[q])}

RegionSums ==
  \A l \in DOMAIN localLeases :
    /\ localLeases[l].spent = Total(RowsOf(l) \cap DOMAIN outbox, Charges)
    /\ localLeases[l].reserved = Total(LiveRows(l), Reserves)
    /\ localLeases[l].spent + localLeases[l].reserved <= localLeases[l].l.granted

Inv ==
  /\ TypeOK
  /\ LeasesSound /\ HoldsSound /\ IssuesSound
  /\ LocalSound /\ RequestsSound
  /\ EventsSound /\ ClosesSound /\ OneAwaited
  /\ AuthoritySums /\ RegionSums

-----------------------------------------------------------------------------
(* The tables one by one. *)

AllocationRow == [maximum: Nat, spent: Nat, state: {"held", "closed"}]
LeaseRow == [l: Lease, spent: Nat, state: {"open", "closed"}]
HoldRow == [maximum: Maxima, state: RequestState, funded: BOOLEAN, charge: Nat]
LocalRow == [l: Lease, spent: Nat, reserved: Nat, state: {"open", "draining", "closed"}]
RequestRow == [lease: Leases, maximum: Maxima, state: RequestState]
EventRow == [charge: Nat, acknowledged: BOOLEAN]
IssueRow == [l: Lease, state: {"pending", "installed", "rejected"}]
CloseRow == [spent: Nat, state: {"pending", "installed"}]

\* the keys and the rows of the table t
Table(t, K, R) == DOMAIN t \subseteq K /\ \A k \in DOMAIN t : t[k] \in R

AuthorityTypes ==
  /\ balance \in Nat /\ active \in BOOLEAN /\ kind \in Kinds /\ quota \in Quotas
  /\ quotaUsed \in Nat /\ primaryNow \in Nat
  /\ Table(allocations, Leases \cup PrimaryRequests, AllocationRow)
  /\ Table(leases, Leases, LeaseRow)
  /\ Table(settled, RegionRequests, Nat)
  /\ Table(holds, PrimaryRequests, HoldRow)

RegionTypes ==
  /\ Table(localLeases, Leases, LocalRow)
  /\ Table(requests, RegionRequests, RequestRow)
  /\ Table(outbox, RegionRequests, EventRow)
  /\ regionNow \in [Regions -> Nat]

ProcessTypes ==
  /\ Table(attempts, Requests, {"admitted", "sending", "ended"})
  /\ canceling \subseteq Requests /\ dispatched \subseteq Requests

BrokerTypes ==
  /\ Table(issues, Leases, IssueRow)
  /\ Table(closes, Leases, CloseRow)
  /\ Table(calls, DOMAIN issues, {"idle", "ok", "gone", "stored"}) /\ DOMAIN calls = DOMAIN issues
  /\ confirmed \subseteq RegionRequests \cup Leases

LEMMA TypeParts ==
  ASSUME Inv
  PROVE  AuthorityTypes /\ RegionTypes /\ ProcessTypes /\ BrokerTypes
<1>1. AuthorityTypes
  BY DEF Inv, TypeOK, AuthorityTypes, Table, AllocationRow, LeaseRow, HoldRow
<1>2. RegionTypes
  BY DEF Inv, TypeOK, RegionTypes, Table, LocalRow, RequestRow, EventRow
<1>3. ProcessTypes
  BY DEF Inv, TypeOK, ProcessTypes, Table
<1>4. BrokerTypes
  BY DEF Inv, TypeOK, BrokerTypes, Table, IssueRow, CloseRow
<1> QED
  BY <1>1, <1>2, <1>3, <1>4

LEMMA TypeNext ==
  ASSUME AuthorityTypes', RegionTypes', ProcessTypes', BrokerTypes'
  PROVE  TypeOK'
BY DEF TypeOK, AuthorityTypes, RegionTypes, ProcessTypes, BrokerTypes, Table,
       AllocationRow, LeaseRow, HoldRow, LocalRow, RequestRow, EventRow, IssueRow, CloseRow

LEMMA TypesKept ==
  ASSUME Inv
  PROVE  /\ UNCHANGED authorityVars => AuthorityTypes'
         /\ UNCHANGED regionVars => RegionTypes'
         /\ UNCHANGED processVars => ProcessTypes'
         /\ UNCHANGED brokerVars => BrokerTypes'
<1>1. UNCHANGED authorityVars => AuthorityTypes'
  BY TypeParts DEF authorityVars, AuthorityTypes, Table
<1>2. UNCHANGED regionVars => RegionTypes'
  BY TypeParts DEF regionVars, RegionTypes, Table
<1>3. UNCHANGED processVars => ProcessTypes'
  BY TypeParts DEF processVars, ProcessTypes, Table
<1>4. UNCHANGED brokerVars => BrokerTypes'
  BY TypeParts DEF brokerVars, BrokerTypes, Table
<1> QED
  BY <1>1, <1>2, <1>3, <1>4

\* A row is written into a table.
LEMMA PutTable ==
  ASSUME NEW t, NEW K, NEW R, Table(t, K, R), NEW k \in K, NEW row \in R
  PROVE  Table(Put(t, k, row), K, R)
BY DEF Put, Table

-----------------------------------------------------------------------------
(* What a step leaves alone. *)

\* rows keep their key and their lease
LeasesStay == \A l \in DOMAIN leases : l \in DOMAIN leases' /\ leases'[l].l = leases[l].l

LocalsStay ==
  /\ DOMAIN localLeases' = DOMAIN localLeases
  /\ \A l \in DOMAIN localLeases :
       /\ localLeases'[l].l = localLeases[l].l /\ localLeases'[l].spent = localLeases[l].spent
       /\ localLeases'[l].reserved = localLeases[l].reserved

RequestsStay == \A q \in DOMAIN requests : q \in DOMAIN requests' /\ requests'[q].lease = requests[q].lease

LEMMA AuthorityKept ==
  ASSUME Inv
  PROVE  /\ UNCHANGED <<leases, issues, allocations>> => LeasesSound'
         /\ UNCHANGED <<allocations, leases, holds>> => HoldsSound'
         /\ /\ UNCHANGED <<issues, calls>> /\ DOMAIN leases' = DOMAIN leases
            /\ DOMAIN localLeases' = DOMAIN localLeases /\ primaryNow' \in Nat /\ primaryNow' >= primaryNow
            => IssuesSound'
         /\ UNCHANGED <<settled, outbox, confirmed>> => EventsSound'
         /\ UNCHANGED <<closes, localLeases, leases, confirmed>> => ClosesSound'
         /\ /\ UNCHANGED <<issues, closes>> /\ DOMAIN localLeases' = DOMAIN localLeases
            => OneAwaited'
<1>1. UNCHANGED <<leases, issues, allocations>> => LeasesSound'
  BY DEF Inv, LeasesSound
<1>2. UNCHANGED <<allocations, leases, holds>> => HoldsSound'
  BY DEF Inv, HoldsSound, Live
<1>3. ASSUME UNCHANGED <<issues, calls>>, DOMAIN leases' = DOMAIN leases,
             DOMAIN localLeases' = DOMAIN localLeases, primaryNow' \in Nat, primaryNow' >= primaryNow
      PROVE  IssuesSound'
  <2>1. ASSUME NEW l \in DOMAIN issues, ExpiredUnissued(l)
        PROVE  ExpiredUnissued(l)'
    <3>1. primaryNow \in Nat /\ issues[l].l.expiresAt \in Nat
      BY TypeParts DEF AuthorityTypes, BrokerTypes, Table, IssueRow, Lease
    <3> QED
      BY <1>3, <2>1, <3>1 DEF ExpiredUnissued
  <2> QED
    BY <1>3, <2>1 DEF Inv, IssuesSound
<1>4. UNCHANGED <<settled, outbox, confirmed>> => EventsSound'
  BY DEF Inv, EventsSound
<1>5. UNCHANGED <<closes, localLeases, leases, confirmed>> => ClosesSound'
  BY DEF Inv, ClosesSound
<1>6. UNCHANGED <<issues, closes>> /\ DOMAIN localLeases' = DOMAIN localLeases => OneAwaited'
  BY DEF Inv, OneAwaited, Awaited, GivenBack
<1> QED
  BY <1>1, <1>2, <1>3, <1>4, <1>5, <1>6

LEMMA RegionKept ==
  ASSUME Inv
  PROVE  /\ UNCHANGED <<localLeases, requests, outbox>> /\ LeasesStay => LocalSound'
         /\ UNCHANGED <<requests, outbox, dispatched>> /\ DOMAIN localLeases' = DOMAIN localLeases => RequestsSound'
         /\ /\ DOMAIN leases' = DOMAIN leases /\ \A l \in DOMAIN leases : leases'[l].spent = leases[l].spent
            /\ RequestsStay /\ UNCHANGED settled
            => AuthoritySums'
         /\ LocalsStay /\ UNCHANGED <<requests, outbox>> => RegionSums'
<1>1. UNCHANGED <<localLeases, requests, outbox>> /\ LeasesStay => LocalSound'
  BY DEF Inv, LocalSound, LeasesStay, Resolved, RowsOf
<1>2. UNCHANGED <<requests, outbox, dispatched>> /\ DOMAIN localLeases' = DOMAIN localLeases => RequestsSound'
  BY DEF Inv, RequestsSound
<1>3. ASSUME DOMAIN leases' = DOMAIN leases, RequestsStay, UNCHANGED settled,
             \A l \in DOMAIN leases : leases'[l].spent = leases[l].spent
      PROVE  AuthoritySums'
  <2>1. ASSUME NEW l PROVE SettledOf(l)' = SettledOf(l)
    BY <1>3 DEF SettledOf, RequestsStay, Inv, EventsSound, RequestsSound
  <2> QED
    BY <1>3, <2>1 DEF Inv, AuthoritySums
<1>4. ASSUME LocalsStay, UNCHANGED <<requests, outbox>>
      PROVE  RegionSums'
  <2>1. Charges' = Charges /\ Reserves' = Reserves
    BY <1>4 DEF Charges, Reserves
  <2>2. ASSUME NEW l PROVE RowsOf(l)' = RowsOf(l) /\ LiveRows(l)' = LiveRows(l)
    BY <1>4 DEF RowsOf, LiveRows, Live
  <2> QED
    BY <1>4, <2>1, <2>2 DEF Inv, RegionSums, LocalsStay
<1> QED
  BY <1>1, <1>2, <1>3, <1>4

\* A step that leaves the tables alone.
LEMMA TablesKept ==
  ASSUME Inv, UNCHANGED <<allocations, leases, settled, holds, localLeases, requests, outbox, dispatched,
                          issues, closes, calls, confirmed>>,
         primaryNow' \in Nat, primaryNow' >= primaryNow, TypeOK'
  PROVE  Inv'
<1>1. LeasesStay /\ LocalsStay /\ RequestsStay
  BY DEF LeasesStay, LocalsStay, RequestsStay
<1>2. LeasesSound' /\ HoldsSound' /\ IssuesSound' /\ EventsSound' /\ ClosesSound' /\ OneAwaited'
  BY AuthorityKept
<1>3. LocalSound' /\ RequestsSound' /\ AuthoritySums' /\ RegionSums'
  BY <1>1, RegionKept
<1> QED
  BY <1>2, <1>3 DEF Inv

-----------------------------------------------------------------------------
(* Steps that touch no table, or only that of the processes. *)

LEMMA ProcessStep ==
  ASSUME Inv, NEW q \in DOMAIN attempts,
         BeforeSend(q) \/ GiveUp(q) \/ CancelRefused(q) \/ StartRefused(q) \/ Die(q)
  PROVE  Inv'
<1>1. UNCHANGED <<authorityVars, regionVars, brokerVars, dispatched>>
  BY DEF BeforeSend, GiveUp, CancelRefused, StartRefused, Die
<1>2. q \in Requests
  BY TypeParts DEF ProcessTypes, Table
<1>3. /\ attempts' = attempts \/ \E a \in {"sending", "ended"} : attempts' = [attempts EXCEPT ![q] = a]
      /\ canceling' \subseteq canceling \cup {q}
  BY DEF BeforeSend, GiveUp, CancelRefused, StartRefused, Die
<1>4. ProcessTypes'
  BY <1>1, <1>2, <1>3, TypeParts DEF ProcessTypes, Table
<1>5. AuthorityTypes' /\ RegionTypes' /\ BrokerTypes'
  BY <1>1, TypesKept
<1>6. primaryNow' \in Nat /\ primaryNow' >= primaryNow
  BY <1>1, TypeParts DEF AuthorityTypes, authorityVars
<1> QED
  BY <1>1, <1>4, <1>5, <1>6, TypeNext, TablesKept DEF authorityVars, regionVars, brokerVars

LEMMA AdminStep ==
  ASSUME Inv, Administer \/ TickPrimary
  PROVE  Inv'
<1>1. /\ UNCHANGED <<balance, quotaUsed, allocations, leases, settled, holds, regionVars, processVars, brokerVars>>
      /\ active' \in BOOLEAN /\ kind' \in Kinds /\ quota' \in Quotas
      /\ primaryNow' \in Nat /\ primaryNow' >= primaryNow
  <2>1. primaryNow \in Nat /\ active \in BOOLEAN /\ kind \in Kinds /\ quota \in Quotas
    BY TypeParts DEF AuthorityTypes
  <2>2. CASE Administer
    <3>1. active' \in BOOLEAN
      BY <2>1, <2>2 DEF Administer
    <3> QED
      BY <2>1, <2>2, <3>1 DEF Administer
  <2>3. CASE TickPrimary
    BY <2>1, <2>3 DEF TickPrimary
  <2> QED
    BY <2>2, <2>3
<1>2. AuthorityTypes'
  BY <1>1, TypeParts DEF AuthorityTypes, Table
<1>3. ProcessTypes' /\ RegionTypes' /\ BrokerTypes'
  BY <1>1, TypesKept
<1> QED
  BY <1>1, <1>2, <1>3, TypeNext, TablesKept DEF regionVars, processVars, brokerVars

LEMMA TickRegionStep ==
  ASSUME Inv, NEW r \in Regions, TickRegion(r)
  PROVE  Inv'
<1>1. UNCHANGED <<localLeases, requests, outbox, authorityVars, processVars, brokerVars>>
  BY DEF TickRegion
<1>2. RegionTypes'
  BY TypeParts DEF RegionTypes, TickRegion, Table
<1>3. AuthorityTypes' /\ ProcessTypes' /\ BrokerTypes'
  BY <1>1, TypesKept
<1>4. primaryNow' \in Nat /\ primaryNow' >= primaryNow
  BY <1>1, TypeParts DEF AuthorityTypes, authorityVars
<1> QED
  BY <1>1, <1>2, <1>3, <1>4, TypeNext, TablesKept DEF authorityVars, processVars, brokerVars

LEMMA StutterStep ==
  ASSUME Inv, UNCHANGED vars
  PROVE  Inv'
<1>1. UNCHANGED <<authorityVars, regionVars, processVars, brokerVars>>
  BY DEF vars
<1>2. AuthorityTypes' /\ RegionTypes' /\ ProcessTypes' /\ BrokerTypes'
  BY <1>1, TypesKept
<1>3. primaryNow' \in Nat /\ primaryNow' >= primaryNow
  BY <1>1, TypeParts DEF AuthorityTypes, authorityVars
<1> QED
  BY <1>1, <1>2, <1>3, TypeNext, TablesKept DEF authorityVars, regionVars, processVars, brokerVars

-----------------------------------------------------------------------------
(* The life of an issue. *)

\* Amounts and maxima are positive.
LEMMA Positive ==
  /\ \A n \in Amounts : n \in Nat /\ n > 0
  /\ \A n \in Maxima : n \in Nat /\ n > 0
<1>1. Amounts \subseteq Nat \ {0} /\ Maxima \subseteq Nat \ {0}
  BY LedgerAssumption
<1> QED
  BY <1>1

\* What the rows of the tables are.
LEMMA IssueFacts ==
  ASSUME Inv, NEW l \in DOMAIN issues
  PROVE  /\ l \in Leases /\ issues[l] \in IssueRow /\ issues[l].l \in Lease
         /\ issues[l].l.granted \in Nat /\ issues[l].l.granted \in Amounts /\ issues[l].l.granted > 0
         /\ issues[l].l.region \in Regions
         /\ issues[l].l.expiresAt \in Nat /\ primaryNow \in Nat
         /\ calls[l] \in {"idle", "ok", "gone", "stored"} /\ DOMAIN calls = DOMAIN issues
<1>1. l \in Leases /\ issues[l] \in IssueRow /\ primaryNow \in Nat
      /\ calls[l] \in {"idle", "ok", "gone", "stored"} /\ DOMAIN calls = DOMAIN issues
  BY TypeParts DEF BrokerTypes, AuthorityTypes, Table
<1>2. issues[l].l \in Lease
  BY <1>1 DEF IssueRow
<1>3. issues[l].l.granted \in Amounts /\ issues[l].l.expiresAt \in Nat /\ issues[l].l.region \in Regions
  BY <1>2 DEF Lease
<1>4. issues[l].l.granted \in Nat /\ issues[l].l.granted > 0
  BY <1>3, Positive
<1> QED
  BY <1>1, <1>2, <1>3, <1>4

LEMMA LeaseFacts ==
  ASSUME Inv, NEW l \in DOMAIN leases
  PROVE  /\ l \in Leases /\ l \in DOMAIN issues /\ leases[l] \in LeaseRow /\ leases[l].l = issues[l].l
         /\ leases[l].spent \in Nat /\ leases[l].l.granted \in Nat /\ leases[l].spent <= leases[l].l.granted
         /\ leases[l].state \in {"open", "closed"}
         /\ l \in DOMAIN allocations /\ allocations[l] \in AllocationRow
         /\ allocations[l].spent \in Nat /\ allocations[l].maximum \in Nat
         /\ allocations[l].maximum = leases[l].l.granted /\ allocations[l].spent = leases[l].spent
         /\ l \notin DOMAIN holds
<1>1. l \in Leases /\ leases[l] \in LeaseRow
  BY TypeParts DEF AuthorityTypes, Table
<1>2. leases[l].spent \in Nat /\ leases[l].state \in {"open", "closed"}
  BY <1>1 DEF LeaseRow
<1>3. /\ l \in DOMAIN issues /\ leases[l].l = issues[l].l /\ leases[l].spent <= leases[l].l.granted
      /\ l \in DOMAIN allocations
      /\ allocations[l].maximum = leases[l].l.granted /\ allocations[l].spent = leases[l].spent
  BY DEF Inv, LeasesSound
<1>4. allocations[l] \in AllocationRow
  BY <1>3, TypeParts DEF AuthorityTypes, Table
<1>5. l \notin DOMAIN holds
  BY <1>1, TypeParts, LedgerAssumption DEF AuthorityTypes, Table, Requests
<1> QED
  BY <1>1, <1>2, <1>3, <1>4, <1>5, IssueFacts

\* The answer to an issue: at most its call moves.
LEMMA AnswerStep ==
  ASSUME Inv, NEW l \in DOMAIN issues, NEW st \in {"ok", "gone"}, AnswerIssue(l, st),
         DOMAIN leases \subseteq DOMAIN leases', DOMAIN leases' \subseteq DOMAIN leases \cup {l},
         UNCHANGED <<primaryNow, localLeases>>,
         st = "ok" => l \in DOMAIN leases',
         l \in DOMAIN leases' => ~ ExpiredUnissued(l),
         st = "gone" => ExpiredUnissued(l)
  PROVE  BrokerTypes' /\ IssuesSound'
<1>1. /\ UNCHANGED <<issues, closes, confirmed>>
      /\ \/ UNCHANGED calls
         \/ issues[l].state = "pending" /\ calls[l] = "idle" /\ calls' = [calls EXCEPT ![l] = st]
  BY DEF AnswerIssue
<1>2. BrokerTypes'
  BY <1>1, TypeParts DEF BrokerTypes, Table
<1>3. ASSUME NEW k \in DOMAIN issues, calls'[k] = "gone" \/ issues[k].state = "rejected"
      PROVE  ExpiredUnissued(k)'
  <2>1. ExpiredUnissued(k)
    <3>1. CASE k = l
      BY <1>1, <1>3, <3>1, IssueFacts DEF Inv, IssuesSound
    <3>2. CASE k # l
      BY <1>1, <1>3, <3>2, IssueFacts DEF Inv, IssuesSound
    <3> QED
      BY <3>1, <3>2
  <2> QED
    BY <1>1, <2>1 DEF ExpiredUnissued
<1>4. ASSUME NEW k \in DOMAIN issues
      PROVE  /\ calls'[k] # "idle" => issues[k].state = "pending"
             /\ calls'[k] \in {"ok", "stored"} => k \in DOMAIN leases'
             /\ calls'[k] = "stored" \/ issues[k].state = "installed" => k \in DOMAIN localLeases
  <2>1. CASE k = l
    BY <1>1, <2>1, IssueFacts DEF Inv, IssuesSound
  <2>2. CASE k # l
    BY <1>1, <2>2, IssueFacts DEF Inv, IssuesSound
  <2> QED
    BY <2>1, <2>2
<1>5. IssuesSound'
  BY <1>1, <1>3, <1>4 DEF IssuesSound
<1> QED
  BY <1>2, <1>5

LEMMA ReanswerStep ==
  ASSUME Inv, NEW l \in DOMAIN issues, IssueRepeated(l) \/ IssueExpired(l)
  PROVE  Inv'
<1>1. UNCHANGED <<authorityVars, regionVars, processVars, issues, closes, confirmed>>
  BY DEF IssueRepeated, IssueExpired, AnswerIssue
<1>2. BrokerTypes' /\ IssuesSound'
  <2>1. UNCHANGED <<leases, primaryNow, localLeases>>
    BY <1>1 DEF authorityVars, regionVars
  <2>2. CASE IssueRepeated(l)
    BY <2>1, <2>2, AnswerStep DEF IssueRepeated, ExpiredUnissued
  <2>3. CASE IssueExpired(l)
    BY <2>1, <2>3, AnswerStep DEF IssueExpired, ExpiredUnissued
  <2> QED
    BY <2>2, <2>3
<1>3. AuthorityTypes' /\ RegionTypes' /\ ProcessTypes'
  BY <1>1, TypesKept
<1>4. LeasesStay /\ LocalsStay /\ RequestsStay
  BY <1>1 DEF LeasesStay, LocalsStay, RequestsStay, authorityVars, regionVars
<1>5. LeasesSound' /\ HoldsSound' /\ EventsSound' /\ ClosesSound' /\ OneAwaited'
  BY <1>1, AuthorityKept DEF authorityVars, regionVars
<1>6. LocalSound' /\ RequestsSound' /\ AuthoritySums' /\ RegionSums'
  BY <1>1, <1>4, RegionKept DEF authorityVars, regionVars, processVars
<1> QED
  BY <1>2, <1>3, <1>5, <1>6, TypeNext DEF Inv

LEMMA NewLease ==
  ASSUME Inv, NEW l \in DOMAIN issues, l \notin DOMAIN leases
  PROVE  /\ l \notin DOMAIN holds /\ l \notin DOMAIN allocations /\ l \notin DOMAIN localLeases
         /\ \A q \in DOMAIN requests : requests[q].lease # l
         /\ SettledOf(l) = {}
<1>1. l \notin DOMAIN holds
  BY IssueFacts, TypeParts, LedgerAssumption DEF AuthorityTypes, Table, Requests
<1>2. l \notin DOMAIN allocations /\ l \notin DOMAIN localLeases
  BY <1>1 DEF Inv, HoldsSound, LocalSound
<1>3. \A q \in DOMAIN requests : requests[q].lease # l
  BY <1>2 DEF Inv, RequestsSound
<1>4. SettledOf(l) = {}
  BY <1>3 DEF SettledOf, Inv, EventsSound, RequestsSound
<1> QED
  BY <1>1, <1>2, <1>3, <1>4

LEMMA IssueStep ==
  ASSUME Inv, NEW l \in DOMAIN issues, Issue(l)
  PROVE  Inv'
<1> DEFINE g == issues[l].l
           arow == NewAllocation(g.granted)
           lrow == [l |-> g, spent |-> 0, state |-> "open"]
<1>1. /\ l \notin DOMAIN leases /\ primaryNow < g.expiresAt /\ AnswerIssue(l, "ok")
      /\ allocations' = Put(allocations, l, arow) /\ leases' = Put(leases, l, lrow)
      /\ UNCHANGED <<active, kind, quota, quotaUsed, settled, holds, primaryNow, regionVars, processVars>>
      /\ UNCHANGED <<issues, closes, confirmed>>
  BY DEF Issue, Issuable, AnswerIssue
<1>2. g \in Lease /\ g.granted \in Nat /\ g.expiresAt \in Nat /\ primaryNow \in Nat /\ l \in Leases
  BY IssueFacts
<1>3. balance' \in Nat
  <2>1. balance \in Nat
    BY TypeParts DEF AuthorityTypes
  <2>2. balance' = balance \/ (g.granted <= balance /\ balance' = balance - g.granted)
    BY DEF Issue, Affordable
  <2> QED
    BY <1>2, <2>1, <2>2
<1>4. /\ arow \in AllocationRow /\ arow.maximum = g.granted /\ arow.spent = 0 /\ arow.state = "held"
      /\ lrow \in LeaseRow /\ lrow.l = g /\ lrow.spent = 0 /\ lrow.state = "open"
  BY <1>2 DEF NewAllocation, AllocationRow, LeaseRow
<1> HIDE DEF arow, lrow
<1>5. /\ DOMAIN leases' = DOMAIN leases \cup {l} /\ leases'[l] = lrow
      /\ \A k \in DOMAIN leases : leases'[k] = leases[k] /\ k # l
  BY <1>1 DEF Put
<1>6. /\ DOMAIN allocations' = DOMAIN allocations \cup {l} /\ allocations'[l] = arow
      /\ \A k \in DOMAIN allocations : allocations'[k] = allocations[k] /\ k # l
  BY <1>1, NewLease DEF Put
<1>7. AuthorityTypes'
  <2>1. /\ Table(allocations', Leases \cup PrimaryRequests, AllocationRow)
        /\ Table(leases', Leases, LeaseRow)
    BY <1>1, <1>2, <1>4, PutTable, TypeParts DEF AuthorityTypes
  <2> QED
    BY <1>1, <1>3, <2>1, TypeParts DEF AuthorityTypes, Table
<1>8. BrokerTypes' /\ IssuesSound'
  <2>1. ~ ExpiredUnissued(l)
    BY <1>1, <1>2 DEF ExpiredUnissued
  <2>2. DOMAIN leases \subseteq DOMAIN leases' /\ DOMAIN leases' \subseteq DOMAIN leases \cup {l} /\ l \in DOMAIN leases'
    BY <1>5
  <2>3. UNCHANGED <<primaryNow, localLeases>>
    BY <1>1 DEF regionVars
  <2> QED
    BY <1>1, <2>1, <2>2, <2>3, AnswerStep
<1>9. RegionTypes' /\ ProcessTypes'
  BY <1>1, TypesKept
<1>10. LeasesSound'
  <2>1. ASSUME NEW k \in DOMAIN leases
        PROVE  k \in DOMAIN allocations /\ k \in DOMAIN issues
    BY LeaseFacts
  <2>2. ASSUME NEW k \in DOMAIN leases'
        PROVE  /\ k \in DOMAIN issues /\ leases'[k].l = issues[k].l
               /\ k \in DOMAIN allocations' /\ allocations'[k].maximum = leases'[k].l.granted
               /\ allocations'[k].spent = leases'[k].spent /\ leases'[k].spent <= leases'[k].l.granted
               /\ allocations'[k].state = "held" <=> leases'[k].state = "open"
    <3>1. CASE k = l
      BY <1>2, <1>4, <1>5, <1>6, <3>1
    <3>2. CASE k # l
      BY <1>5, <1>6, <2>1, <3>2 DEF Inv, LeasesSound
    <3> QED
      BY <3>1, <3>2
  <2> QED
    BY <1>1, <2>2 DEF LeasesSound
<1>11. HoldsSound'
  BY <1>1, <1>5, <1>6 DEF Inv, HoldsSound, Live
<1>12. ClosesSound'
  <2>1. UNCHANGED <<closes, localLeases, confirmed>>
    BY <1>1 DEF regionVars
  <2>2. \A k \in DOMAIN localLeases : k \in DOMAIN leases
    BY DEF Inv, LocalSound
  <2> QED
    BY <1>4, <1>5, <2>1, <2>2 DEF Inv, ClosesSound
<1>13. AuthoritySums'
  <2>1. UNCHANGED <<settled, requests>>
    BY <1>1 DEF regionVars
  <2>2. ASSUME NEW k PROVE SettledOf(k)' = SettledOf(k)
    BY <2>1 DEF SettledOf
  <2>3. lrow.spent = Total(SettledOf(l), settled)
    BY <1>1, <1>4, NewLease, TotalEmpty
  <2> QED
    BY <1>5, <2>1, <2>2, <2>3 DEF Inv, AuthoritySums
<1>14. LeasesStay /\ LocalsStay /\ RequestsStay
  BY <1>1, <1>5 DEF LeasesStay, LocalsStay, RequestsStay, regionVars
<1>15. EventsSound' /\ OneAwaited'
  BY <1>1, AuthorityKept DEF regionVars
<1>16. LocalSound' /\ RequestsSound' /\ RegionSums'
  BY <1>1, <1>14, RegionKept DEF regionVars, processVars
<1> QED
  BY <1>7, <1>8, <1>9, <1>10, <1>11, <1>12, <1>13, <1>15, <1>16, TypeNext DEF Inv

\* A region asks for a lease only when nothing of its target is out.
LEMMA EnsureFundsStep ==
  ASSUME Inv, NEW r \in Regions, NEW n \in Amounts, NEW mode \in Kinds, EnsureFunds(r, n, mode)
  PROVE  Inv'
<1>1. UNCHANGED <<closes, confirmed, authorityVars, regionVars, processVars>> /\ NothingPending(r) /\ NothingOut(r)
  BY DEF EnsureFunds
<1> DEFINE g(l) == [id |-> l, region |-> r, granted |-> n, mode |-> mode,
                    issuedAt |-> regionNow[r], expiresAt |-> regionNow[r] + Lifetime]
           row(l) == [state |-> "pending", l |-> g(l)]
<1>2. PICK l \in Leases \ DOMAIN issues : issues' = Put(issues, l, row(l)) /\ calls' = Put(calls, l, "idle")
  BY DEF EnsureFunds
<1>3. row(l) \in IssueRow /\ row(l).state = "pending" /\ row(l).l.region = r
  <2>1. regionNow[r] \in Nat /\ regionNow[r] + Lifetime \in Nat
    BY TypeParts, LedgerAssumption DEF RegionTypes
  <2>2. g(l) \in Lease /\ g(l).region = r
    BY <2>1 DEF Lease
  <2> HIDE DEF g
  <2> QED
    BY <2>2 DEF IssueRow
<1> HIDE DEF row
<1>4. /\ DOMAIN issues' = DOMAIN issues \cup {l} /\ issues'[l] = row(l)
      /\ \A k \in DOMAIN issues : issues'[k] = issues[k] /\ k # l
  BY <1>2 DEF Put
<1>5. /\ DOMAIN calls' = DOMAIN issues' /\ calls'[l] = "idle"
      /\ \A k \in DOMAIN issues : calls'[k] = calls[k]
  BY <1>2, <1>4, TypeParts DEF Put, BrokerTypes
<1>6. l \notin DOMAIN leases /\ l \notin DOMAIN localLeases
  BY DEF Inv, LeasesSound, LocalSound
<1>7. BrokerTypes'
  <2>1. Table(issues', Leases, IssueRow)
    BY <1>2, <1>3, PutTable, TypeParts DEF BrokerTypes
  <2>2. Table(calls', DOMAIN issues', {"idle", "ok", "gone", "stored"})
    BY <1>4, <1>5, TypeParts DEF BrokerTypes, Table
  <2> QED
    BY <1>1, <1>5, <2>1, <2>2, TypeParts DEF BrokerTypes, Table
<1>8. AuthorityTypes' /\ RegionTypes' /\ ProcessTypes'
  BY <1>1, TypesKept
<1>9. LeasesSound'
  <2>1. UNCHANGED <<leases, allocations>>
    BY <1>1 DEF authorityVars
  <2> QED
    BY <1>4, <2>1 DEF Inv, LeasesSound
<1>10. IssuesSound'
  <2>1. UNCHANGED <<leases, localLeases, primaryNow>>
    BY <1>1 DEF authorityVars, regionVars
  <2>2. ASSUME NEW k \in DOMAIN issues, ExpiredUnissued(k) PROVE ExpiredUnissued(k)'
    BY <1>4, <2>1, <2>2 DEF ExpiredUnissued
  <2> QED
    BY <1>3, <1>4, <1>5, <2>1, <2>2 DEF Inv, IssuesSound
<1>11. OneAwaited'
  <2>1. UNCHANGED <<localLeases, closes>>
    BY <1>1 DEF regionVars
  <2>2. ASSUME NEW k \in DOMAIN issues PROVE Awaited(k)' <=> Awaited(k)
    BY <1>4, <2>1 DEF Awaited, GivenBack
  <2>3. ASSUME NEW k \in DOMAIN issues, issues[k].l.region = r PROVE ~ Awaited(k)
    <3>1. k \in DOMAIN localLeases => localLeases[k].l = issues[k].l
      BY DEF Inv, LocalSound, LeasesSound
    <3> QED
      BY <1>1, <2>3, <3>1 DEF Awaited, GivenBack, NothingPending, NothingOut
  <2>4. ASSUME NEW j \in DOMAIN issues', NEW k \in DOMAIN issues', Awaited(j)', Awaited(k)',
               issues'[j].l.region = issues'[k].l.region
        PROVE  j = k
    <3>1. CASE j \in DOMAIN issues /\ k \in DOMAIN issues
      BY <1>4, <2>2, <2>4, <3>1 DEF Inv, OneAwaited
    <3>2. CASE j = l /\ k \in DOMAIN issues
      BY <1>3, <1>4, <2>2, <2>3, <2>4, <3>2
    <3>3. CASE k = l /\ j \in DOMAIN issues
      BY <1>3, <1>4, <2>2, <2>3, <2>4, <3>3
    <3> QED
      BY <1>4, <3>1, <3>2, <3>3
  <2> QED
    BY <2>4 DEF OneAwaited
<1>12. LeasesStay /\ LocalsStay /\ RequestsStay
  BY <1>1 DEF LeasesStay, LocalsStay, RequestsStay, authorityVars, regionVars
<1>13. HoldsSound' /\ EventsSound' /\ ClosesSound'
  BY <1>1, AuthorityKept DEF authorityVars, regionVars
<1>14. LocalSound' /\ RequestsSound' /\ AuthoritySums' /\ RegionSums'
  BY <1>1, <1>12, RegionKept DEF authorityVars, regionVars, processVars
<1> QED
  BY <1>7, <1>8, <1>9, <1>10, <1>11, <1>13, <1>14, TypeNext DEF Inv

\* A replay ends: its call is idle again, and its issue is pending or decided.
LEMMA ReplayEnds ==
  ASSUME Inv, NEW l \in DOMAIN issues, NEW st \in {"pending", "installed", "rejected"},
         calls[l] # "idle", calls' = [calls EXCEPT ![l] = "idle"],
         DOMAIN issues' = DOMAIN issues, \A k \in DOMAIN issues \ {l} : issues'[k] = issues[k],
         issues'[l] \in IssueRow, issues'[l].l = issues[l].l, issues'[l].state = st,
         st = "installed" => calls[l] = "stored",
         st = "rejected" => calls[l] = "gone",
         UNCHANGED <<closes, confirmed, authorityVars, regionVars, processVars>>
  PROVE  Inv'
<1>1. /\ DOMAIN issues' = DOMAIN issues /\ \A k \in DOMAIN issues \ {l} : issues'[k] = issues[k]
      /\ issues'[l] \in IssueRow /\ issues'[l].l = issues[l].l /\ issues'[l].state = st
  OBVIOUS
<1>2. issues[l].state = "pending"
  BY DEF Inv, IssuesSound
<1>3. /\ DOMAIN calls' = DOMAIN issues /\ calls'[l] = "idle"
      /\ \A k \in DOMAIN issues \ {l} : calls'[k] = calls[k]
  BY IssueFacts
<1>4. BrokerTypes'
  BY <1>1, <1>3, TypeParts DEF BrokerTypes, Table
<1>5. AuthorityTypes' /\ RegionTypes' /\ ProcessTypes'
  BY TypesKept
<1>6. UNCHANGED <<leases, localLeases, primaryNow, allocations>>
  BY DEF authorityVars, regionVars
<1>7. \A k \in DOMAIN issues : issues'[k].l = issues[k].l
  BY <1>1
<1>8. LeasesSound'
  BY <1>1, <1>6, <1>7 DEF Inv, LeasesSound
<1>9. IssuesSound'
  <2>1. ASSUME NEW k \in DOMAIN issues, ExpiredUnissued(k) PROVE ExpiredUnissued(k)'
    BY <1>6, <1>7, <2>1 DEF ExpiredUnissued
  <2>2. ASSUME NEW k \in DOMAIN issues'
        PROVE  /\ calls'[k] # "idle" => issues'[k].state = "pending"
               /\ calls'[k] \in {"ok", "stored"} => k \in DOMAIN leases'
               /\ calls'[k] = "stored" \/ issues'[k].state = "installed" => k \in DOMAIN localLeases'
               /\ calls'[k] = "gone" \/ issues'[k].state = "rejected" => ExpiredUnissued(k)'
    <3>1. CASE k = l
      BY <1>1, <1>3, <1>6, <2>1, <3>1 DEF Inv, IssuesSound
    <3>2. CASE k # l
      BY <1>1, <1>3, <1>6, <2>1, <3>2 DEF Inv, IssuesSound
    <3> QED
      BY <3>1, <3>2
  <2> QED
    BY <2>2 DEF IssuesSound
<1>10. OneAwaited'
  <2>1. ASSUME NEW k \in DOMAIN issues, Awaited(k)'
        PROVE  Awaited(k)
    BY <1>1, <1>2, <1>6, <2>1 DEF Awaited, GivenBack
  <2> QED
    BY <1>1, <1>7, <2>1 DEF Inv, OneAwaited
<1>11. LeasesStay /\ LocalsStay /\ RequestsStay
  BY DEF LeasesStay, LocalsStay, RequestsStay, authorityVars, regionVars
<1>12. HoldsSound' /\ EventsSound' /\ ClosesSound'
  BY AuthorityKept DEF authorityVars, regionVars
<1>13. LocalSound' /\ RequestsSound' /\ AuthoritySums' /\ RegionSums'
  BY <1>11, RegionKept DEF authorityVars, regionVars, processVars
<1> QED
  BY <1>4, <1>5, <1>8, <1>9, <1>10, <1>12, <1>13, TypeNext DEF Inv

LEMMA ReplayStep ==
  ASSUME Inv, NEW l \in DOMAIN issues, ReplayFails(l) \/ ReplayRejected(l) \/ ReplayInstalled(l)
  PROVE  Inv'
<1>1. CASE ReplayFails(l)
  <2>1. issues[l].state = "pending" /\ issues[l] \in IssueRow
    BY <1>1, IssueFacts DEF ReplayFails, Inv, IssuesSound
  <2> QED
    BY <1>1, <2>1, ReplayEnds DEF ReplayFails
<1>2. ASSUME NEW st \in {"installed", "rejected"}, issues' = [issues EXCEPT ![l].state = st]
      PROVE  /\ DOMAIN issues' = DOMAIN issues /\ \A k \in DOMAIN issues \ {l} : issues'[k] = issues[k]
             /\ issues'[l] \in IssueRow /\ issues'[l].l = issues[l].l /\ issues'[l].state = st
  BY <1>2, IssueFacts DEF IssueRow
<1>3. CASE ReplayRejected(l)
  BY <1>2, <1>3, ReplayEnds DEF ReplayRejected, ToldGone
<1>4. CASE ReplayInstalled(l)
  BY <1>2, <1>4, ReplayEnds DEF ReplayInstalled
<1> QED
  BY <1>1, <1>3, <1>4

\* Local.Install of a lease the authority has confirmed.
LEMMA ReplayInstallStep ==
  ASSUME Inv, NEW l \in DOMAIN issues, ReplayInstall(l)
  PROVE  Inv'
<1> DEFINE row == [l |-> issues[l].l, spent |-> 0, reserved |-> 0, state |-> "open"]
<1>1. /\ calls[l] = "ok" /\ calls' = [calls EXCEPT ![l] = "stored"]
      /\ UNCHANGED <<requests, outbox, regionNow, issues, closes, confirmed, authorityVars, processVars>>
      /\ \/ l \in DOMAIN localLeases /\ localLeases' = localLeases
         \/ l \notin DOMAIN localLeases /\ localLeases' = Put(localLeases, l, row)
  BY DEF ReplayInstall, Installed
<1>2. l \in DOMAIN leases /\ issues[l].state = "pending"
  BY <1>1 DEF Inv, IssuesSound
<1>3. leases[l].l = issues[l].l /\ issues[l].l \in Lease /\ l \in Leases
  BY <1>2, LeaseFacts, IssueFacts
<1>4. row \in LocalRow /\ row.l = leases[l].l /\ row.spent = 0 /\ row.reserved = 0 /\ row.state = "open"
  BY <1>3 DEF LocalRow
<1> HIDE DEF row
<1>5. /\ DOMAIN localLeases' = DOMAIN localLeases \cup {l}
      /\ \A k \in DOMAIN localLeases : localLeases'[k] = localLeases[k]
      /\ l \notin DOMAIN localLeases => localLeases'[l] = row
  BY <1>1 DEF Put
<1>6. /\ DOMAIN calls' = DOMAIN issues /\ calls'[l] = "stored"
      /\ \A k \in DOMAIN issues \ {l} : calls'[k] = calls[k]
  BY <1>1, IssueFacts
<1>7. BrokerTypes'
  BY <1>1, <1>6, TypeParts DEF BrokerTypes, Table
<1>8. RegionTypes'
  <2>1. Table(localLeases', Leases, LocalRow)
    BY <1>1, <1>3, <1>4, PutTable, TypeParts DEF RegionTypes
  <2> QED
    BY <1>1, <2>1, TypeParts DEF RegionTypes, Table
<1>9. AuthorityTypes' /\ ProcessTypes'
  BY <1>1, TypesKept
<1>10. UNCHANGED <<leases, primaryNow, allocations, holds, settled, dispatched>>
  BY <1>1 DEF authorityVars, processVars
<1>11. IssuesSound'
  <2>1. ASSUME NEW k \in DOMAIN issues, ExpiredUnissued(k) PROVE ExpiredUnissued(k)'
    BY <1>1, <1>10, <2>1 DEF ExpiredUnissued
  <2>2. ASSUME NEW k \in DOMAIN issues
        PROVE  /\ calls'[k] # "idle" => issues[k].state = "pending"
               /\ calls'[k] \in {"ok", "stored"} => k \in DOMAIN leases
               /\ calls'[k] = "stored" \/ issues[k].state = "installed" => k \in DOMAIN localLeases'
               /\ calls'[k] = "gone" \/ issues[k].state = "rejected" => ExpiredUnissued(k)'
    <3>1. CASE k = l
      BY <1>2, <1>5, <1>6, <3>1
    <3>2. CASE k # l
      BY <1>5, <1>6, <2>1, <3>2 DEF Inv, IssuesSound
    <3> QED
      BY <3>1, <3>2
  <2> QED
    BY <1>1, <1>10, <2>2 DEF IssuesSound
<1>12. LocalSound'
  <2>1. ASSUME NEW k PROVE Resolved(k)' <=> Resolved(k)
    BY <1>1 DEF Resolved, RowsOf
  <2> QED
    BY <1>2, <1>4, <1>5, <1>10, <2>1 DEF Inv, LocalSound
<1>13. RequestsSound'
  BY <1>1, <1>5, <1>10 DEF Inv, RequestsSound
<1>14. ClosesSound'
  BY <1>1, <1>5, <1>10 DEF Inv, ClosesSound
<1>15. OneAwaited'
  <2>1. ASSUME NEW k \in DOMAIN issues, Awaited(k)'
        PROVE  Awaited(k)
    BY <1>1, <1>2, <1>5, <2>1 DEF Awaited, GivenBack
  <2> QED
    BY <1>1, <2>1 DEF Inv, OneAwaited
<1>16. RegionSums'
  <2>1. Charges' = Charges /\ Reserves' = Reserves
    BY <1>1 DEF Charges, Reserves
  <2>2. ASSUME NEW k PROVE RowsOf(k)' = RowsOf(k) /\ LiveRows(k)' = LiveRows(k)
    BY <1>1 DEF RowsOf, LiveRows, Live
  <2>3. l \notin DOMAIN localLeases => RowsOf(l) = {} /\ LiveRows(l) = {} /\ RowsOf(l) \cap DOMAIN outbox = {}
    BY DEF Inv, RequestsSound, RowsOf, LiveRows
  <2>4. ASSUME NEW k \in DOMAIN localLeases'
        PROVE  /\ localLeases'[k].spent = Total(RowsOf(k) \cap DOMAIN outbox, Charges)
               /\ localLeases'[k].reserved = Total(LiveRows(k), Reserves)
               /\ localLeases'[k].spent + localLeases'[k].reserved <= localLeases'[k].l.granted
    <3>1. CASE k \in DOMAIN localLeases
      BY <1>5, <3>1 DEF Inv, RegionSums
    <3>2. CASE k \notin DOMAIN localLeases
      <4>1. k = l /\ localLeases'[k] = row
        BY <1>5, <3>2
      <4>2. Total({}, Charges) = 0 /\ Total({}, Reserves) = 0
        BY TotalEmpty
      <4>3. row.l.granted \in Nat
        BY <1>2, <1>4, LeaseFacts
      <4>4. row.spent + row.reserved <= row.l.granted
        BY <1>4, <4>3
      <4> QED
        BY <1>4, <2>3, <3>2, <4>1, <4>2, <4>4
    <3> QED
      BY <3>1, <3>2
  <2> QED
    BY <1>1, <2>1, <2>2, <2>4 DEF RegionSums
<1>17. LeasesStay /\ RequestsStay
  BY <1>1, <1>10 DEF LeasesStay, RequestsStay
<1>18. LeasesSound' /\ HoldsSound' /\ EventsSound'
  BY <1>1, <1>10, AuthorityKept
<1>19. AuthoritySums'
  BY <1>10, <1>17, RegionKept
<1> QED
  BY <1>7, <1>8, <1>9, <1>11, <1>12, <1>13, <1>14, <1>15, <1>16, <1>18, <1>19, TypeNext DEF Inv

-----------------------------------------------------------------------------
(* The end of a lease. *)

LEMMA LocalFacts ==
  ASSUME Inv, NEW l \in DOMAIN localLeases
  PROVE  /\ l \in Leases /\ l \in DOMAIN leases /\ l \in DOMAIN issues
         /\ localLeases[l] \in LocalRow /\ localLeases[l].l = leases[l].l /\ localLeases[l].l = issues[l].l
         /\ localLeases[l].spent \in Nat /\ localLeases[l].reserved \in Nat
         /\ localLeases[l].l.granted \in Nat
         /\ localLeases[l].state \in {"open", "draining", "closed"}
<1>1. l \in Leases /\ localLeases[l] \in LocalRow
  BY TypeParts DEF RegionTypes, Table
<1>2. /\ localLeases[l].spent \in Nat /\ localLeases[l].reserved \in Nat
      /\ localLeases[l].state \in {"open", "draining", "closed"}
  BY <1>1 DEF LocalRow
<1>3. l \in DOMAIN leases /\ localLeases[l].l = leases[l].l
  BY DEF Inv, LocalSound
<1> QED
  BY <1>1, <1>2, <1>3, LeaseFacts

\* A lease of the region goes on to the state st.
LEMMA LocalMoves ==
  ASSUME Inv, NEW l \in DOMAIN localLeases, NEW st \in {"draining", "closed"},
         localLeases' = [localLeases EXCEPT ![l].state = st],
         localLeases[l].state # "closed", st = "closed" => Resolved(l),
         UNCHANGED <<requests, outbox, regionNow, authorityVars, processVars, brokerVars>>
  PROVE  Inv'
<1>1. /\ DOMAIN localLeases' = DOMAIN localLeases
      /\ \A k \in DOMAIN localLeases \ {l} : localLeases'[k] = localLeases[k]
      /\ localLeases'[l] \in LocalRow /\ localLeases'[l].l = localLeases[l].l /\ localLeases'[l].state = st
      /\ localLeases'[l].spent = localLeases[l].spent /\ localLeases'[l].reserved = localLeases[l].reserved
  BY LocalFacts DEF LocalRow
<1>2. RegionTypes'
  BY <1>1, TypeParts DEF RegionTypes, Table
<1>3. AuthorityTypes' /\ ProcessTypes' /\ BrokerTypes'
  BY TypesKept
<1>4. /\ UNCHANGED <<leases, allocations, settled, holds, primaryNow>>
      /\ UNCHANGED <<issues, closes, calls, confirmed, dispatched>>
  BY DEF authorityVars, brokerVars, processVars
<1>5. primaryNow' \in Nat /\ primaryNow' >= primaryNow
  BY <1>4, TypeParts DEF AuthorityTypes
<1>6. LocalSound'
  <2>1. ASSUME NEW k PROVE Resolved(k)' <=> Resolved(k)
    BY DEF Resolved, RowsOf
  <2> QED
    BY <1>1, <1>4, <2>1 DEF Inv, LocalSound
<1>7. ClosesSound'
  <2>1. l \notin DOMAIN closes
    BY DEF Inv, ClosesSound
  <2> QED
    BY <1>1, <1>4, <2>1 DEF Inv, ClosesSound
<1>8. LeasesStay /\ LocalsStay /\ RequestsStay
  BY <1>1, <1>4 DEF LeasesStay, LocalsStay, RequestsStay
<1>9. LeasesSound' /\ HoldsSound' /\ IssuesSound' /\ EventsSound' /\ OneAwaited'
  BY <1>1, <1>4, <1>5, AuthorityKept
<1>10. RequestsSound' /\ AuthoritySums' /\ RegionSums'
  BY <1>1, <1>4, <1>8, RegionKept
<1> QED
  BY <1>2, <1>3, <1>6, <1>7, <1>9, <1>10, TypeNext DEF Inv

LEMMA DrainStep ==
  ASSUME Inv, NEW l \in DOMAIN localLeases, Drain(l) \/ LocalClose(l)
  PROVE  Inv'
<1>1. CASE Drain(l)
  BY <1>1, LocalMoves DEF Drain
<1>2. CASE LocalClose(l)
  BY <1>2, LocalMoves DEF LocalClose
<1> QED
  BY <1>1, <1>2

\* Receipts and answers: the authority and the region stay as they are.
LEMMA ReceiptMoves ==
  ASSUME Inv, UNCHANGED <<issues, calls, authorityVars, regionVars, processVars>>,
         BrokerTypes', EventsSound', ClosesSound', OneAwaited'
  PROVE  Inv'
<1>1. AuthorityTypes' /\ RegionTypes' /\ ProcessTypes'
  BY TypesKept
<1>2. /\ UNCHANGED <<leases, allocations, settled, holds, primaryNow>>
      /\ UNCHANGED <<localLeases, requests, outbox, dispatched>>
  BY DEF authorityVars, regionVars, processVars
<1>3. primaryNow' \in Nat /\ primaryNow' >= primaryNow
  BY <1>2, TypeParts DEF AuthorityTypes
<1>4. LeasesStay /\ LocalsStay /\ RequestsStay
  BY <1>2 DEF LeasesStay, LocalsStay, RequestsStay
<1>5. LeasesSound' /\ HoldsSound' /\ IssuesSound'
  BY <1>2, <1>3, AuthorityKept
<1>6. LocalSound' /\ RequestsSound' /\ AuthoritySums' /\ RegionSums'
  BY <1>2, <1>4, RegionKept
<1> QED
  BY <1>1, <1>5, <1>6, TypeNext DEF Inv

LEMMA QueueCloseStep ==
  ASSUME Inv, NEW l \in DOMAIN localLeases, QueueClose(l)
  PROVE  Inv'
<1> DEFINE row == [spent |-> localLeases[l].spent, state |-> "pending"]
<1>1. /\ localLeases[l].state = "closed" /\ l \notin DOMAIN closes /\ closes' = Put(closes, l, row)
      /\ UNCHANGED <<issues, calls, confirmed, authorityVars, regionVars, processVars>>
  BY DEF QueueClose
<1>2. row \in CloseRow /\ row.spent = localLeases[l].spent /\ row.state = "pending" /\ l \in Leases
  BY LocalFacts DEF CloseRow
<1> HIDE DEF row
<1>3. /\ DOMAIN closes' = DOMAIN closes \cup {l} /\ closes'[l] = row
      /\ \A k \in DOMAIN closes : closes'[k] = closes[k]
  BY <1>1 DEF Put
<1>4. BrokerTypes'
  <2>1. Table(closes', Leases, CloseRow)
    BY <1>1, <1>2, PutTable, TypeParts DEF BrokerTypes
  <2> QED
    BY <1>1, <2>1, TypeParts DEF BrokerTypes, Table
<1>5. UNCHANGED <<leases, localLeases, settled, outbox>>
  BY <1>1 DEF authorityVars, regionVars
<1>6. ClosesSound'
  BY <1>1, <1>2, <1>3, <1>5 DEF Inv, ClosesSound
<1>7. OneAwaited'
  <2>1. ASSUME NEW k \in DOMAIN issues, Awaited(k)'
        PROVE  Awaited(k)
    BY <1>1, <1>3, <1>5, <2>1 DEF Awaited, GivenBack
  <2> QED
    BY <1>1, <2>1 DEF Inv, OneAwaited
<1>8. EventsSound'
  BY <1>1, <1>5, AuthorityKept
<1> QED
  BY <1>1, <1>4, <1>6, <1>7, <1>8, ReceiptMoves

LEMMA CloseInstalledStep ==
  ASSUME Inv, NEW l \in DOMAIN closes, CloseInstalled(l)
  PROVE  Inv'
<1>1. /\ l \in confirmed /\ closes' = [closes EXCEPT ![l].state = "installed"] /\ confirmed' = confirmed \ {l}
      /\ UNCHANGED <<issues, calls, authorityVars, regionVars, processVars>>
  BY DEF CloseInstalled
<1>2. l \in Leases /\ closes[l] \in CloseRow
  BY TypeParts DEF BrokerTypes, Table
<1>3. /\ DOMAIN closes' = DOMAIN closes /\ \A k \in DOMAIN closes \ {l} : closes'[k] = closes[k]
      /\ closes'[l] \in CloseRow /\ closes'[l].spent = closes[l].spent /\ closes'[l].state = "installed"
  BY <1>1, <1>2 DEF CloseRow
<1>4. BrokerTypes'
  BY <1>1, <1>3, TypeParts DEF BrokerTypes, Table
<1>5. UNCHANGED <<leases, localLeases, settled, outbox>>
  BY <1>1 DEF authorityVars, regionVars
<1>6. ClosesSound'
  BY <1>1, <1>2, <1>3, <1>5 DEF Inv, ClosesSound
<1>7. OneAwaited'
  <2>1. ASSUME NEW k \in DOMAIN issues, Awaited(k)'
        PROVE  Awaited(k)
    BY <1>1, <1>3, <1>5, <2>1 DEF Awaited, GivenBack
  <2> QED
    BY <1>1, <2>1 DEF Inv, OneAwaited
<1>8. EventsSound'
  BY <1>1, <1>5 DEF Inv, EventsSound
<1> QED
  BY <1>1, <1>4, <1>6, <1>7, <1>8, ReceiptMoves

\* An answer is given again, or lost.
LEMMA ConfirmedStep ==
  ASSUME Inv,
         \/ \E x \in confirmed : ForgetAnswer(x)
         \/ \E q \in DOMAIN outbox : SettleRepeated(q)
         \/ \E l \in DOMAIN closes : CloseRepeated(l)
  PROVE  Inv'
<1>1. UNCHANGED <<issues, calls, closes, authorityVars, regionVars, processVars>>
  BY DEF ForgetAnswer, SettleRepeated, CloseRepeated
<1>2. \A x \in confirmed' :
        \/ x \in confirmed
        \/ x \in DOMAIN settled
        \/ x \in DOMAIN closes /\ leases[x].state = "closed"
  BY DEF ForgetAnswer, SettleRepeated, CloseRepeated, ClosedBefore
<1>3. /\ DOMAIN settled \subseteq RegionRequests /\ DOMAIN closes \subseteq Leases
      /\ Leases \cap RegionRequests = {}
  BY TypeParts, LedgerAssumption DEF AuthorityTypes, BrokerTypes, Table, Requests
<1>4. BrokerTypes'
  BY <1>1, <1>2, <1>3, TypeParts DEF BrokerTypes, Table
<1>5. UNCHANGED <<leases, localLeases, settled, outbox>>
  BY <1>1 DEF authorityVars, regionVars
<1>6. EventsSound'
  BY <1>2, <1>3, <1>5 DEF Inv, EventsSound
<1>7. ClosesSound'
  BY <1>1, <1>2, <1>3, <1>5 DEF Inv, ClosesSound
<1>8. OneAwaited'
  BY <1>1, <1>5, AuthorityKept
<1> QED
  BY <1>1, <1>4, <1>6, <1>7, <1>8, ReceiptMoves

-----------------------------------------------------------------------------
(* The sums. *)

LEMMA RequestFacts ==
  ASSUME Inv, NEW q \in DOMAIN requests
  PROVE  /\ q \in RegionRequests /\ requests[q] \in RequestRow
         /\ requests[q].maximum \in Nat /\ requests[q].maximum > 0
         /\ requests[q].lease \in DOMAIN localLeases
         /\ requests[q].state \in RequestState
         /\ q \notin DOMAIN holds /\ q \notin PrimaryRequests
<1>1. q \in RegionRequests /\ requests[q] \in RequestRow
  BY TypeParts DEF RegionTypes, Table
<1>2. requests[q].maximum \in Maxima /\ requests[q].state \in RequestState
  BY <1>1 DEF RequestRow
<1>3. q \notin PrimaryRequests /\ q \notin DOMAIN holds
  BY <1>1, LedgerAssumption, TypeParts DEF AuthorityTypes, Table
<1>4. requests[q].lease \in DOMAIN localLeases
  BY DEF Inv, RequestsSound
<1> QED
  BY <1>1, <1>2, <1>3, <1>4, Positive

LEMMA EventFacts ==
  ASSUME Inv, NEW q \in DOMAIN outbox
  PROVE  /\ outbox[q] \in EventRow /\ outbox[q].charge \in Nat
         /\ q \in DOMAIN requests /\ requests[q].state = "completed"
<1>1. outbox[q] \in EventRow
  BY TypeParts DEF RegionTypes, Table
<1>2. outbox[q].charge \in Nat
  BY <1>1 DEF EventRow
<1>3. q \in DOMAIN requests /\ requests[q].state = "completed"
  BY DEF Inv, RequestsSound
<1> QED
  BY <1>1, <1>2, <1>3

LEMMA SumFacts ==
  ASSUME Inv, NEW l
  PROVE  /\ IsFiniteSet(RowsOf(l)) /\ IsFiniteSet(LiveRows(l)) /\ IsFiniteSet(RowsOf(l) \cap DOMAIN outbox)
         /\ IsFiniteSet(SettledOf(l))
         /\ NatOn(LiveRows(l), Reserves) /\ NatOn(RowsOf(l) \cap DOMAIN outbox, Charges)
         /\ NatOn(SettledOf(l), settled)
<1>1. RowsOf(l) \subseteq RegionRequests /\ SettledOf(l) \subseteq RegionRequests
  BY TypeParts DEF RowsOf, SettledOf, RegionTypes, AuthorityTypes, Table
<1>2. IsFiniteSet(RegionRequests)
  BY LedgerAssumption
<1>3. IsFiniteSet(RowsOf(l)) /\ IsFiniteSet(SettledOf(l))
  BY <1>1, <1>2, FS_Subset
<1>4. IsFiniteSet(LiveRows(l)) /\ IsFiniteSet(RowsOf(l) \cap DOMAIN outbox)
  <2>1. LiveRows(l) \subseteq RowsOf(l) /\ RowsOf(l) \cap DOMAIN outbox \subseteq RowsOf(l)
    BY DEF LiveRows
  <2> QED
    BY <1>3, <2>1, FS_Subset
<1>5. NatOn(LiveRows(l), Reserves)
  BY RequestFacts DEF NatOn, LiveRows, RowsOf, Reserves
<1>6. NatOn(RowsOf(l) \cap DOMAIN outbox, Charges)
  BY EventFacts DEF NatOn, Charges
<1>7. NatOn(SettledOf(l), settled)
  BY TypeParts DEF NatOn, SettledOf, AuthorityTypes, Table
<1> QED
  BY <1>3, <1>4, <1>5, <1>6, <1>7

-----------------------------------------------------------------------------
(* The authority settles and closes. *)

LEMMA SettleStep ==
  ASSUME Inv, NEW q \in DOMAIN outbox, Settle(q)
  PROVE  Inv'
<1>0. PICK l, c : l = requests[q].lease /\ c = outbox[q].charge
  OBVIOUS
<1>1. /\ q \notin DOMAIN settled /\ l \in DOMAIN leases
      /\ c <= leases[l].l.granted - leases[l].spent
      /\ quotaUsed' = quotaUsed + c
      /\ allocations' = [allocations EXCEPT ![l].spent = @ + c]
      /\ leases' = [leases EXCEPT ![l].spent = @ + c]
      /\ settled' = Put(settled, q, c)
      /\ UNCHANGED <<balance, active, kind, quota, holds, primaryNow, regionVars, processVars, issues, closes, calls>>
  BY <1>0 DEF Settle, Unsettled, Settleable
<1>2. confirmed' = confirmed \cup {q} \/ confirmed' = confirmed
  BY DEF Settle, Confirm
<1>3. /\ c \in Nat /\ q \in RegionRequests /\ q \in DOMAIN requests /\ l \in Leases /\ l \notin DOMAIN holds
      /\ leases[l] \in LeaseRow /\ allocations[l] \in AllocationRow /\ l \in DOMAIN allocations
      /\ leases[l].spent \in Nat /\ allocations[l].spent \in Nat /\ leases[l].l.granted \in Nat
      /\ leases[l].spent + c \in Nat /\ leases[l].spent + c <= leases[l].l.granted
      /\ allocations[l].spent = leases[l].spent
  BY <1>0, <1>1, EventFacts, RequestFacts, LeaseFacts
<1>4. /\ DOMAIN leases' = DOMAIN leases /\ \A k \in DOMAIN leases \ {l} : leases'[k] = leases[k]
      /\ leases'[l] \in LeaseRow /\ leases'[l].l = leases[l].l /\ leases'[l].state = leases[l].state
      /\ leases'[l].spent = leases[l].spent + c
  BY <1>1, <1>3 DEF LeaseRow
<1>5. /\ DOMAIN allocations' = DOMAIN allocations /\ \A k \in DOMAIN allocations \ {l} : allocations'[k] = allocations[k]
      /\ allocations'[l] \in AllocationRow /\ allocations'[l].maximum = allocations[l].maximum
      /\ allocations'[l].state = allocations[l].state /\ allocations'[l].spent = allocations[l].spent + c
  BY <1>1, <1>3 DEF AllocationRow
<1>6. /\ DOMAIN settled' = DOMAIN settled \cup {q} /\ settled'[q] = c
      /\ \A p \in DOMAIN settled : settled'[p] = settled[p]
  BY <1>1 DEF Put
<1>7. AuthorityTypes'
  <2>1. /\ Table(allocations', Leases \cup PrimaryRequests, AllocationRow)
        /\ Table(leases', Leases, LeaseRow)
    BY <1>4, <1>5, TypeParts DEF AuthorityTypes, Table
  <2>2. Table(settled', RegionRequests, Nat)
    BY <1>3, <1>6, TypeParts DEF AuthorityTypes, Table
  <2> QED
    BY <1>1, <1>3, <2>1, <2>2, TypeParts DEF AuthorityTypes, Table
<1>8. BrokerTypes'
  BY <1>1, <1>2, <1>3, TypeParts DEF BrokerTypes, Table
<1>9. RegionTypes' /\ ProcessTypes'
  BY <1>1, TypesKept
<1>10. UNCHANGED <<localLeases, requests, outbox, dispatched>>
  BY <1>1 DEF regionVars, processVars
<1>11. LeasesSound'
  BY <1>1, <1>3, <1>4, <1>5 DEF Inv, LeasesSound
<1>12. HoldsSound'
  BY <1>1, <1>3, <1>4, <1>5 DEF Inv, HoldsSound, Live
<1>13. IssuesSound'
  BY <1>1, <1>4, <1>10, TypeParts, AuthorityKept DEF AuthorityTypes
<1>14. EventsSound'
  BY <1>0, <1>2, <1>6, <1>10 DEF Inv, EventsSound
<1>15. ClosesSound'
  <2>1. q \notin Leases
    BY <1>3, LedgerAssumption DEF Requests
  <2>2. \A k \in DOMAIN leases : leases'[k].state = leases[k].state
    BY <1>4
  <2>3. \A k \in DOMAIN closes : k \in DOMAIN leases
    BY DEF Inv, ClosesSound, LocalSound
  <2>4. \A k \in confirmed' \cap Leases : k \in confirmed
    BY <1>2, <2>1
  <2> QED
    BY <1>1, <1>4, <1>10, <2>2, <2>3, <2>4 DEF Inv, ClosesSound
<1>16. AuthoritySums'
  <2>1. /\ SettledOf(l)' = SettledOf(l) \cup {q} /\ q \notin SettledOf(l)
        /\ \A k : k # l => SettledOf(k)' = SettledOf(k)
    BY <1>0, <1>1, <1>6, <1>10 DEF SettledOf
  <2>2. \A k : \A p \in SettledOf(k) : settled'[p] = settled[p]
    BY <1>6 DEF SettledOf
  <2>3. Total(SettledOf(l) \cup {q}, settled') = Total(SettledOf(l), settled) + settled'[q]
    <3>1. /\ IsFiniteSet(SettledOf(l)) /\ NatOn(SettledOf(l), settled) /\ q \notin SettledOf(l)
          /\ settled'[q] \in Nat /\ \A p \in SettledOf(l) : settled'[p] = settled[p]
      BY <1>3, <1>6, <2>1, <2>2, SumFacts
    <3> QED
      BY <3>1, TotalAdd
  <2>4. ASSUME NEW k, k # l PROVE Total(SettledOf(k)', settled') = Total(SettledOf(k), settled)
    BY <2>1, <2>2, <2>4, TotalSame
  <2>5. leases[l].spent = Total(SettledOf(l), settled)
    BY <1>1 DEF Inv, AuthoritySums
  <2>6. leases'[l].spent = Total(SettledOf(l)', settled')
    BY <1>4, <1>6, <2>1, <2>3, <2>5
  <2>7. ASSUME NEW k \in DOMAIN leases, k # l PROVE leases'[k].spent = Total(SettledOf(k)', settled')
    BY <1>4, <2>4, <2>7 DEF Inv, AuthoritySums
  <2> QED
    BY <1>4, <2>6, <2>7 DEF AuthoritySums
<1>17. LeasesStay /\ LocalsStay
  BY <1>4, <1>10 DEF LeasesStay, LocalsStay
<1>18. OneAwaited'
  BY <1>1, <1>10, AuthorityKept
<1>19. LocalSound' /\ RequestsSound' /\ RegionSums'
  BY <1>10, <1>17, RegionKept
<1> QED
  BY <1>7, <1>8, <1>9, <1>11, <1>12, <1>13, <1>14, <1>15, <1>16, <1>18, <1>19, TypeNext DEF Inv

\* What is left of a lease goes back to the balance.
LEMMA RefundFacts ==
  ASSUME Inv, NEW l \in DOMAIN leases
  PROVE  Refund(l) \in Nat
<1>1. leases[l].l.granted - leases[l].spent \in Nat
  BY LeaseFacts
<1> QED
  BY <1>1 DEF Refund

LEMMA CloseStep ==
  ASSUME Inv, NEW l \in DOMAIN closes, Close(l)
  PROVE  Inv'
<1>1. /\ l \in DOMAIN leases /\ balance' = balance + Refund(l)
      /\ allocations' = [allocations EXCEPT ![l].state = "closed"]
      /\ leases' = [leases EXCEPT ![l].state = "closed"]
      /\ UNCHANGED <<active, kind, quota, quotaUsed, settled, holds, primaryNow, regionVars, processVars, issues,
                     closes, calls>>
  BY DEF Close, ReceiptAgrees
<1>2. confirmed' = confirmed \cup {l} \/ confirmed' = confirmed
  BY DEF Close, Confirm
<1>3. /\ l \in Leases /\ l \notin DOMAIN holds /\ l \in DOMAIN allocations
      /\ leases[l] \in LeaseRow /\ allocations[l] \in AllocationRow
  BY <1>1, LeaseFacts
<1>4. /\ DOMAIN leases' = DOMAIN leases /\ \A k \in DOMAIN leases \ {l} : leases'[k] = leases[k]
      /\ leases'[l] \in LeaseRow /\ leases'[l].l = leases[l].l /\ leases'[l].state = "closed"
      /\ leases'[l].spent = leases[l].spent
  BY <1>1, <1>3 DEF LeaseRow
<1>5. /\ DOMAIN allocations' = DOMAIN allocations /\ \A k \in DOMAIN allocations \ {l} : allocations'[k] = allocations[k]
      /\ allocations'[l] \in AllocationRow /\ allocations'[l].maximum = allocations[l].maximum
      /\ allocations'[l].state = "closed" /\ allocations'[l].spent = allocations[l].spent
  BY <1>1, <1>3 DEF AllocationRow
<1>6. AuthorityTypes'
  <2>1. balance' \in Nat
    <3>1. balance \in Nat /\ Refund(l) \in Nat
      BY <1>1, RefundFacts, TypeParts DEF AuthorityTypes
    <3> QED
      BY <1>1, <3>1
  <2>2. /\ Table(allocations', Leases \cup PrimaryRequests, AllocationRow)
        /\ Table(leases', Leases, LeaseRow)
    BY <1>4, <1>5, TypeParts DEF AuthorityTypes, Table
  <2> QED
    BY <1>1, <2>1, <2>2, TypeParts DEF AuthorityTypes, Table
<1>7. BrokerTypes'
  BY <1>1, <1>2, <1>3, TypeParts DEF BrokerTypes, Table
<1>8. RegionTypes' /\ ProcessTypes'
  BY <1>1, TypesKept
<1>9. UNCHANGED <<localLeases, requests, outbox, dispatched>>
  BY <1>1 DEF regionVars, processVars
<1>10. LeasesSound'
  BY <1>1, <1>3, <1>4, <1>5 DEF Inv, LeasesSound
<1>11. HoldsSound'
  BY <1>1, <1>3, <1>4, <1>5 DEF Inv, HoldsSound, Live
<1>12. IssuesSound'
  BY <1>1, <1>4, <1>9, TypeParts, AuthorityKept DEF AuthorityTypes
<1>13. EventsSound'
  <2>1. l \notin RegionRequests
    BY <1>3, LedgerAssumption DEF Requests
  <2> QED
    BY <1>1, <1>2, <1>9, <2>1 DEF Inv, EventsSound
<1>14. ClosesSound'
  <2>1. \A k \in DOMAIN leases : leases[k].state = "closed" => leases'[k].state = "closed"
    BY <1>4
  <2>2. \A k \in DOMAIN closes : k \in DOMAIN leases
    BY DEF Inv, ClosesSound, LocalSound
  <2> QED
    BY <1>1, <1>2, <1>4, <1>9, <2>1, <2>2 DEF Inv, ClosesSound
<1>15. LeasesStay /\ LocalsStay /\ RequestsStay /\ \A k \in DOMAIN leases : leases'[k].spent = leases[k].spent
  BY <1>4, <1>9 DEF LeasesStay, LocalsStay, RequestsStay
<1>16. OneAwaited'
  BY <1>1, <1>9, AuthorityKept
<1>17. LocalSound' /\ RequestsSound' /\ AuthoritySums' /\ RegionSums'
  BY <1>1, <1>4, <1>9, <1>15, RegionKept
<1> QED
  BY <1>6, <1>7, <1>8, <1>10, <1>11, <1>12, <1>13, <1>14, <1>16, <1>17, TypeNext DEF Inv

LEMMA AcknowledgeStep ==
  ASSUME Inv, NEW q \in DOMAIN outbox, Acknowledge(q)
  PROVE  Inv'
<1>1. /\ q \in confirmed /\ outbox' = [outbox EXCEPT ![q].acknowledged = TRUE] /\ confirmed' = confirmed \ {q}
      /\ UNCHANGED <<localLeases, requests, regionNow, issues, closes, calls, authorityVars, processVars>>
  BY DEF Acknowledge
<1>2. outbox[q] \in EventRow /\ q \in DOMAIN requests /\ q \in RegionRequests
  BY EventFacts, RequestFacts
<1>3. /\ DOMAIN outbox' = DOMAIN outbox /\ \A p \in DOMAIN outbox \ {q} : outbox'[p] = outbox[p]
      /\ outbox'[q] \in EventRow /\ outbox'[q].charge = outbox[q].charge /\ outbox'[q].acknowledged = TRUE
  BY <1>1, <1>2 DEF EventRow
<1>4. RegionTypes'
  BY <1>1, <1>3, TypeParts DEF RegionTypes, Table
<1>5. BrokerTypes'
  BY <1>1, TypeParts DEF BrokerTypes, Table
<1>6. AuthorityTypes' /\ ProcessTypes'
  BY <1>1, TypesKept
<1>7. UNCHANGED <<leases, allocations, settled, holds, primaryNow, dispatched>>
  BY <1>1 DEF authorityVars, processVars
<1>8. EventsSound'
  <2>1. q \in DOMAIN settled
    BY <1>1, <1>2 DEF Inv, EventsSound
  <2> QED
    BY <1>1, <1>3, <1>7, <2>1 DEF Inv, EventsSound
<1>9. ClosesSound'
  BY <1>1, <1>7 DEF Inv, ClosesSound
<1>10. LocalSound'
  <2>1. ASSUME NEW k, Resolved(k) PROVE Resolved(k)'
    BY <1>1, <1>3, <2>1 DEF Resolved, RowsOf
  <2> QED
    BY <1>1, <1>7, <2>1 DEF Inv, LocalSound
<1>11. RequestsSound'
  BY <1>1, <1>3, <1>7 DEF Inv, RequestsSound
<1>12. RegionSums'
  <2>1. Charges' = Charges /\ Reserves' = Reserves
    BY <1>1, <1>3 DEF Charges, Reserves
  <2>2. ASSUME NEW k PROVE RowsOf(k)' = RowsOf(k) /\ LiveRows(k)' = LiveRows(k)
    BY <1>1 DEF RowsOf, LiveRows, Live
  <2> QED
    BY <1>1, <1>3, <2>1, <2>2 DEF Inv, RegionSums
<1>13. LeasesSound' /\ HoldsSound' /\ IssuesSound' /\ OneAwaited'
  BY <1>1, <1>7, TypeParts, AuthorityKept DEF AuthorityTypes
<1>14. AuthoritySums'
  BY <1>1, <1>7, RegionKept DEF RequestsStay
<1> QED
  BY <1>4, <1>5, <1>6, <1>8, <1>9, <1>10, <1>11, <1>12, <1>13, <1>14, TypeNext DEF Inv

-----------------------------------------------------------------------------
(* Requests of the primary site. *)

LEMMA HoldFacts ==
  ASSUME Inv, NEW q \in DOMAIN holds
  PROVE  /\ q \in PrimaryRequests /\ q \in Requests /\ holds[q] \in HoldRow
         /\ holds[q].maximum \in Nat /\ holds[q].maximum > 0 /\ holds[q].state \in RequestState
         /\ holds[q].charge \in Nat /\ holds[q].funded \in BOOLEAN
         /\ q \in DOMAIN allocations /\ allocations[q] \in AllocationRow
         /\ allocations[q].maximum = holds[q].maximum /\ allocations[q].spent \in Nat
         /\ q \notin DOMAIN leases /\ q \notin RegionRequests /\ q \notin DOMAIN requests
<1>1. q \in PrimaryRequests /\ holds[q] \in HoldRow
  BY TypeParts DEF AuthorityTypes, Table
<1>2. /\ holds[q].maximum \in Maxima /\ holds[q].state \in RequestState /\ holds[q].charge \in Nat
      /\ holds[q].funded \in BOOLEAN
  BY <1>1 DEF HoldRow
<1>3. q \in Requests /\ q \notin RegionRequests /\ q \notin Leases
  BY <1>1, LedgerAssumption DEF Requests
<1>4. q \notin DOMAIN leases /\ q \notin DOMAIN requests
  BY <1>3, TypeParts DEF AuthorityTypes, RegionTypes, Table
<1>5. q \in DOMAIN allocations /\ allocations[q].maximum = holds[q].maximum
  BY DEF Inv, HoldsSound
<1>6. allocations[q] \in AllocationRow
  BY <1>5, TypeParts DEF AuthorityTypes, Table
<1>7. allocations[q].spent \in Nat
  BY <1>6 DEF AllocationRow
<1>8. holds[q].maximum \in Nat /\ holds[q].maximum > 0
  BY <1>2, Positive
<1> QED
  BY <1>1, <1>2, <1>3, <1>4, <1>5, <1>6, <1>7, <1>8

\* A step of the request q of the primary site leaves the leases and the regions alone.
LEMMA PrimaryMoves ==
  ASSUME Inv, NEW q \in PrimaryRequests,
         UNCHANGED <<leases, settled, primaryNow, regionVars, brokerVars>>,
         \A a \in DOMAIN allocations \ {q} : a \in DOMAIN allocations' /\ allocations'[a] = allocations[a],
         dispatched' \subseteq dispatched \cup {q}, dispatched \subseteq dispatched',
         AuthorityTypes', ProcessTypes', HoldsSound'
  PROVE  Inv'
<1>1. q \notin RegionRequests /\ q \notin Leases
  BY LedgerAssumption DEF Requests
<1>2. q \notin DOMAIN leases /\ q \notin DOMAIN requests
  BY <1>1, TypeParts DEF AuthorityTypes, RegionTypes, Table
<1>3. RegionTypes' /\ BrokerTypes'
  BY TypesKept
<1>4. /\ UNCHANGED <<localLeases, requests, outbox>>
      /\ UNCHANGED <<issues, closes, calls, confirmed>>
  BY DEF regionVars, brokerVars
<1>5. LeasesSound'
  BY <1>2, <1>4 DEF Inv, LeasesSound
<1>6. RequestsSound'
  BY <1>1, <1>2, <1>4 DEF Inv, RequestsSound
<1>7. LeasesStay /\ LocalsStay /\ RequestsStay
  BY <1>4 DEF LeasesStay, LocalsStay, RequestsStay
<1>8. IssuesSound' /\ EventsSound' /\ ClosesSound' /\ OneAwaited'
  BY <1>4, TypeParts, AuthorityKept DEF AuthorityTypes
<1>9. LocalSound' /\ AuthoritySums' /\ RegionSums'
  BY <1>4, <1>7, RegionKept
<1> QED
  BY <1>3, <1>5, <1>6, <1>8, <1>9, TypeNext DEF Inv

LEMMA PrimaryReserveStep ==
  ASSUME Inv, NEW q \in PrimaryRequests, NEW m \in Maxima, PrimaryReserve(q, m)
  PROVE  Inv'
<1> DEFINE arow == NewAllocation(m)
           hrow == [maximum |-> m, state |-> "reserved", funded |-> Funded, charge |-> 0]
<1>1. /\ q \notin DOMAIN holds /\ allocations' = Put(allocations, q, arow) /\ holds' = Put(holds, q, hrow)
      /\ attempts' = Put(attempts, q, "admitted")
      /\ UNCHANGED <<active, kind, quota, quotaUsed, leases, settled, primaryNow, canceling, dispatched,
                     regionVars, brokerVars>>
  BY DEF PrimaryReserve
<1>2. m \in Nat /\ q \in Requests
  BY Positive DEF Requests
<1>3. balance' \in Nat
  <2>1. balance \in Nat
    BY TypeParts DEF AuthorityTypes
  <2>2. balance' = balance \/ (m <= balance /\ balance' = balance - m)
    BY DEF PrimaryReserve, Affordable
  <2> QED
    BY <1>2, <2>1, <2>2
<1>4. arow \in AllocationRow /\ arow.maximum = m /\ arow.spent = 0 /\ arow.state = "held"
  BY <1>2 DEF NewAllocation, AllocationRow
<1>5. hrow \in HoldRow /\ hrow.maximum = m /\ Live(hrow)
  <2>1. Funded \in BOOLEAN
    BY DEF Funded
  <2> QED
    BY <2>1 DEF HoldRow, RequestState, Live
<1> HIDE DEF arow, hrow
<1>6. q \notin DOMAIN leases
  BY LedgerAssumption, TypeParts DEF AuthorityTypes, Table, Requests
<1>7. q \notin DOMAIN allocations
  BY <1>1, <1>6 DEF Inv, HoldsSound
<1>8. /\ DOMAIN allocations' = DOMAIN allocations \cup {q} /\ allocations'[q] = arow
      /\ \A a \in DOMAIN allocations : allocations'[a] = allocations[a] /\ a # q
  BY <1>1, <1>7 DEF Put
<1>9. /\ DOMAIN holds' = DOMAIN holds \cup {q} /\ holds'[q] = hrow
      /\ \A p \in DOMAIN holds : holds'[p] = holds[p] /\ p # q
  BY <1>1 DEF Put
<1>10. AuthorityTypes'
  <2>1. Table(allocations', Leases \cup PrimaryRequests, AllocationRow) /\ Table(holds', PrimaryRequests, HoldRow)
    BY <1>1, <1>4, <1>5, PutTable, TypeParts DEF AuthorityTypes
  <2> QED
    BY <1>1, <1>3, <2>1, TypeParts DEF AuthorityTypes, Table
<1>11. ProcessTypes'
  <2>1. Table(attempts', Requests, {"admitted", "sending", "ended"})
    BY <1>1, <1>2, PutTable, TypeParts DEF ProcessTypes
  <2> QED
    BY <1>1, <2>1, TypeParts DEF ProcessTypes
<1>12. HoldsSound'
  <2>1. DOMAIN allocations' = DOMAIN leases' \cup DOMAIN holds'
    BY <1>1, <1>8, <1>9 DEF Inv, HoldsSound
  <2>2. ASSUME NEW p \in DOMAIN holds'
        PROVE  /\ allocations'[p].maximum = holds'[p].maximum
               /\ allocations'[p].state = "held" <=> Live(holds'[p])
               /\ Live(holds'[p]) => allocations'[p].spent = 0
    <3>1. CASE p = q
      BY <1>4, <1>5, <1>8, <1>9, <3>1
    <3>2. CASE p # q
      <4>1. p \in DOMAIN holds /\ p \in DOMAIN allocations
        BY <1>9, <3>2, HoldFacts
      <4> QED
        BY <1>8, <1>9, <4>1 DEF Inv, HoldsSound
    <3> QED
      BY <3>1, <3>2
  <2> QED
    BY <2>1, <2>2 DEF HoldsSound, Live
<1> QED
  BY <1>1, <1>8, <1>10, <1>11, <1>12, PrimaryMoves

\* A row of the primary site moves on.
LEMMA HoldMoves ==
  ASSUME Inv, NEW q \in DOMAIN holds, NEW hrow \in HoldRow, NEW arow \in AllocationRow,
         DOMAIN holds' = DOMAIN holds, \A p \in DOMAIN holds \ {q} : holds'[p] = holds[p], holds'[q] = hrow,
         DOMAIN allocations' = DOMAIN allocations,
         \A a \in DOMAIN allocations \ {q} : allocations'[a] = allocations[a], allocations'[q] = arow,
         arow.maximum = hrow.maximum, arow.state = "held" <=> Live(hrow), Live(hrow) => arow.spent = 0,
         balance' \in Nat, quotaUsed' \in Nat, ProcessTypes',
         dispatched' \subseteq dispatched \cup {q}, dispatched \subseteq dispatched',
         UNCHANGED <<active, kind, quota, leases, settled, primaryNow, regionVars, brokerVars>>
  PROVE  Inv'
<1>1. AuthorityTypes'
  <2>1. Table(allocations', Leases \cup PrimaryRequests, AllocationRow) /\ Table(holds', PrimaryRequests, HoldRow)
    BY TypeParts DEF AuthorityTypes, Table
  <2> QED
    BY <2>1, TypeParts DEF AuthorityTypes, Table
<1>2. HoldsSound'
  <2>1. ASSUME NEW p \in DOMAIN holds
        PROVE  /\ allocations'[p].maximum = holds'[p].maximum
               /\ allocations'[p].state = "held" <=> Live(holds'[p])
               /\ Live(holds'[p]) => allocations'[p].spent = 0
    <3>1. CASE p = q
      BY <3>1
    <3>2. CASE p # q
      <4>1. p \in DOMAIN allocations
        BY HoldFacts
      <4> QED
        BY <3>2, <4>1 DEF Inv, HoldsSound
    <3> QED
      BY <3>1, <3>2
  <2>2. DOMAIN allocations' = DOMAIN leases' \cup DOMAIN holds'
    BY DEF Inv, HoldsSound
  <2> QED
    BY <2>1, <2>2 DEF HoldsSound, Live
<1>3. q \in PrimaryRequests
  BY HoldFacts
<1> QED
  BY <1>1, <1>2, <1>3, PrimaryMoves

LEMMA PrimaryStartStep ==
  ASSUME Inv, NEW q \in DOMAIN holds, PrimaryStart(q)
  PROVE  Inv'
<1> DEFINE hrow == [holds[q] EXCEPT !.state = "started"]
<1>1. /\ holds[q].state = "reserved" /\ holds' = [holds EXCEPT ![q] = hrow] /\ dispatched' = dispatched \cup {q}
      /\ UNCHANGED <<balance, active, kind, quota, quotaUsed, allocations, leases,
                 settled, primaryNow, attempts, canceling, regionVars, brokerVars>>
  BY DEF PrimaryStart
<1>2. hrow \in HoldRow /\ hrow.maximum = holds[q].maximum /\ hrow.state = "started"
  BY HoldFacts DEF HoldRow, RequestState
<1>3. Live(hrow) /\ Live(holds[q])
  BY <1>1, <1>2 DEF Live
<1> HIDE DEF hrow
<1>4. ProcessTypes'
  BY <1>1, HoldFacts, TypeParts DEF ProcessTypes, Table
<1>5. balance' \in Nat /\ quotaUsed' \in Nat
  BY <1>1, TypeParts DEF AuthorityTypes
<1>6. /\ allocations[q] \in AllocationRow /\ allocations[q].maximum = hrow.maximum
      /\ allocations[q].state = "held" /\ allocations[q].spent = 0
  BY <1>2, <1>3, HoldFacts DEF Inv, HoldsSound
<1> QED
  BY <1>1, <1>2, <1>3, <1>4, <1>5, <1>6, HoldMoves

\* What a request of the primary site gives back.
LEMMA ReturnedFacts ==
  ASSUME Inv, NEW q \in DOMAIN holds, NEW n \in Nat
  PROVE  Returned(q, n) \in Nat
BY DEF Returned

LEMMA PrimaryCancelStep ==
  ASSUME Inv, NEW q \in DOMAIN holds, PrimaryCancel(q)
  PROVE  Inv'
<1> DEFINE hrow == [holds[q] EXCEPT !.state = "canceled"]
           arow == [allocations[q] EXCEPT !.state = "closed"]
<1>1. /\ holds' = [holds EXCEPT ![q] = hrow] /\ allocations' = [allocations EXCEPT ![q] = arow]
      /\ balance' = balance + Returned(q, holds[q].maximum) /\ canceling' = canceling \ {q}
      /\ UNCHANGED <<active, kind, quota, quotaUsed, leases, settled, primaryNow,
                 attempts, dispatched, regionVars, brokerVars>>
  BY DEF PrimaryCancel
<1>2. hrow \in HoldRow /\ hrow.maximum = holds[q].maximum /\ hrow.state = "canceled"
  BY HoldFacts DEF HoldRow, RequestState
<1>3. arow \in AllocationRow /\ arow.maximum = allocations[q].maximum /\ arow.state = "closed"
  BY HoldFacts DEF AllocationRow
<1>4. ~ Live(hrow)
  BY <1>2 DEF Live
<1> HIDE DEF hrow, arow
<1>5. ProcessTypes'
  BY <1>1, TypeParts DEF ProcessTypes, Table
<1>6. balance' \in Nat /\ quotaUsed' \in Nat
  <2>1. balance \in Nat /\ quotaUsed \in Nat /\ Returned(q, holds[q].maximum) \in Nat
    BY HoldFacts, ReturnedFacts, TypeParts DEF AuthorityTypes
  <2> QED
    BY <1>1, <2>1
<1>7. arow.maximum = hrow.maximum /\ q \in DOMAIN allocations
  BY <1>2, <1>3, HoldFacts
<1> QED
  BY <1>1, <1>2, <1>3, <1>4, <1>5, <1>6, <1>7, HoldMoves

LEMMA PrimaryCompleteStep ==
  ASSUME Inv, NEW q \in DOMAIN holds, NEW c \in 0 .. (holds[q].maximum + 1), PrimaryComplete(q, c)
  PROVE  Inv'
<1> DEFINE hrow == [holds[q] EXCEPT !.state = "completed", !.charge = c]
           arow == [allocations[q] EXCEPT !.spent = c, !.state = "closed"]
<1>1. /\ c <= holds[q].maximum /\ quotaUsed' = quotaUsed + c
      /\ holds' = [holds EXCEPT ![q] = hrow] /\ allocations' = [allocations EXCEPT ![q] = arow]
      /\ balance' = balance + Returned(q, holds[q].maximum - c) /\ attempts' = [attempts EXCEPT ![q] = "ended"]
      /\ UNCHANGED <<active, kind, quota, leases, settled, primaryNow, canceling, dispatched, regionVars, brokerVars>>
  BY DEF PrimaryComplete
<1>2. c \in Nat /\ holds[q].maximum - c \in Nat
  BY <1>1, HoldFacts
<1>3. hrow \in HoldRow /\ hrow.maximum = holds[q].maximum /\ hrow.state = "completed"
  BY <1>2, HoldFacts DEF HoldRow, RequestState
<1>4. arow \in AllocationRow /\ arow.maximum = allocations[q].maximum /\ arow.state = "closed"
  BY <1>2, HoldFacts DEF AllocationRow
<1>5. ~ Live(hrow)
  BY <1>3 DEF Live
<1> HIDE DEF hrow, arow
<1>6. ProcessTypes'
  BY <1>1, TypeParts DEF ProcessTypes, Table
<1>7. balance' \in Nat /\ quotaUsed' \in Nat
  <2>1. balance \in Nat /\ quotaUsed \in Nat /\ Returned(q, holds[q].maximum - c) \in Nat
    BY <1>2, ReturnedFacts, TypeParts DEF AuthorityTypes
  <2> QED
    BY <1>1, <1>2, <2>1
<1>8. arow.maximum = hrow.maximum /\ q \in DOMAIN allocations
  BY <1>3, <1>4, HoldFacts
<1> QED
  BY <1>1, <1>3, <1>4, <1>5, <1>6, <1>7, <1>8, HoldMoves

-----------------------------------------------------------------------------
(* Requests of a region. *)

\* A step of the request q on the lease l, which is not closed.
RequestMoves(q, l) ==
  /\ UNCHANGED <<regionNow, authorityVars, brokerVars>>
  /\ localLeases[l].state # "closed" /\ q \notin DOMAIN outbox
  /\ q \in DOMAIN requests => requests[q].lease = l
  /\ DOMAIN requests' = DOMAIN requests \cup {q} /\ requests'[q] \in RequestRow /\ requests'[q].lease = l
  /\ \A p \in DOMAIN requests \ {q} : requests'[p] = requests[p]
  /\ DOMAIN outbox \subseteq DOMAIN outbox' /\ DOMAIN outbox' \subseteq DOMAIN outbox \cup {q}
  /\ \A p \in DOMAIN outbox : outbox'[p] = outbox[p]
  /\ q \in DOMAIN outbox' => outbox'[q] \in EventRow /\ ~ outbox'[q].acknowledged
  /\ DOMAIN localLeases' = DOMAIN localLeases
  /\ \A k \in DOMAIN localLeases \ {l} : localLeases'[k] = localLeases[k]
  /\ localLeases'[l].l = localLeases[l].l /\ localLeases'[l].state = localLeases[l].state

\* the sums of l agree with its rows after the step
SumsNext(l) ==
  /\ localLeases'[l].spent = Total(RowsOf(l)' \cap DOMAIN outbox', Charges')
  /\ localLeases'[l].reserved = Total(LiveRows(l)', Reserves')
  /\ localLeases'[l].spent + localLeases'[l].reserved <= localLeases'[l].l.granted

LEMMA OtherSums ==
  ASSUME Inv, NEW q, NEW l \in DOMAIN localLeases, RequestMoves(q, l), SumsNext(l)
  PROVE  RegionSums'
<1>1. ASSUME NEW k \in DOMAIN localLeases, k # l
      PROVE  /\ RowsOf(k)' = RowsOf(k) /\ LiveRows(k)' = LiveRows(k)
             /\ RowsOf(k)' \cap DOMAIN outbox' = RowsOf(k) \cap DOMAIN outbox
             /\ \A p \in RowsOf(k) : p \in DOMAIN requests /\ p # q
  <2>1. RowsOf(k)' = RowsOf(k) /\ \A p \in RowsOf(k) : p \in DOMAIN requests /\ p # q
    BY <1>1 DEF RequestMoves, RowsOf
  <2>2. \A p \in RowsOf(k) : requests'[p] = requests[p]
    BY <2>1 DEF RequestMoves
  <2>3. LiveRows(k)' = LiveRows(k)
    BY <2>1, <2>2 DEF LiveRows, Live
  <2>4. RowsOf(k)' \cap DOMAIN outbox' = RowsOf(k) \cap DOMAIN outbox
    BY <2>1 DEF RequestMoves
  <2> QED
    BY <2>1, <2>3, <2>4
<1>2. ASSUME NEW k \in DOMAIN localLeases, k # l
      PROVE  /\ Total(LiveRows(k)', Reserves') = Total(LiveRows(k), Reserves)
             /\ Total(RowsOf(k)' \cap DOMAIN outbox', Charges') = Total(RowsOf(k) \cap DOMAIN outbox, Charges)
  <2>1. \A p \in LiveRows(k) : Reserves'[p] = Reserves[p]
    BY <1>1, <1>2 DEF Reserves, RequestMoves, LiveRows
  <2>2. \A p \in RowsOf(k) \cap DOMAIN outbox : Charges'[p] = Charges[p]
    BY DEF Charges, RequestMoves
  <2>3. Total(LiveRows(k), Reserves') = Total(LiveRows(k), Reserves)
    BY <2>1, TotalSame
  <2>4. Total(RowsOf(k) \cap DOMAIN outbox, Charges') = Total(RowsOf(k) \cap DOMAIN outbox, Charges)
    BY <2>2, TotalSame
  <2> QED
    BY <1>1, <1>2, <2>3, <2>4
<1>3. ASSUME NEW k \in DOMAIN localLeases
      PROVE  SumsNext(k)
  <2>1. CASE k = l
    BY <2>1
  <2>2. CASE k # l
    <3>1. localLeases'[k] = localLeases[k]
      BY <2>2 DEF RequestMoves
    <3>2. /\ localLeases[k].spent = Total(RowsOf(k) \cap DOMAIN outbox, Charges)
          /\ localLeases[k].reserved = Total(LiveRows(k), Reserves)
          /\ localLeases[k].spent + localLeases[k].reserved <= localLeases[k].l.granted
      BY DEF Inv, RegionSums
    <3> QED
      BY <1>2, <2>2, <3>1, <3>2 DEF SumsNext
  <2> QED
    BY <2>1, <2>2
<1>4. DOMAIN localLeases' = DOMAIN localLeases
  BY DEF RequestMoves
<1> QED
  BY <1>3, <1>4 DEF RegionSums, SumsNext

LEMMA RegionMoves ==
  ASSUME Inv, NEW q \in RegionRequests, NEW l \in DOMAIN localLeases, RequestMoves(q, l), SumsNext(l),
         localLeases'[l] \in LocalRow, ProcessTypes', RequestsSound'
  PROVE  Inv'
<1>1. RegionTypes'
  <2>1. Table(localLeases', Leases, LocalRow)
    BY TypeParts DEF RegionTypes, RequestMoves, Table
  <2>2. Table(requests', RegionRequests, RequestRow)
    BY TypeParts DEF RegionTypes, RequestMoves, Table
  <2>3. Table(outbox', RegionRequests, EventRow)
    BY TypeParts DEF RegionTypes, RequestMoves, Table
  <2> QED
    BY <2>1, <2>2, <2>3, TypeParts DEF RegionTypes, RequestMoves
<1>2. AuthorityTypes' /\ BrokerTypes'
  BY TypesKept DEF RequestMoves
<1>3. /\ UNCHANGED <<leases, allocations, settled, holds, primaryNow>>
      /\ UNCHANGED <<issues, closes, calls, confirmed>>
  BY DEF RequestMoves, authorityVars, brokerVars
<1>4. LocalSound'
  <2>1. ASSUME NEW k \in DOMAIN localLeases, k # l, Resolved(k) PROVE Resolved(k)'
    <3>1. RowsOf(k)' = RowsOf(k) /\ \A p \in RowsOf(k) : p \in DOMAIN requests /\ p # q
      BY <2>1 DEF RequestMoves, RowsOf
    <3> QED
      BY <2>1, <3>1 DEF RequestMoves, Resolved
  <2> QED
    BY <1>3, <2>1 DEF Inv, LocalSound, RequestMoves
<1>5. EventsSound'
  BY <1>3 DEF Inv, EventsSound, RequestMoves
<1>6. ClosesSound'
  BY <1>3 DEF Inv, ClosesSound, RequestMoves
<1>7. RequestsStay
  BY DEF RequestsStay, RequestMoves
<1>8. LeasesSound' /\ HoldsSound' /\ IssuesSound' /\ OneAwaited'
  BY <1>3, TypeParts, AuthorityKept DEF AuthorityTypes, RequestMoves
<1>9. AuthoritySums'
  BY <1>3, <1>7, RegionKept
<1>10. RegionSums'
  BY OtherSums
<1> QED
  BY <1>1, <1>2, <1>4, <1>5, <1>6, <1>8, <1>9, <1>10, TypeNext DEF Inv

LEMMA ReserveStep ==
  ASSUME Inv, NEW q \in RegionRequests, NEW l \in Leases, NEW m \in Maxima, Reserve(q, l, m)
  PROVE  Inv'
<1> DEFINE row == [lease |-> l, maximum |-> m, state |-> "reserved"]
<1>1. /\ q \notin DOMAIN requests /\ l \in DOMAIN localLeases /\ localLeases[l].state = "open"
      /\ localLeases' = [localLeases EXCEPT ![l].reserved = @ + m]
      /\ requests' = Put(requests, q, row) /\ attempts' = Put(attempts, q, "admitted")
      /\ UNCHANGED <<outbox, regionNow, canceling, dispatched, authorityVars, brokerVars>>
  BY DEF Reserve, Spendable
<1>2. /\ m \in Nat /\ localLeases[l] \in LocalRow /\ localLeases[l].spent \in Nat
      /\ localLeases[l].reserved \in Nat /\ localLeases[l].l.granted \in Nat
      /\ localLeases[l].reserved + m \in Nat
      /\ localLeases[l].spent + (localLeases[l].reserved + m) <= localLeases[l].l.granted
  <2>1. m \in Nat
    BY Positive
  <2>2. localLeases[l].l.granted - localLeases[l].spent - localLeases[l].reserved >= m
    BY DEF Reserve, Covers
  <2> QED
    BY <1>1, <2>1, <2>2, LocalFacts
<1>3. row \in RequestRow /\ row.lease = l /\ row.maximum = m /\ row.state = "reserved"
  BY DEF RequestRow, RequestState
<1> HIDE DEF row
<1>4. /\ DOMAIN localLeases' = DOMAIN localLeases
      /\ \A k \in DOMAIN localLeases \ {l} : localLeases'[k] = localLeases[k]
      /\ localLeases'[l] \in LocalRow /\ localLeases'[l].l = localLeases[l].l
      /\ localLeases'[l].state = localLeases[l].state /\ localLeases'[l].spent = localLeases[l].spent
      /\ localLeases'[l].reserved = localLeases[l].reserved + m
  BY <1>1, <1>2 DEF LocalRow
<1>5. /\ DOMAIN requests' = DOMAIN requests \cup {q} /\ requests'[q] = row
      /\ \A p \in DOMAIN requests : requests'[p] = requests[p] /\ p # q
  BY <1>1 DEF Put
<1>6. q \notin DOMAIN outbox /\ q \notin dispatched
  BY <1>1 DEF Inv, RequestsSound
<1>7. RequestMoves(q, l)
  BY <1>1, <1>3, <1>4, <1>5, <1>6 DEF RequestMoves
<1>8. ProcessTypes'
  <2>1. Table(attempts', Requests, {"admitted", "sending", "ended"})
    BY <1>1, PutTable, TypeParts DEF ProcessTypes, Requests
  <2> QED
    BY <1>1, <2>1, TypeParts DEF ProcessTypes
<1>9. RequestsSound'
  BY <1>1, <1>3, <1>4, <1>5, <1>6 DEF Inv, RequestsSound
<1>10. SumsNext(l)
  <2>1. /\ LiveRows(l)' = LiveRows(l) \cup {q} /\ q \notin LiveRows(l)
        /\ RowsOf(l)' \cap DOMAIN outbox' = RowsOf(l) \cap DOMAIN outbox
    BY <1>1, <1>3, <1>5, <1>6 DEF LiveRows, RowsOf, Live
  <2>2. Charges' = Charges
    BY <1>1 DEF Charges
  <2>3. Reserves'[q] = m /\ \A p \in LiveRows(l) : Reserves'[p] = Reserves[p]
    BY <1>3, <1>5 DEF Reserves, LiveRows, RowsOf
  <2>4. IsFiniteSet(LiveRows(l)) /\ NatOn(LiveRows(l), Reserves) /\ Reserves'[q] \in Nat
    BY <1>2, <2>3, SumFacts
  <2>5. Total(LiveRows(l) \cup {q}, Reserves') = Total(LiveRows(l), Reserves) + Reserves'[q]
    BY <2>1, <2>3, <2>4, TotalAdd
  <2>6. /\ localLeases[l].spent = Total(RowsOf(l) \cap DOMAIN outbox, Charges)
        /\ localLeases[l].reserved = Total(LiveRows(l), Reserves)
    BY <1>1 DEF Inv, RegionSums
  <2>7. Total(LiveRows(l) \cup {q}, Reserves') = localLeases[l].reserved + m
    BY <2>3, <2>5, <2>6
  <2> QED
    BY <1>2, <1>4, <2>1, <2>2, <2>6, <2>7 DEF SumsNext
<1> QED
  BY <1>1, <1>4, <1>7, <1>8, <1>9, <1>10, RegionMoves

\* A request that is not finished keeps its lease from being closed.
LEMMA UnfinishedFacts ==
  ASSUME Inv, NEW q \in DOMAIN requests, requests[q].state \in {"reserved", "started"}
  PROVE  /\ requests[q].lease \in DOMAIN localLeases /\ localLeases[requests[q].lease].state # "closed"
         /\ q \notin DOMAIN outbox /\ q \in LiveRows(requests[q].lease)
         /\ localLeases[requests[q].lease].reserved - requests[q].maximum \in Nat
         /\ Total(LiveRows(requests[q].lease), Reserves) = localLeases[requests[q].lease].reserved
<1>1. PICK l : l = requests[q].lease
  OBVIOUS
<1>2. l \in DOMAIN localLeases /\ q \notin DOMAIN outbox
  BY <1>1 DEF Inv, RequestsSound
<1>3. q \in LiveRows(l) /\ q \in RowsOf(l)
  BY <1>1 DEF LiveRows, RowsOf, Live
<1>4. localLeases[l].state # "closed"
  BY <1>2, <1>3 DEF Inv, LocalSound, Resolved
<1>5. localLeases[l].reserved = Total(LiveRows(l), Reserves)
  BY <1>2 DEF Inv, RegionSums
<1>6. Total(LiveRows(l) \ {q}, Reserves) = Total(LiveRows(l), Reserves) - Reserves[q]
  BY <1>3, SumFacts, TotalRemove
<1>7. Total(LiveRows(l) \ {q}, Reserves) \in Nat
  <2>1. IsFiniteSet(LiveRows(l) \ {q}) /\ NatOn(LiveRows(l) \ {q}, Reserves)
    BY SumFacts, FS_RemoveElement DEF NatOn
  <2> QED
    BY <2>1, TotalType
<1>8. Reserves[q] = requests[q].maximum
  BY DEF Reserves
<1> QED
  BY <1>1, <1>2, <1>3, <1>4, <1>5, <1>6, <1>7, <1>8

LEMMA StartStep ==
  ASSUME Inv, NEW q \in DOMAIN requests, Start(q)
  PROVE  Inv'
<1> DEFINE row == [requests[q] EXCEPT !.state = "started"]
<1>0. PICK l : l = requests[q].lease
  OBVIOUS
<1>1. /\ requests[q].state = "reserved" /\ requests' = [requests EXCEPT ![q] = row]
      /\ dispatched' = dispatched \cup {q}
      /\ UNCHANGED <<localLeases, outbox, regionNow, attempts, canceling, authorityVars, brokerVars>>
  BY DEF Start, Startable
<1>2. /\ row \in RequestRow /\ row.lease = l /\ row.maximum = requests[q].maximum /\ row.state = "started"
  BY <1>0, RequestFacts DEF RequestRow, RequestState
<1> HIDE DEF row
<1>3. /\ l \in DOMAIN localLeases /\ localLeases[l].state # "closed" /\ q \notin DOMAIN outbox
      /\ q \in RegionRequests
  BY <1>0, <1>1, UnfinishedFacts, RequestFacts
<1>4. /\ DOMAIN requests' = DOMAIN requests /\ requests'[q] = row
      /\ \A p \in DOMAIN requests \ {q} : requests'[p] = requests[p]
  BY <1>1
<1>5. RequestMoves(q, l)
  BY <1>0, <1>1, <1>2, <1>3, <1>4 DEF RequestMoves
<1>6. ProcessTypes'
  BY <1>1, <1>3, TypeParts DEF ProcessTypes, Table, Requests
<1>7. RequestsSound'
  <2>1. \A p \in DOMAIN requests : requests'[p].lease = requests[p].lease
    BY <1>0, <1>2, <1>4
  <2>2. \A p \in DOMAIN requests :
          /\ requests'[p].state = "completed" <=> p \in DOMAIN outbox'
          /\ requests'[p].state \in {"started", "completed"} <=> p \in dispatched'
    BY <1>1, <1>2, <1>3, <1>4 DEF Inv, RequestsSound
  <2> QED
    BY <1>1, <1>4, <2>1, <2>2 DEF Inv, RequestsSound
<1>8. SumsNext(l)
  <2>1. \A p \in DOMAIN requests :
          /\ requests'[p].lease = requests[p].lease /\ requests'[p].maximum = requests[p].maximum
          /\ Live(requests'[p]) <=> Live(requests[p])
    BY <1>0, <1>1, <1>2, <1>4 DEF Live
  <2>2. RowsOf(l)' = RowsOf(l) /\ LiveRows(l)' = LiveRows(l)
    BY <1>4, <2>1 DEF RowsOf, LiveRows
  <2>3. Charges' = Charges /\ Reserves' = Reserves
    BY <1>1, <1>4, <2>1 DEF Charges, Reserves
  <2>4. /\ localLeases[l].spent = Total(RowsOf(l) \cap DOMAIN outbox, Charges)
        /\ localLeases[l].reserved = Total(LiveRows(l), Reserves)
        /\ localLeases[l].spent + localLeases[l].reserved <= localLeases[l].l.granted
    BY <1>3 DEF Inv, RegionSums
  <2> QED
    BY <1>1, <2>2, <2>3, <2>4 DEF SumsNext
<1>9. localLeases'[l] \in LocalRow
  BY <1>1, <1>3, LocalFacts
<1> QED
  BY <1>3, <1>5, <1>6, <1>7, <1>8, <1>9, RegionMoves

\* The event of q is added to those of its lease l.
LEMMA EventAdded ==
  ASSUME Inv, NEW l, NEW q \in RowsOf(l), q \notin DOMAIN outbox, RowsOf(l)' = RowsOf(l),
         DOMAIN outbox' = DOMAIN outbox \cup {q}, \A p \in DOMAIN outbox : outbox'[p] = outbox[p],
         outbox'[q].charge \in Nat
  PROVE  Total(RowsOf(l)' \cap DOMAIN outbox', Charges')
           = Total(RowsOf(l) \cap DOMAIN outbox, Charges) + outbox'[q].charge
<1>1. PICK S : S = RowsOf(l) \cap DOMAIN outbox
  OBVIOUS
<1>2. RowsOf(l)' \cap DOMAIN outbox' = S \cup {q}
  BY <1>1
<1>3. Charges'[q] = outbox'[q].charge /\ \A p \in S : Charges'[p] = Charges[p]
  BY <1>1 DEF Charges
<1>4. IsFiniteSet(S) /\ NatOn(S, Charges) /\ q \notin S /\ Charges'[q] \in Nat
  BY <1>1, <1>3, SumFacts
<1>5. Total(S \cup {q}, Charges') = Total(S, Charges) + Charges'[q]
  BY <1>3, <1>4, TotalAdd
<1>6. Total(RowsOf(l)' \cap DOMAIN outbox', Charges') = Total(S, Charges) + Charges'[q]
  BY <1>2, <1>5, Zenon
<1> QED
  BY <1>1, <1>3, <1>6, Zenon

\* The request q of the lease l is canceled or completed, at the cost of c.
LEMMA FinishMoves ==
  ASSUME Inv, NEW q \in DOMAIN requests, NEW l, l = requests[q].lease, Live(requests[q]),
         NEW st \in {"completed", "canceled"}, NEW c \in Nat, c <= requests[q].maximum,
         DOMAIN requests' = DOMAIN requests, \A p \in DOMAIN requests \ {q} : requests'[p] = requests[p],
         requests'[q] \in RequestRow, requests'[q].lease = l, requests'[q].state = st,
         DOMAIN localLeases' = DOMAIN localLeases,
         \A k \in DOMAIN localLeases \ {l} : localLeases'[k] = localLeases[k],
         localLeases'[l] \in LocalRow, localLeases'[l].l = localLeases[l].l,
         localLeases'[l].state = localLeases[l].state,
         localLeases'[l].spent = localLeases[l].spent + c,
         localLeases'[l].reserved = localLeases[l].reserved - requests[q].maximum,
         DOMAIN outbox' = DOMAIN outbox \cup (IF st = "completed" THEN {q} ELSE {}),
         \A p \in DOMAIN outbox : outbox'[p] = outbox[p],
         st = "canceled" => c = 0 /\ requests[q].state = "reserved",
         st = "completed" => /\ requests[q].state = "started" /\ outbox'[q] \in EventRow
                             /\ outbox'[q].charge = c /\ ~ outbox'[q].acknowledged,
         UNCHANGED <<regionNow, dispatched, authorityVars, brokerVars>>, ProcessTypes'
  PROVE  Inv'
<1>1. /\ l \in DOMAIN localLeases /\ localLeases[l].state # "closed" /\ q \notin DOMAIN outbox
      /\ q \in RegionRequests /\ q \in LiveRows(l)
      /\ Total(LiveRows(l), Reserves) = localLeases[l].reserved
  BY UnfinishedFacts, RequestFacts DEF Live
<1>2. RequestMoves(q, l)
  BY <1>1 DEF RequestMoves
<1>3. RequestsSound'
  <2>1. \A p \in DOMAIN requests : requests'[p].lease = requests[p].lease
    OBVIOUS
  <2>2. \A p \in DOMAIN requests :
          /\ requests'[p].state = "completed" <=> p \in DOMAIN outbox'
          /\ requests'[p].state \in {"started", "completed"} <=> p \in dispatched'
    <3>1. ASSUME NEW p \in DOMAIN requests, p # q
          PROVE  /\ requests'[p].state = "completed" <=> p \in DOMAIN outbox'
                 /\ requests'[p].state \in {"started", "completed"} <=> p \in dispatched'
      BY <3>1 DEF Inv, RequestsSound
    <3>2. /\ requests'[q].state = "completed" <=> q \in DOMAIN outbox'
          /\ requests'[q].state \in {"started", "completed"} <=> q \in dispatched'
      BY <1>1 DEF Inv, RequestsSound
    <3> QED
      BY <3>1, <3>2
  <2> QED
    BY <2>1, <2>2 DEF Inv, RequestsSound
<1>4. SumsNext(l)
  <2>1. RowsOf(l)' = RowsOf(l) /\ q \in RowsOf(l)
    BY DEF RowsOf
  <2>2. LiveRows(l)' = LiveRows(l) \ {q}
    BY <2>1 DEF LiveRows, Live, RowsOf
  <2>3. Reserves[q] = requests[q].maximum /\ \A p \in LiveRows(l) \ {q} : Reserves'[p] = Reserves[p]
    BY DEF Reserves, LiveRows, RowsOf
  <2>4. IsFiniteSet(LiveRows(l)) /\ NatOn(LiveRows(l), Reserves)
    BY SumFacts
  <2>5. Total(LiveRows(l) \ {q}, Reserves') = Total(LiveRows(l), Reserves) - Reserves[q]
    BY <1>1, <2>3, <2>4, TotalRemove
  <2>6. Total(LiveRows(l)', Reserves') = localLeases'[l].reserved
    BY <1>1, <2>2, <2>3, <2>5
  <2>7. /\ localLeases[l].spent = Total(RowsOf(l) \cap DOMAIN outbox, Charges)
        /\ localLeases[l].spent + localLeases[l].reserved <= localLeases[l].l.granted
    BY <1>1 DEF Inv, RegionSums
  <2>8. \A p \in RowsOf(l) \cap DOMAIN outbox : Charges'[p] = Charges[p]
    BY DEF Charges
  <2>9. Total(RowsOf(l)' \cap DOMAIN outbox', Charges') = localLeases'[l].spent
    <3>1. CASE st = "canceled"
      <4>1. RowsOf(l)' \cap DOMAIN outbox' = RowsOf(l) \cap DOMAIN outbox /\ c = 0
        BY <2>1, <3>1
      <4>2. Total(RowsOf(l) \cap DOMAIN outbox, Charges') = Total(RowsOf(l) \cap DOMAIN outbox, Charges)
        BY <2>8, TotalSame
      <4>3. localLeases[l].spent \in Nat
        BY <1>1, LocalFacts
      <4>4. Total(RowsOf(l)' \cap DOMAIN outbox', Charges') = Total(RowsOf(l) \cap DOMAIN outbox, Charges')
        BY <4>1, Zenon
      <4> QED
        BY <2>7, <4>1, <4>2, <4>3, <4>4
    <3>2. CASE st = "completed"
      BY <1>1, <2>1, <2>7, <3>2, EventAdded
    <3> QED
      BY <3>1, <3>2
  <2>10. localLeases'[l].spent + localLeases'[l].reserved <= localLeases'[l].l.granted
    BY <1>1, <2>7, LocalFacts, RequestFacts
  <2> QED
    BY <2>6, <2>9, <2>10 DEF SumsNext
<1> QED
  BY <1>1, <1>2, <1>3, <1>4, RegionMoves

LEMMA CancelStep ==
  ASSUME Inv, NEW q \in DOMAIN requests, Cancel(q)
  PROVE  Inv'
<1> DEFINE row == [requests[q] EXCEPT !.state = "canceled"]
<1>0. PICK l : l = requests[q].lease
  OBVIOUS
<1>1. /\ requests[q].state = "reserved" /\ requests' = [requests EXCEPT ![q] = row]
      /\ localLeases' = [localLeases EXCEPT ![l].reserved = @ - requests[q].maximum]
      /\ canceling' = canceling \ {q}
      /\ UNCHANGED <<outbox, regionNow, attempts, dispatched, authorityVars, brokerVars>>
  BY <1>0 DEF Cancel, Cancelable
<1>2. row \in RequestRow /\ row.lease = l /\ row.state = "canceled"
  BY <1>0, RequestFacts DEF RequestRow, RequestState
<1> HIDE DEF row
<1>3. /\ l \in DOMAIN localLeases /\ localLeases[l].reserved - requests[q].maximum \in Nat
      /\ localLeases[l] \in LocalRow /\ localLeases[l].spent \in Nat
  BY <1>0, <1>1, UnfinishedFacts, LocalFacts
<1>4. /\ DOMAIN requests' = DOMAIN requests /\ requests'[q] = row
      /\ \A p \in DOMAIN requests \ {q} : requests'[p] = requests[p]
  BY <1>1
<1>5. /\ DOMAIN localLeases' = DOMAIN localLeases
      /\ \A k \in DOMAIN localLeases \ {l} : localLeases'[k] = localLeases[k]
      /\ localLeases'[l] \in LocalRow /\ localLeases'[l].l = localLeases[l].l
      /\ localLeases'[l].state = localLeases[l].state /\ localLeases'[l].spent = localLeases[l].spent
      /\ localLeases'[l].reserved = localLeases[l].reserved - requests[q].maximum
  BY <1>1, <1>3 DEF LocalRow
<1>6. ProcessTypes'
  BY <1>1, TypeParts DEF ProcessTypes, Table
<1>7. localLeases'[l].spent = localLeases[l].spent + 0 /\ 0 <= requests[q].maximum /\ Live(requests[q])
  BY <1>1, <1>3, <1>5, RequestFacts DEF Live
<1>8. DOMAIN outbox' = DOMAIN outbox \cup {} /\ \A p \in DOMAIN outbox : outbox'[p] = outbox[p]
  BY <1>1
<1> QED
  BY <1>0, <1>1, <1>2, <1>4, <1>5, <1>6, <1>7, <1>8, FinishMoves

LEMMA CompleteStep ==
  ASSUME Inv, NEW q \in DOMAIN requests, NEW c \in 0 .. (requests[q].maximum + 1), Complete(q, c)
  PROVE  Inv'
<1> DEFINE row == [requests[q] EXCEPT !.state = "completed"]
           event == [charge |-> c, acknowledged |-> FALSE]
<1>0. PICK l : l = requests[q].lease
  OBVIOUS
<1>1. /\ requests[q].state = "started" /\ c <= requests[q].maximum
      /\ requests' = [requests EXCEPT ![q] = row]
      /\ localLeases' = [localLeases EXCEPT ![l].reserved = @ - requests[q].maximum, ![l].spent = @ + c]
      /\ outbox' = Put(outbox, q, event) /\ attempts' = [attempts EXCEPT ![q] = "ended"]
      /\ UNCHANGED <<regionNow, canceling, dispatched, authorityVars, brokerVars>>
  BY <1>0 DEF Complete
<1>2. c \in Nat
  BY RequestFacts
<1>3. /\ row \in RequestRow /\ row.lease = l /\ row.state = "completed"
      /\ event \in EventRow /\ event.charge = c /\ ~ event.acknowledged
  BY <1>0, <1>2, RequestFacts DEF RequestRow, RequestState, EventRow
<1> HIDE DEF row, event
<1>4. /\ l \in DOMAIN localLeases /\ localLeases[l].reserved - requests[q].maximum \in Nat
      /\ localLeases[l] \in LocalRow /\ localLeases[l].spent + c \in Nat /\ q \notin DOMAIN outbox
  BY <1>0, <1>1, <1>2, UnfinishedFacts, LocalFacts
<1>5. /\ DOMAIN requests' = DOMAIN requests /\ requests'[q] = row
      /\ \A p \in DOMAIN requests \ {q} : requests'[p] = requests[p]
  BY <1>1
<1>6. /\ DOMAIN localLeases' = DOMAIN localLeases
      /\ \A k \in DOMAIN localLeases \ {l} : localLeases'[k] = localLeases[k]
      /\ localLeases'[l] \in LocalRow /\ localLeases'[l].l = localLeases[l].l
      /\ localLeases'[l].state = localLeases[l].state /\ localLeases'[l].spent = localLeases[l].spent + c
      /\ localLeases'[l].reserved = localLeases[l].reserved - requests[q].maximum
  BY <1>1, <1>4 DEF LocalRow
<1>7. /\ DOMAIN outbox' = DOMAIN outbox \cup {q} /\ outbox'[q] = event
      /\ \A p \in DOMAIN outbox : outbox'[p] = outbox[p]
  BY <1>1, <1>4 DEF Put
<1>8. ProcessTypes'
  BY <1>1, TypeParts DEF ProcessTypes, Table
<1>9. Live(requests[q])
  BY <1>1 DEF Live
<1> QED
  BY <1>0, <1>1, <1>2, <1>3, <1>5, <1>6, <1>7, <1>8, <1>9, FinishMoves

-----------------------------------------------------------------------------
(* The invariant holds in every reachable state. *)

LEMMA InitInv == Init => Inv
<1> SUFFICES ASSUME Init PROVE Inv
  OBVIOUS
<1>1. /\ allocations = Empty /\ leases = Empty /\ settled = Empty /\ holds = Empty
      /\ localLeases = Empty /\ requests = Empty /\ outbox = Empty /\ attempts = Empty
      /\ issues = Empty /\ closes = Empty /\ calls = Empty
      /\ canceling = {} /\ dispatched = {} /\ confirmed = {}
  BY DEF Init
<1>2. DOMAIN Empty = {}
  BY DEF Empty
<1>3. TypeOK
  <2>1. balance \in Nat /\ active \in BOOLEAN /\ kind \in Kinds /\ quota \in Quotas
        /\ quotaUsed \in Nat /\ primaryNow \in Nat /\ regionNow \in [Regions -> Nat]
    BY LedgerAssumption DEF Init
  <2> QED
    BY <1>1, <1>2, <2>1 DEF TypeOK
<1>4. LeasesSound /\ HoldsSound /\ IssuesSound
  BY <1>1, <1>2 DEF LeasesSound, HoldsSound, IssuesSound
<1>5. LocalSound /\ RequestsSound
  BY <1>1, <1>2 DEF LocalSound, RequestsSound
<1>6. EventsSound /\ ClosesSound /\ OneAwaited
  BY <1>1, <1>2 DEF EventsSound, ClosesSound, OneAwaited
<1>7. AuthoritySums /\ RegionSums
  BY <1>1, <1>2 DEF AuthoritySums, RegionSums
<1> QED
  BY <1>3, <1>4, <1>5, <1>6, <1>7 DEF Inv

LEMMA NextInv == Inv /\ [Next]_vars => Inv'
<1> SUFFICES ASSUME Inv, [Next]_vars PROVE Inv'
  OBVIOUS
<1>1. CASE Authority
  BY <1>1, AdminStep, ReanswerStep, IssueStep, SettleStep, CloseStep, ConfirmedStep DEF Authority
<1>2. CASE Primary
  BY <1>2, PrimaryReserveStep, PrimaryStartStep, PrimaryCancelStep, PrimaryCompleteStep DEF Primary
<1>3. CASE Region
  BY <1>3, ReserveStep, StartStep, CancelStep, CompleteStep, AcknowledgeStep, TickRegionStep DEF Region
<1>4. CASE Process
  BY <1>4, ProcessStep DEF Process
<1>5. CASE Worker
  BY <1>5, EnsureFundsStep, ReplayStep, ReplayInstallStep, DrainStep, QueueCloseStep, CloseInstalledStep,
     ConfirmedStep DEF Worker
<1>6. CASE UNCHANGED vars
  BY <1>6, StutterStep
<1> QED
  BY <1>1, <1>2, <1>3, <1>4, <1>5, <1>6 DEF Next

\* The invariant above holds throughout, for any number of regions, leases and
\* requests, whatever answers, processes and workers are lost (primary.go, local.go,
\* primary_requests.go, regional_funds_broker.go).
THEOREM Invariance == Spec => []Inv
<1>1. Init => Inv
  BY InitInv
<1>2. Inv /\ [Next]_vars => Inv'
  BY NextInv
<1> QED
  BY <1>1, <1>2, PTL DEF Spec

\* At every site the sums of a lease are the sums of the rows they stand for, the
\* authority and its budget scope agree about them, and they fit into the grant
\* (primary.go Settle, local.go Reserve and finish).
THEOREM SumsAreExact == Spec => []LedgersExact
<1>1. Inv => LedgersExact
  <2> SUFFICES ASSUME Inv PROVE LedgersExact
    OBVIOUS
  <2>1. \A l \in DOMAIN leases :
          /\ leases[l].spent = Total(SettledOf(l), settled)
          /\ allocations[l].spent = leases[l].spent
          /\ allocations[l].state = "held" <=> leases[l].state = "open"
    BY DEF Inv, LeasesSound, AuthoritySums
  <2>2. \A l \in DOMAIN localLeases :
          /\ localLeases[l].spent = Total(RowsOf(l) \cap DOMAIN outbox, [q \in DOMAIN outbox |-> outbox[q].charge])
          /\ localLeases[l].reserved = Total({q \in RowsOf(l) : Live(requests[q])},
                                             [q \in DOMAIN requests |-> requests[q].maximum])
          /\ localLeases[l].spent + localLeases[l].reserved <= localLeases[l].l.granted
    BY Zenon DEF Inv, RegionSums, Charges, Reserves, LiveRows
  <2> QED
    BY <2>1, <2>2, Zenon DEF Inv, LedgersExact
<1> QED
  BY <1>1, Invariance, PTL

\* Money is held only for a lease that its region has or still asks for
\* (regional_funds_broker.go, control/broker.go Replay).
THEOREM NoLeaseIsOrphaned == Spec => []NoOrphanLease
<1>1. Inv => NoOrphanLease
  <2> SUFFICES ASSUME Inv, NEW l \in DOMAIN leases
               PROVE  l \in DOMAIN localLeases \/ issues[l].state = "pending"
    BY DEF NoOrphanLease
  <2>1. l \in DOMAIN issues /\ issues[l].state \in {"pending", "installed", "rejected"}
    BY LeaseFacts, IssueFacts DEF IssueRow
  <2>2. issues[l].state = "rejected" => ExpiredUnissued(l)
    BY <2>1 DEF Inv, IssuesSound
  <2>3. issues[l].state = "installed" => l \in DOMAIN localLeases
    BY <2>1 DEF Inv, IssuesSound
  <2> QED
    BY <2>1, <2>2, <2>3 DEF ExpiredUnissued
<1> QED
  BY <1>1, Invariance, PTL

\* A region has money for its target in one open lease at a time
\* (regional_funds_broker.go ensureRegionalFunds).
THEOREM OneLeaseIsOpen == Spec => []OneLeasePerTarget
<1>1. Inv => OneLeasePerTarget
  <2> SUFFICES ASSUME Inv, NEW k \in DOMAIN leases, NEW l \in DOMAIN leases,
                      leases[k].state = "open", leases[l].state = "open",
                      leases[k].l.region = leases[l].l.region
               PROVE  k = l
    BY DEF OneLeasePerTarget
  <2>1. ASSUME NEW m \in DOMAIN leases, leases[m].state = "open"
        PROVE  m \in DOMAIN issues /\ leases[m].l = issues[m].l /\ Awaited(m)
    <3>1. m \in DOMAIN issues /\ leases[m].l = issues[m].l
      BY LeaseFacts
    <3>2. issues[m].state \in {"pending", "installed", "rejected"}
      BY <3>1, IssueFacts DEF IssueRow
    <3>3. issues[m].state = "pending" \/ m \in DOMAIN localLeases
      BY <3>1, <3>2 DEF Inv, IssuesSound, ExpiredUnissued
    <3>4. ~ GivenBack(m)
      BY <2>1 DEF Inv, ClosesSound, GivenBack
    <3> QED
      BY <3>1, <3>3, <3>4 DEF Awaited
  <2> QED
    BY <2>1 DEF Inv, OneAwaited
<1> QED
  BY <1>1, Invariance, PTL

-----------------------------------------------------------------------------
(* What the authority keeps for a region is enough for what the region owes. *)

\* what a request costs, as far as the region knows
Cost == [q \in DOMAIN requests |-> IF q \in DOMAIN outbox THEN outbox[q].charge ELSE requests[q].maximum]

Exposed(l) == {q \in RowsOf(l) : q \in dispatched /\ q \notin DOMAIN settled}

LEMMA SettledRows ==
  ASSUME Inv, NEW l
  PROVE  /\ SettledOf(l) \subseteq RowsOf(l) \cap DOMAIN outbox
         /\ \A q \in SettledOf(l) : settled[q] = outbox[q].charge
BY DEF SettledOf, RowsOf, Inv, EventsSound, RequestsSound

\* The sums of a lease in terms of the cost of its requests.
LEMMA CostSums ==
  ASSUME Inv, NEW l \in DOMAIN localLeases
  PROVE  /\ Total(RowsOf(l) \cap DOMAIN outbox, Cost) = localLeases[l].spent
         /\ Total(LiveRows(l), Cost) = localLeases[l].reserved
         /\ Total(SettledOf(l), Cost) = leases[l].spent
<1>1. \A q \in RowsOf(l) \cap DOMAIN outbox : Cost[q] = Charges[q]
  BY DEF Cost, Charges, RowsOf
<1>2. \A q \in LiveRows(l) : Cost[q] = Reserves[q]
  <2>1. \A q \in LiveRows(l) : q \in DOMAIN requests /\ q \notin DOMAIN outbox
    BY DEF LiveRows, RowsOf, Live, Inv, RequestsSound
  <2> QED
    BY <2>1 DEF Cost, Reserves
<1>3. \A q \in SettledOf(l) : Cost[q] = settled[q]
  BY SettledRows DEF Cost, RowsOf
<1>4. Total(RowsOf(l) \cap DOMAIN outbox, Cost) = Total(RowsOf(l) \cap DOMAIN outbox, Charges)
  BY <1>1, TotalSame
<1>5. Total(LiveRows(l), Cost) = Total(LiveRows(l), Reserves)
  BY <1>2, TotalSame
<1>6. Total(SettledOf(l), Cost) = Total(SettledOf(l), settled)
  BY <1>3, TotalSame
<1>7. /\ localLeases[l].spent = Total(RowsOf(l) \cap DOMAIN outbox, Charges)
      /\ localLeases[l].reserved = Total(LiveRows(l), Reserves)
  BY DEF Inv, RegionSums
<1>8. leases[l].spent = Total(SettledOf(l), settled)
  BY LocalFacts DEF Inv, AuthoritySums
<1> QED
  BY <1>4, <1>5, <1>6, <1>7, <1>8

\* Rows outside the settled ones cost no more than the authority has left.
LEMMA Coverage ==
  ASSUME Inv, NEW l \in DOMAIN localLeases, NEW T, T \subseteq RowsOf(l),
         T \subseteq LiveRows(l) \cup DOMAIN outbox, T \cap SettledOf(l) = {}
  PROVE  /\ Total(T, Cost) \in Nat
         /\ Total(T, Cost) <= leases[l].l.granted - leases[l].spent
<1>1. PICK A, B, S : A = RowsOf(l) \cap DOMAIN outbox /\ B = LiveRows(l) /\ S = SettledOf(l)
  OBVIOUS
<1>2. A \cap B = {} /\ S \subseteq A /\ T \cup S \subseteq A \cup B /\ T \cap S = {} /\ A \cup B \subseteq RowsOf(l)
  <2>1. A \cap B = {}
    BY <1>1 DEF LiveRows, RowsOf, Live, Inv, RequestsSound
  <2>2. S \subseteq A
    BY <1>1, SettledRows
  <2>3. B \subseteq RowsOf(l)
    BY <1>1 DEF LiveRows
  <2> QED
    BY <1>1, <2>1, <2>2, <2>3
<1>3. NatOn(A \cup B, Cost)
  <2>1. \A q \in RowsOf(l) : Cost[q] \in Nat
    BY RequestFacts, EventFacts DEF Cost, RowsOf
  <2> QED
    BY <1>2, <2>1 DEF NatOn
<1>4. IsFiniteSet(A) /\ IsFiniteSet(B) /\ IsFiniteSet(S) /\ IsFiniteSet(RowsOf(l))
  BY <1>1, SumFacts
<1>5. IsFiniteSet(A \cup B) /\ IsFiniteSet(T) /\ IsFiniteSet(T \cup S)
  BY <1>2, <1>4, FS_Subset, FS_Union
<1>6. NatOn(T \cup S, Cost) /\ NatOn(T, Cost)
  BY <1>2, <1>3 DEF NatOn
<1>7. Total(A \cup B, Cost) = Total(A, Cost) + Total(B, Cost)
  BY <1>2, <1>3, <1>4, TotalSplit
<1>8. Total(T \cup S, Cost) = Total(T, Cost) + Total(S, Cost)
  BY <1>2, <1>4, <1>5, <1>6, TotalSplit
<1>9. Total(T \cup S, Cost) <= Total(A \cup B, Cost)
  BY <1>2, <1>3, <1>5, TotalSubset
<1>10. Total(T, Cost) \in Nat
  BY <1>5, <1>6, TotalType
<1>11. /\ Total(A, Cost) = localLeases[l].spent /\ Total(B, Cost) = localLeases[l].reserved
       /\ Total(S, Cost) = leases[l].spent
  BY <1>1, CostSums
<1>12. /\ localLeases[l].spent + localLeases[l].reserved <= leases[l].l.granted
       /\ localLeases[l].spent \in Nat /\ localLeases[l].reserved \in Nat
       /\ leases[l].spent \in Nat /\ leases[l].l.granted \in Nat
  BY LocalFacts, LeaseFacts DEF Inv, RegionSums
<1> QED
  BY <1>7, <1>8, <1>9, <1>10, <1>11, <1>12

\* The authority keeps the lease open as long as something of it is unsettled.
LEMMA UnsettledOpen ==
  ASSUME Inv, NEW l \in DOMAIN localLeases, NEW q \in RowsOf(l), q \in dispatched, q \notin DOMAIN settled
  PROVE  l \in DOMAIN leases /\ leases[l].state = "open" /\ allocations[l].state = "held"
<1>1. l \in DOMAIN leases /\ leases[l].state \in {"open", "closed"}
  BY LocalFacts, LeaseFacts
<1>2. q \in DOMAIN requests /\ requests[q].state \in {"started", "completed"}
  BY DEF RowsOf, Inv, RequestsSound
<1>3. ~ Resolved(l)
  <2>1. q \in DOMAIN outbox => ~ outbox[q].acknowledged
    BY DEF Inv, EventsSound
  <2> QED
    BY <1>2, <2>1 DEF Resolved
<1>4. l \notin DOMAIN closes
  BY <1>3 DEF Inv, LocalSound, ClosesSound
<1>5. leases[l].state = "open"
  BY <1>1, <1>4 DEF Inv, ClosesSound
<1> QED
  BY <1>1, <1>5 DEF Inv, LeasesSound

\* Whatever went upstream is covered by an open lease of the authority until it is
\* settled (local.go Start and Complete, primary.go Settle and Close).
THEOREM UpstreamIsCovered == Spec => []UpstreamCovered
<1>1. Inv => UpstreamCovered
  <2> SUFFICES ASSUME Inv, NEW l \in DOMAIN localLeases, Exposure(l) > 0
               PROVE  /\ l \in DOMAIN leases /\ leases[l].state = "open"
                      /\ Exposure(l) <= leases[l].l.granted - leases[l].spent
    BY DEF UpstreamCovered
  <2>1. Exposure(l) = Total(Exposed(l), Cost)
    BY Zenon DEF Exposure, Exposed, Cost
  <2>2. Exposed(l) # {}
    <3>1. SUFFICES ASSUME Exposed(l) = {} PROVE FALSE
      OBVIOUS
    <3>2. Exposure(l) = 0
      BY <2>1, <3>1, TotalEmpty
    <3> QED
      BY <3>2
  <2>3. PICK q \in RowsOf(l) : q \in dispatched /\ q \notin DOMAIN settled
    BY <2>2 DEF Exposed
  <2>4. l \in DOMAIN leases /\ leases[l].state = "open"
    BY <2>3, UnsettledOpen
  <2>5. /\ Exposed(l) \subseteq RowsOf(l) /\ Exposed(l) \subseteq LiveRows(l) \cup DOMAIN outbox
        /\ Exposed(l) \cap SettledOf(l) = {}
    BY DEF Exposed, SettledOf, LiveRows, RowsOf, Live, Inv, RequestsSound
  <2>6. Total(Exposed(l), Cost) <= leases[l].l.granted - leases[l].spent
    BY <2>5, Coverage
  <2> QED
    BY <2>1, <2>4, <2>6
<1> QED
  BY <1>1, Invariance, PTL

\* Every event a worker delivers can be settled and every receipt agrees with the
\* authority's sum, so a delivery is never refused (worker.go Flush, primary.go
\* Settle and Close).
THEOREM DeliveriesAreNeverRefused == Spec => []DeliveryNeverRefused
<1>1. ASSUME Inv, NEW q \in DOMAIN outbox, Unsettled(q)
      PROVE  Settleable(q)
  <2>1. PICK l, c : l = requests[q].lease /\ c = outbox[q].charge
    OBVIOUS
  <2>2. /\ q \in DOMAIN requests /\ requests[q].state = "completed" /\ l \in DOMAIN localLeases
        /\ c \in Nat
    BY <1>1, <2>1, EventFacts, RequestFacts
  <2>3. q \in RowsOf(l) /\ q \in dispatched /\ q \notin DOMAIN settled
    BY <1>1, <2>1, <2>2 DEF RowsOf, Unsettled, Inv, RequestsSound
  <2>4. l \in DOMAIN leases /\ leases[l].state = "open" /\ allocations[l].state = "held"
    BY <1>1, <2>2, <2>3, UnsettledOpen
  <2>5. {q} \subseteq RowsOf(l) /\ {q} \subseteq LiveRows(l) \cup DOMAIN outbox /\ {q} \cap SettledOf(l) = {}
    BY <1>1, <2>3 DEF SettledOf
  <2>6. Total({q}, Cost) <= leases[l].l.granted - leases[l].spent
    BY <1>1, <2>2, <2>5, Coverage
  <2>7. Cost[q] = c
    BY <1>1, <2>1, <2>2 DEF Cost
  <2>8. Total({q}, Cost) = c
    <3>1. IsFiniteSet({}) /\ NatOn({}, Cost) /\ q \notin {} /\ Cost[q] \in Nat
      BY <2>2, <2>7, FS_EmptySet DEF NatOn
    <3>2. Total({} \cup {q}, Cost) = Total({}, Cost) + Cost[q]
      BY <3>1, TotalAdd
    <3>3. {} \cup {q} = {q}
      OBVIOUS
    <3>4. Total({q}, Cost) = Total({}, Cost) + Cost[q]
      BY <3>2, <3>3, Zenon
    <3> QED
      BY <2>2, <2>7, <3>4, TotalEmpty
  <2>9. /\ allocations[l].maximum = leases[l].l.granted /\ allocations[l].spent = leases[l].spent
    BY <1>1, <2>4, LeaseFacts
  <2> QED
    BY <2>1, <2>4, <2>6, <2>8, <2>9 DEF Settleable
<1>2. ASSUME Inv, NEW l \in DOMAIN closes
      PROVE  ReceiptAgrees(l)
  <2>1. /\ l \in DOMAIN localLeases /\ localLeases[l].state = "closed" /\ closes[l].spent = localLeases[l].spent
    BY <1>2 DEF Inv, ClosesSound
  <2>2. Resolved(l) /\ l \in DOMAIN leases
    BY <1>2, <2>1 DEF Inv, LocalSound
  <2>3. SettledOf(l) = RowsOf(l) \cap DOMAIN outbox
    <3>1. SettledOf(l) \subseteq RowsOf(l) \cap DOMAIN outbox
      BY <1>2, SettledRows
    <3>2. ASSUME NEW q \in RowsOf(l) \cap DOMAIN outbox
          PROVE  q \in SettledOf(l)
      <4>1. requests[q].state = "completed" /\ requests[q].lease = l
        BY <1>2, EventFacts DEF RowsOf
      <4>2. outbox[q].acknowledged
        BY <2>2, <4>1 DEF Resolved
      <4> QED
        BY <1>2, <4>1, <4>2 DEF Inv, EventsSound, SettledOf
    <3> QED
      BY <3>1, <3>2
  <2>4. localLeases[l].spent = leases[l].spent
    BY <1>2, <2>1, <2>3, CostSums, Zenon
  <2> QED
    BY <2>1, <2>2, <2>4 DEF ReceiptAgrees
<1>3. Inv => DeliveryNeverRefused
  BY <1>1, <1>2 DEF DeliveryNeverRefused
<1> QED
  BY <1>3, Invariance, PTL

-----------------------------------------------------------------------------
(* What the key may still come to use. *)

Budgets == [a \in DOMAIN allocations |-> allocations[a].maximum - allocations[a].spent]

LEMMA BudgetFacts ==
  ASSUME Inv
  PROVE  /\ HeldBudget = Total(HeldAllocations, Budgets) /\ HeldBudget \in Nat
         /\ IsFiniteSet(HeldAllocations) /\ NatOn(HeldAllocations, Budgets)
         /\ quotaUsed \in Nat /\ quota \in Nat
<1>1. HeldBudget = Total(HeldAllocations, Budgets)
  BY Zenon DEF HeldBudget, Budgets
<1>2. IsFiniteSet(HeldAllocations)
  <2>1. HeldAllocations \subseteq Leases \cup PrimaryRequests
    BY TypeParts DEF HeldAllocations, AuthorityTypes, Table
  <2>2. IsFiniteSet(Leases \cup PrimaryRequests)
    BY LedgerAssumption, FS_Union
  <2> QED
    BY <2>1, <2>2, FS_Subset
<1>3. NatOn(HeldAllocations, Budgets)
  <2>1. ASSUME NEW a \in HeldAllocations
        PROVE  Budgets[a] \in Nat
    <3>1. a \in DOMAIN allocations /\ allocations[a].state = "held" /\ Budgets[a] = allocations[a].maximum - allocations[a].spent
      BY DEF HeldAllocations, Budgets
    <3>2. CASE a \in DOMAIN leases
      BY <3>1, <3>2, LeaseFacts
    <3>3. CASE a \in DOMAIN holds
      <4>1. allocations[a].spent = 0
        BY <3>1, <3>3 DEF Inv, HoldsSound
      <4> QED
        BY <3>1, <3>3, <4>1, HoldFacts
    <3> QED
      BY <3>1, <3>2, <3>3 DEF Inv, HoldsSound
  <2> QED
    BY <2>1 DEF NatOn
<1>4. Total(HeldAllocations, Budgets) \in Nat
  BY <1>2, <1>3, TotalType
<1>5. quotaUsed \in Nat /\ quota \in Nat
  BY TypeParts, LedgerAssumption DEF AuthorityTypes
<1> QED
  BY <1>1, <1>2, <1>3, <1>4, <1>5

\* An allocation is added to the key's budget.
LEMMA BudgetTaken ==
  ASSUME Inv, NEW a, a \notin DOMAIN allocations, NEW n \in Nat,
         allocations' = Put(allocations, a, NewAllocation(n))
  PROVE  HeldBudget' = HeldBudget + n
<1>1. /\ DOMAIN allocations' = DOMAIN allocations \cup {a} /\ allocations'[a] = NewAllocation(n)
      /\ \A b \in DOMAIN allocations : allocations'[b] = allocations[b]
  BY DEF Put
<1>2. HeldAllocations' = HeldAllocations \cup {a} /\ a \notin HeldAllocations
  BY <1>1 DEF HeldAllocations, NewAllocation
<1>3. Budgets'[a] = n /\ \A b \in HeldAllocations : Budgets'[b] = Budgets[b]
  BY <1>1 DEF Budgets, HeldAllocations, NewAllocation
<1>4. Budgets'[a] \in Nat /\ IsFiniteSet(HeldAllocations) /\ NatOn(HeldAllocations, Budgets)
  BY <1>3, BudgetFacts
<1>5. Total(HeldAllocations \cup {a}, Budgets') = Total(HeldAllocations, Budgets) + Budgets'[a]
  BY <1>2, <1>3, <1>4, TotalAdd
<1>6. HeldBudget' = Total(HeldAllocations', Budgets')
  BY Zenon DEF HeldBudget, Budgets
<1>7. HeldBudget' = Total(HeldAllocations \cup {a}, Budgets')
  BY <1>2, <1>6, Zenon
<1> QED
  BY <1>3, <1>5, <1>7, BudgetFacts

\* An allocation leaves the key's budget.
LEMMA BudgetFreed ==
  ASSUME Inv, NEW a \in HeldAllocations, DOMAIN allocations' = DOMAIN allocations,
         \A b \in DOMAIN allocations \ {a} : allocations'[b] = allocations[b],
         allocations'[a].state = "closed"
  PROVE  HeldBudget' = HeldBudget - Budgets[a] /\ Budgets[a] \in Nat
<1>1. HeldAllocations' = HeldAllocations \ {a}
  BY DEF HeldAllocations
<1>2. \A b \in HeldAllocations \ {a} : Budgets'[b] = Budgets[b]
  BY DEF Budgets, HeldAllocations
<1>3. IsFiniteSet(HeldAllocations) /\ NatOn(HeldAllocations, Budgets)
  BY BudgetFacts
<1>4. Total(HeldAllocations \ {a}, Budgets') = Total(HeldAllocations, Budgets) - Budgets[a]
  BY <1>2, <1>3, TotalRemove
<1>5. HeldBudget' = Total(HeldAllocations', Budgets')
  BY Zenon DEF HeldBudget, Budgets
<1>6. HeldBudget' = Total(HeldAllocations \ {a}, Budgets')
  BY <1>1, <1>5, Zenon
<1>7. Budgets[a] \in Nat
  BY <1>3 DEF NatOn
<1> QED
  BY <1>4, <1>6, <1>7, BudgetFacts

\* Part of an allocation is charged.
LEMMA BudgetUsed ==
  ASSUME Inv, NEW a \in HeldAllocations, NEW c \in Nat, c <= Budgets[a],
         DOMAIN allocations' = DOMAIN allocations,
         \A b \in DOMAIN allocations \ {a} : allocations'[b] = allocations[b],
         allocations'[a].state = allocations[a].state, allocations'[a].maximum = allocations[a].maximum,
         allocations'[a].spent = allocations[a].spent + c
  PROVE  HeldBudget' = HeldBudget - c
<1>1. HeldAllocations' = HeldAllocations /\ a \in DOMAIN allocations
  BY DEF HeldAllocations
<1>2. \A b \in HeldAllocations \ {a} : Budgets'[b] = Budgets[b]
  BY DEF Budgets, HeldAllocations
<1>3. IsFiniteSet(HeldAllocations) /\ NatOn(HeldAllocations, Budgets)
  BY BudgetFacts
<1>4. allocations[a].maximum \in Nat /\ allocations[a].spent \in Nat
  BY <1>1, TypeParts DEF AuthorityTypes, Table, AllocationRow
<1>5. Budgets[a] = allocations[a].maximum - allocations[a].spent /\ Budgets'[a] = Budgets[a] - c
  BY <1>1, <1>4 DEF Budgets
<1>6. Budgets'[a] \in Nat
  BY <1>4, <1>5
<1>7. Total(HeldAllocations, Budgets') = Total(HeldAllocations, Budgets) - Budgets[a] + Budgets'[a]
  BY <1>2, <1>3, <1>6, TotalChange
<1>8. HeldBudget' = Total(HeldAllocations', Budgets')
  BY Zenon DEF HeldBudget, Budgets
<1>9. HeldBudget' = Total(HeldAllocations, Budgets')
  BY <1>1, <1>8, Zenon
<1> QED
  BY <1>4, <1>5, <1>7, <1>9, BudgetFacts

\* The key comes to use more only where the scope has compared it with the quota.
GrowsWithinQuota ==
  quotaUsed' + HeldBudget' > quotaUsed + HeldBudget => quota = 0 \/ quotaUsed' + HeldBudget' <= quota

LEMMA QuotaOfSettle ==
  ASSUME Inv, NEW q \in DOMAIN outbox, Settle(q)
  PROVE  GrowsWithinQuota
<1>1. PICK l, c : l = requests[q].lease /\ c = outbox[q].charge
  OBVIOUS
<1>2. /\ l \in DOMAIN leases /\ allocations[l].state = "held" /\ c <= allocations[l].maximum - allocations[l].spent
      /\ quotaUsed' = quotaUsed + c
      /\ allocations' = [allocations EXCEPT ![l].spent = @ + c]
  BY <1>1 DEF Settle, Settleable
<1>3. l \in HeldAllocations /\ c \in Nat
  BY <1>1, <1>2, LeaseFacts, EventFacts DEF HeldAllocations
<1>4. c <= Budgets[l]
  BY <1>2, <1>3 DEF Budgets, HeldAllocations
<1>5. /\ DOMAIN allocations' = DOMAIN allocations
      /\ \A b \in DOMAIN allocations \ {l} : allocations'[b] = allocations[b]
      /\ allocations'[l].state = allocations[l].state /\ allocations'[l].maximum = allocations[l].maximum
      /\ allocations'[l].spent = allocations[l].spent + c
  BY <1>2, LeaseFacts DEF AllocationRow
<1>6. HeldBudget' = HeldBudget - c
  BY <1>3, <1>4, <1>5, BudgetUsed
<1> QED
  BY <1>2, <1>3, <1>6, BudgetFacts DEF GrowsWithinQuota

LEMMA QuotaOfReserve ==
  ASSUME Inv, NEW a, a \notin DOMAIN allocations, NEW n \in Nat, ScopeAdmits(n),
         allocations' = Put(allocations, a, NewAllocation(n)), UNCHANGED quotaUsed
  PROVE  GrowsWithinQuota
<1>1. HeldBudget' = HeldBudget + n
  BY BudgetTaken
<1> QED
  BY <1>1, BudgetFacts DEF GrowsWithinQuota, ScopeAdmits

LEMMA QuotaOfEnd ==
  ASSUME Inv, NEW a \in HeldAllocations, DOMAIN allocations' = DOMAIN allocations,
         \A b \in DOMAIN allocations \ {a} : allocations'[b] = allocations[b],
         allocations'[a].state = "closed", NEW c \in Nat, c <= Budgets[a], quotaUsed' = quotaUsed + c
  PROVE  GrowsWithinQuota
<1>1. HeldBudget' = HeldBudget - Budgets[a] /\ Budgets[a] \in Nat
  BY BudgetFreed
<1> QED
  BY <1>1, BudgetFacts DEF GrowsWithinQuota

LEMMA QuotaOfStep ==
  ASSUME Inv, [Next]_vars
  PROVE  GrowsWithinQuota
<1>1. CASE UNCHANGED <<allocations, quotaUsed>>
  <2>1. HeldBudget' = HeldBudget
    BY <1>1 DEF HeldBudget, HeldAllocations
  <2> QED
    BY <1>1, <2>1, BudgetFacts DEF GrowsWithinQuota
<1>2. ASSUME NEW l \in DOMAIN issues, Issue(l)
      PROVE  GrowsWithinQuota
  <2>1. /\ l \notin DOMAIN leases /\ ScopeAdmits(issues[l].l.granted) /\ UNCHANGED quotaUsed
        /\ allocations' = Put(allocations, l, NewAllocation(issues[l].l.granted))
    BY <1>2 DEF Issue
  <2>2. l \notin DOMAIN allocations /\ issues[l].l.granted \in Nat
    BY <2>1, NewLease, IssueFacts
  <2> QED
    BY <2>1, <2>2, QuotaOfReserve
<1>3. ASSUME NEW q \in PrimaryRequests, NEW m \in Maxima, PrimaryReserve(q, m)
      PROVE  GrowsWithinQuota
  <2>1. /\ q \notin DOMAIN holds /\ ScopeAdmits(m) /\ UNCHANGED quotaUsed
        /\ allocations' = Put(allocations, q, NewAllocation(m))
    BY <1>3 DEF PrimaryReserve
  <2>2. q \notin DOMAIN allocations /\ m \in Nat
    <3>1. q \notin Leases
      BY LedgerAssumption DEF Requests
    <3>2. q \notin DOMAIN leases
      BY <3>1, LeaseFacts
    <3> QED
      BY <2>1, <3>2, Positive DEF Inv, HoldsSound
  <2> QED
    BY <2>1, <2>2, QuotaOfReserve
<1>4. ASSUME NEW l \in DOMAIN closes, Close(l)
      PROVE  GrowsWithinQuota
  <2>1. /\ l \in DOMAIN leases /\ leases[l].state = "open" /\ UNCHANGED quotaUsed
        /\ allocations' = [allocations EXCEPT ![l].state = "closed"]
    BY <1>4 DEF Close, ReceiptAgrees, StillOpen
  <2>2. l \in HeldAllocations
    BY <2>1 DEF HeldAllocations, Inv, LeasesSound
  <2>3. /\ DOMAIN allocations' = DOMAIN allocations
        /\ \A b \in DOMAIN allocations \ {l} : allocations'[b] = allocations[b]
        /\ allocations'[l].state = "closed"
    BY <2>1, LeaseFacts DEF AllocationRow
  <2>4. quotaUsed' = quotaUsed + 0 /\ 0 <= Budgets[l]
    BY <2>1, <2>2, BudgetFacts DEF NatOn
  <2> QED
    BY <2>2, <2>3, <2>4, QuotaOfEnd
<1>5. ASSUME NEW q \in DOMAIN holds, PrimaryCancel(q)
      PROVE  GrowsWithinQuota
  <2>1. /\ holds[q].state = "reserved" /\ UNCHANGED quotaUsed
        /\ allocations' = [allocations EXCEPT ![q].state = "closed"]
    BY <1>5 DEF PrimaryCancel, Cancelable
  <2>2. q \in HeldAllocations
    BY <2>1, HoldFacts DEF HeldAllocations, Live, Inv, HoldsSound
  <2>3. /\ DOMAIN allocations' = DOMAIN allocations
        /\ \A b \in DOMAIN allocations \ {q} : allocations'[b] = allocations[b]
        /\ allocations'[q].state = "closed"
    BY <2>1, HoldFacts DEF AllocationRow
  <2>4. quotaUsed' = quotaUsed + 0 /\ 0 <= Budgets[q]
    BY <2>1, <2>2, BudgetFacts DEF NatOn
  <2> QED
    BY <2>2, <2>3, <2>4, QuotaOfEnd
<1>6. ASSUME NEW q \in DOMAIN holds, NEW c \in 0 .. (holds[q].maximum + 1), PrimaryComplete(q, c)
      PROVE  GrowsWithinQuota
  <2>1. /\ holds[q].state = "started" /\ c <= holds[q].maximum /\ quotaUsed' = quotaUsed + c
        /\ allocations' = [allocations EXCEPT ![q].spent = c, ![q].state = "closed"]
    BY <1>6 DEF PrimaryComplete
  <2>2. c \in Nat /\ q \in HeldAllocations /\ allocations[q].spent = 0 /\ allocations[q].maximum = holds[q].maximum
    BY <2>1, HoldFacts DEF HeldAllocations, Live, Inv, HoldsSound
  <2>3. /\ DOMAIN allocations' = DOMAIN allocations
        /\ \A b \in DOMAIN allocations \ {q} : allocations'[b] = allocations[b]
        /\ allocations'[q].state = "closed"
    BY <2>1, HoldFacts DEF AllocationRow
  <2>4. c <= Budgets[q]
    BY <2>1, <2>2, HoldFacts DEF Budgets
  <2> QED
    BY <2>1, <2>2, <2>3, <2>4, QuotaOfEnd
<1>7. ASSUME Next
      PROVE  \/ UNCHANGED <<allocations, quotaUsed>>
             \/ \E l \in DOMAIN issues : Issue(l)
             \/ \E q \in DOMAIN outbox : Settle(q)
             \/ \E l \in DOMAIN closes : Close(l)
             \/ \E q \in PrimaryRequests, m \in Maxima : PrimaryReserve(q, m)
             \/ \E q \in DOMAIN holds :
                  PrimaryCancel(q) \/ \E c \in 0 .. (holds[q].maximum + 1) : PrimaryComplete(q, c)
  <2>1. CASE Authority
    BY <2>1 DEF Authority, Administer, IssueRepeated, IssueExpired, SettleRepeated, CloseRepeated, TickPrimary,
                authorityVars
  <2>2. CASE Primary
    BY <2>2 DEF Primary, PrimaryStart
  <2>3. CASE Region
    BY <2>3 DEF Region, Reserve, Start, Cancel, Complete, Acknowledge, TickRegion, authorityVars
  <2>4. CASE Process
    BY <2>4 DEF Process, BeforeSend, GiveUp, CancelRefused, StartRefused, Die, authorityVars
  <2>5. CASE Worker
    BY <2>5 DEF Worker, EnsureFunds, ReplayFails, ReplayRejected, ReplayInstall, ReplayInstalled, Drain,
                LocalClose, QueueClose, CloseInstalled, ForgetAnswer, authorityVars
  <2> QED
    BY <1>7, <2>1, <2>2, <2>3, <2>4, <2>5 DEF Next
<1> QED
  BY <1>1, <1>2, <1>3, <1>4, <1>5, <1>6, <1>7, QuotaOfSettle DEF vars, authorityVars

\* No step raises what the key has used and may still come to use above the quota
\* in force (RegionalBudgetScope.Reserve and Charge).
THEOREM QuotaIsKept == Spec => QuotaGrowth
<1>1. Inv /\ [Next]_vars => GrowsWithinQuota
  BY QuotaOfStep
<1> QED
  BY <1>1, Invariance, PTL DEF Spec, QuotaGrowth, GrowsWithinQuota

-----------------------------------------------------------------------------
(* The ledger implements the wallet. *)

\* what is left of each lease, and what each primary request has taken
Rest == [l \in DOMAIN leases |-> leases[l].l.granted - leases[l].spent]

Taken == [q \in DOMAIN holds |-> holds[q].maximum]

PaidLeases == {l \in BalanceLeases : leases[l].state = "open"}

PaidHolds == {q \in DOMAIN holds : holds[q].funded /\ Live(holds[q])}

LEMMA MoneyFacts ==
  ASSUME Inv
  PROVE  /\ HeldMoney = Total(PaidLeases, Rest) + Total(PaidHolds, Taken)
         /\ Total(PaidLeases, Rest) \in Nat /\ Total(PaidHolds, Taken) \in Nat
         /\ IsFiniteSet(PaidLeases) /\ NatOn(PaidLeases, Rest)
         /\ IsFiniteSet(PaidHolds) /\ NatOn(PaidHolds, Taken)
         /\ balance \in Nat
<1>1. HeldMoney = Total(PaidLeases, Rest) + Total(PaidHolds, Taken)
  BY Zenon DEF HeldMoney, PaidLeases, PaidHolds, Rest, Taken
<1>2. IsFiniteSet(PaidLeases) /\ IsFiniteSet(PaidHolds)
  <2>1. PaidLeases \subseteq Leases /\ PaidHolds \subseteq PrimaryRequests
    BY TypeParts DEF PaidLeases, BalanceLeases, PaidHolds, AuthorityTypes, Table
  <2>2. IsFiniteSet(Leases) /\ IsFiniteSet(PrimaryRequests)
    BY LedgerAssumption
  <2> QED
    BY <2>1, <2>2, FS_Subset
<1>3. NatOn(PaidLeases, Rest)
  <2>1. ASSUME NEW l \in PaidLeases
        PROVE  Rest[l] \in Nat
    BY LeaseFacts DEF PaidLeases, BalanceLeases, Rest
  <2> QED
    BY <2>1 DEF NatOn
<1>4. NatOn(PaidHolds, Taken)
  <2>1. ASSUME NEW q \in PaidHolds
        PROVE  Taken[q] \in Nat
    BY HoldFacts DEF PaidHolds, Taken
  <2> QED
    BY <2>1 DEF NatOn
<1>5. Total(PaidLeases, Rest) \in Nat /\ Total(PaidHolds, Taken) \in Nat
  BY <1>2, <1>3, <1>4, TotalType
<1>6. balance \in Nat
  BY TypeParts DEF AuthorityTypes
<1> QED
  BY <1>1, <1>2, <1>3, <1>4, <1>5, <1>6

LEMMA MoneyNext == HeldMoney' = Total(PaidLeases', Rest') + Total(PaidHolds', Taken')
BY Zenon DEF HeldMoney, PaidLeases, PaidHolds, Rest, Taken

\* The tables a kind of money is computed from did not change.
LEMMA MoneyKept ==
  /\ UNCHANGED leases => Total(PaidLeases', Rest') = Total(PaidLeases, Rest)
  /\ UNCHANGED holds => Total(PaidHolds', Taken') = Total(PaidHolds, Taken)
<1>1. ASSUME UNCHANGED leases
      PROVE  PaidLeases' = PaidLeases /\ Rest' = Rest
  BY <1>1 DEF PaidLeases, BalanceLeases, Rest
<1>2. ASSUME UNCHANGED holds
      PROVE  PaidHolds' = PaidHolds /\ Taken' = Taken
  BY <1>2 DEF PaidHolds, Live, Taken
<1> QED
  BY <1>1, <1>2, Zenon

LEMMA ChargedDomain == DOMAIN Charged = ChargedRegion \cup ChargedPrimary
BY DEF Charged

\* No request is charged.
LEMMA ChargedKept ==
  ASSUME ChargedRegion' = ChargedRegion, ChargedPrimary' = ChargedPrimary,
         \A q \in ChargedRegion : settled'[q] = settled[q],
         \A q \in ChargedPrimary : holds'[q].charge = holds[q].charge
  PROVE  Charged' = Charged
<1>1. \A q \in ChargedRegion \cup ChargedPrimary :
        (IF q \in ChargedRegion' THEN settled'[q] ELSE holds'[q].charge)
          = (IF q \in ChargedRegion THEN settled[q] ELSE holds[q].charge)
  OBVIOUS
<1>2. Charged' = [q \in ChargedRegion \cup ChargedPrimary |->
                    IF q \in ChargedRegion' THEN settled'[q] ELSE holds'[q].charge]
  BY DEF Charged
<1> QED
  BY <1>1, <1>2 DEF Charged

\* the charges with that of b added
ChargesWith(b, c) == [x \in DOMAIN Charged \cup {b} |-> IF x = b THEN c ELSE Charged[x]]

\* The request b is charged c.
LEMMA ChargedOnce ==
  ASSUME NEW b, NEW c, b \notin ChargedRegion \cup ChargedPrimary,
         \/ /\ ChargedRegion' = ChargedRegion \cup {b} /\ ChargedPrimary' = ChargedPrimary
            /\ settled'[b] = c
         \/ /\ ChargedRegion' = ChargedRegion /\ ChargedPrimary' = ChargedPrimary \cup {b}
            /\ holds'[b].charge = c,
         \A q \in ChargedRegion : settled'[q] = settled[q],
         \A q \in ChargedPrimary : holds'[q].charge = holds[q].charge
  PROVE  Charged' = ChargesWith(b, c)
<1>1. DOMAIN Charged \cup {b} = ChargedRegion' \cup ChargedPrimary'
  BY ChargedDomain
<1>2. \A q \in ChargedRegion' \cup ChargedPrimary' :
        (IF q \in ChargedRegion' THEN settled'[q] ELSE holds'[q].charge)
          = (IF q = b THEN c ELSE Charged[q])
  BY DEF Charged
<1>3. Charged' = [q \in ChargedRegion' \cup ChargedPrimary' |->
                    IF q \in ChargedRegion' THEN settled'[q] ELSE holds'[q].charge]
  BY DEF Charged
<1> QED
  BY <1>1, <1>2, <1>3 DEF ChargesWith

\* A step of the wallet, or none.
WalletStep == [W!WalletNext]_(W!walletVars)

LEMMA WalletKept ==
  ASSUME balance' = balance, HeldMoney' = HeldMoney, Charged' = Charged
  PROVE  WalletStep
BY DEF WalletStep, W!walletVars

LEMMA WalletHolds ==
  ASSUME Inv, NEW n \in Nat, n > 0, n <= balance,
         balance' = balance - n, HeldMoney' = HeldMoney + n, Charged' = Charged
  PROVE  WalletStep
<1>1. W!Hold(n)
  BY DEF W!Hold
<1>2. n \in 1 .. balance
  BY MoneyFacts
<1> QED
  BY <1>1, <1>2 DEF WalletStep, W!WalletNext

LEMMA WalletReleases ==
  ASSUME Inv, NEW n \in Nat, n <= HeldMoney,
         balance' = balance + n, HeldMoney' = HeldMoney - n, Charged' = Charged
  PROVE  WalletStep
<1>1. HeldMoney \in Nat /\ balance \in Nat
  BY MoneyFacts
<1>2. CASE n = 0
  BY <1>1, <1>2, WalletKept
<1>3. CASE n > 0
  <2>1. W!Release(n)
    BY DEF W!Release
  <2>2. n \in 1 .. HeldMoney
    BY <1>1, <1>3
  <2> QED
    BY <2>1, <2>2 DEF WalletStep, W!WalletNext
<1> QED
  BY <1>2, <1>3

LEMMA WalletCharges ==
  ASSUME Inv, NEW b \in Requests, b \notin DOMAIN Charged, NEW n \in Nat, n <= HeldMoney, NEW c \in Nat, c <= n,
         balance' = balance + (n - c), HeldMoney' = HeldMoney - n,
         Charged' = ChargesWith(b, c)
  PROVE  WalletStep
<1>1. W!Charge(b, n, c)
  BY DEF W!Charge, ChargesWith
<1>2. n \in 0 .. HeldMoney /\ c \in 0 .. n
  BY MoneyFacts
<1> QED
  BY <1>1, <1>2 DEF WalletStep, W!WalletNext

\* The settled events keep the lease that pays for them.
LEMMA RegionChargesKept ==
  ASSUME Inv, RequestsStay, UNCHANGED settled, LeasesStay,
         \A l \in DOMAIN leases' \ DOMAIN leases : \A q \in DOMAIN requests : requests[q].lease # l
  PROVE  ChargedRegion' = ChargedRegion
<1>1. \A q \in DOMAIN settled : q \in DOMAIN requests
  BY DEF Inv, EventsSound, RequestsSound
<1>2. \A q \in DOMAIN settled : requests[q].lease \in BalanceLeases' <=> requests[q].lease \in BalanceLeases
  BY <1>1 DEF BalanceLeases, LeasesStay
<1>3. \A q \in DOMAIN settled : requests'[q].lease = requests[q].lease
  BY <1>1 DEF RequestsStay
<1> QED
  BY <1>2, <1>3 DEF ChargedRegion

LEMMA WalletIdle ==
  ASSUME Inv, UNCHANGED <<balance, leases, settled, holds>>, RequestsStay
  PROVE  WalletStep
<1>1. HeldMoney' = HeldMoney
  BY MoneyFacts, MoneyNext, MoneyKept
<1>2. ChargedRegion' = ChargedRegion /\ ChargedPrimary' = ChargedPrimary
  BY RegionChargesKept DEF LeasesStay, ChargedPrimary
<1>3. Charged' = Charged
  BY <1>2, ChargedKept
<1> QED
  BY <1>1, <1>3, WalletKept

LEMMA WalletIssue ==
  ASSUME Inv, NEW l \in DOMAIN issues, Issue(l)
  PROVE  WalletStep
<1>0. PICK n : n = issues[l].l.granted
  OBVIOUS
<1> DEFINE row == [l |-> issues[l].l, spent |-> 0, state |-> "open"]
<1>1. /\ l \notin DOMAIN leases /\ issues[l].l.mode = kind /\ (Funded => n <= balance)
      /\ balance' = (IF Funded THEN balance - n ELSE balance)
      /\ leases' = Put(leases, l, row)
      /\ UNCHANGED <<settled, holds, requests>>
  BY <1>0 DEF Issue, Affordable, regionVars
<1>2. n \in Nat /\ n > 0
  BY <1>0, IssueFacts
<1>3. row.l = issues[l].l /\ row.l.granted = n /\ row.spent = 0 /\ row.state = "open"
  BY <1>0
<1> HIDE DEF row
<1>4. /\ DOMAIN leases' = DOMAIN leases \cup {l} /\ leases'[l] = row
      /\ \A k \in DOMAIN leases : leases'[k] = leases[k]
  BY <1>1 DEF Put
<1>5. Charged' = Charged
  <2>1. ChargedRegion' = ChargedRegion
    BY <1>1, <1>4, NewLease, RegionChargesKept DEF LeasesStay, RequestsStay
  <2>2. ChargedPrimary' = ChargedPrimary
    BY <1>1 DEF ChargedPrimary
  <2> QED
    BY <1>1, <2>1, <2>2, ChargedKept
<1>6. Total(PaidHolds', Taken') = Total(PaidHolds, Taken)
  BY <1>1, MoneyKept
<1>7. \A k \in PaidLeases : Rest'[k] = Rest[k]
  BY <1>4 DEF PaidLeases, BalanceLeases, Rest
<1>8. CASE Funded
  <2>1. PaidLeases' = PaidLeases \cup {l} /\ l \notin PaidLeases
    BY <1>1, <1>3, <1>4, <1>8 DEF PaidLeases, BalanceLeases, Funded
  <2>2. Rest'[l] = n
    BY <1>2, <1>3, <1>4 DEF Rest
  <2>3. IsFiniteSet(PaidLeases) /\ NatOn(PaidLeases, Rest) /\ Rest'[l] \in Nat
    BY <1>2, <2>2, MoneyFacts
  <2>4. Total(PaidLeases \cup {l}, Rest') = Total(PaidLeases, Rest) + Rest'[l]
    BY <1>7, <2>1, <2>3, TotalAdd
  <2>5. Total(PaidLeases', Rest') = Total(PaidLeases \cup {l}, Rest')
    BY <2>1, Zenon
  <2>6. HeldMoney' = HeldMoney + n
    BY <1>2, <1>6, <2>2, <2>4, <2>5, MoneyFacts, MoneyNext
  <2>7. balance' = balance - n /\ n <= balance
    BY <1>1, <1>8
  <2> QED
    BY <1>2, <1>5, <2>6, <2>7, WalletHolds
<1>9. CASE ~ Funded
  <2>1. PaidLeases' = PaidLeases
    BY <1>1, <1>3, <1>4, <1>9 DEF PaidLeases, BalanceLeases, Funded
  <2>2. Total(PaidLeases, Rest') = Total(PaidLeases, Rest)
    BY <1>7, TotalSame
  <2>3. Total(PaidLeases', Rest') = Total(PaidLeases, Rest)
    BY <2>1, <2>2, Zenon
  <2>4. HeldMoney' = HeldMoney
    BY <1>6, <2>3, MoneyFacts, MoneyNext
  <2>5. balance' = balance
    BY <1>1, <1>9
  <2> QED
    BY <1>5, <2>4, <2>5, WalletKept
<1> QED
  BY <1>8, <1>9

LEMMA WalletSettle ==
  ASSUME Inv, NEW q \in DOMAIN outbox, Settle(q)
  PROVE  WalletStep
<1>0. PICK l, c : l = requests[q].lease /\ c = outbox[q].charge
  OBVIOUS
<1>1. /\ q \notin DOMAIN settled /\ l \in DOMAIN leases /\ leases[l].state = "open"
      /\ c <= leases[l].l.granted - leases[l].spent
      /\ leases' = [leases EXCEPT ![l].spent = @ + c] /\ settled' = Put(settled, q, c)
      /\ UNCHANGED <<balance, holds, requests>>
  BY <1>0 DEF Settle, Settleable, Unsettled, regionVars
<1>2. c \in Nat /\ q \in DOMAIN requests /\ q \notin DOMAIN holds /\ q \in Requests
  BY <1>0, EventFacts, RequestFacts DEF Requests
<1>3. /\ DOMAIN leases' = DOMAIN leases /\ \A k \in DOMAIN leases \ {l} : leases'[k] = leases[k]
      /\ leases'[l].l = leases[l].l /\ leases'[l].state = leases[l].state
      /\ leases'[l].spent = leases[l].spent + c
  BY <1>1, LeaseFacts DEF LeaseRow
<1>4. /\ DOMAIN settled' = DOMAIN settled \cup {q} /\ settled'[q] = c
      /\ \A p \in DOMAIN settled : settled'[p] = settled[p]
  BY <1>1 DEF Put
<1>5. /\ PaidLeases' = PaidLeases /\ BalanceLeases' = BalanceLeases
      /\ \A k \in PaidLeases \ {l} : Rest'[k] = Rest[k]
  <2>1. BalanceLeases' = BalanceLeases
    BY <1>3 DEF BalanceLeases
  <2>2. PaidLeases' = PaidLeases
    BY <1>3, <2>1 DEF PaidLeases, BalanceLeases
  <2>3. \A k \in PaidLeases \ {l} : Rest'[k] = Rest[k]
    BY <1>3 DEF PaidLeases, BalanceLeases, Rest
  <2> QED
    BY <2>1, <2>2, <2>3
<1>6. Total(PaidHolds', Taken') = Total(PaidHolds, Taken)
  BY <1>1, MoneyKept
<1>7. ChargedPrimary' = ChargedPrimary /\ q \notin ChargedRegion \cup ChargedPrimary
  BY <1>1, <1>2 DEF ChargedRegion, ChargedPrimary
<1>8. CASE l \in BalanceLeases
  <2>1. l \in PaidLeases
    BY <1>1, <1>8 DEF PaidLeases
  <2>2. Rest[l] = leases[l].l.granted - leases[l].spent /\ Rest'[l] = Rest[l] - c /\ Rest'[l] \in Nat /\ Rest[l] \in Nat
    BY <1>1, <1>2, <1>3, LeaseFacts DEF Rest
  <2>3. IsFiniteSet(PaidLeases) /\ NatOn(PaidLeases, Rest)
    BY MoneyFacts
  <2>4. Total(PaidLeases, Rest') = Total(PaidLeases, Rest) - Rest[l] + Rest'[l]
    BY <1>5, <2>1, <2>2, <2>3, TotalChange
  <2>5. Total(PaidLeases', Rest') = Total(PaidLeases, Rest')
    BY <1>5, Zenon
  <2>6. HeldMoney' = HeldMoney - c
    BY <1>2, <1>6, <2>2, <2>4, <2>5, MoneyFacts, MoneyNext
  <2>7. Total(PaidLeases \ {l}, Rest) = Total(PaidLeases, Rest) - Rest[l]
    BY <2>1, <2>3, TotalRemove
  <2>8. Total(PaidLeases \ {l}, Rest) \in Nat
    <3>1. IsFiniteSet(PaidLeases \ {l}) /\ NatOn(PaidLeases \ {l}, Rest)
      BY <2>3, FS_RemoveElement DEF NatOn
    <3> QED
      BY <3>1, TotalType
  <2>9. c <= HeldMoney
    BY <1>1, <1>2, <2>2, <2>7, <2>8, MoneyFacts
  <2>10. ChargedRegion' = ChargedRegion \cup {q}
    BY <1>0, <1>1, <1>4, <1>5, <1>8 DEF ChargedRegion
  <2>11. \A p \in ChargedRegion : settled'[p] = settled[p]
    BY <1>4 DEF ChargedRegion
  <2>12. Charged' = ChargesWith(q, c)
    <3>1. \A p \in ChargedPrimary : holds'[p].charge = holds[p].charge
      BY <1>1
    <3> QED
      <4>1. \/ /\ ChargedRegion' = ChargedRegion \cup {q} /\ ChargedPrimary' = ChargedPrimary
               /\ settled'[q] = c
            \/ /\ ChargedRegion' = ChargedRegion /\ ChargedPrimary' = ChargedPrimary \cup {q}
               /\ holds'[q].charge = c
        BY <1>4, <1>7, <2>10, Zenon
      <4> QED
        BY <1>7, <2>11, <3>1, <4>1, ChargedOnce, Zenon
  <2>13. q \notin DOMAIN Charged
    BY <1>7, ChargedDomain
  <2>14. balance' = balance + (c - c)
    BY <1>1, <1>2, MoneyFacts
  <2> QED
    BY <1>2, <2>6, <2>9, <2>12, <2>13, <2>14, WalletCharges
<1>9. CASE l \notin BalanceLeases
  <2>1. Total(PaidLeases, Rest') = Total(PaidLeases, Rest)
    <3>1. \A k \in PaidLeases : Rest'[k] = Rest[k]
      BY <1>5, <1>9 DEF PaidLeases
    <3> QED
      BY <3>1, TotalSame
  <2>2. Total(PaidLeases', Rest') = Total(PaidLeases, Rest)
    BY <1>5, <2>1, Zenon
  <2>3. HeldMoney' = HeldMoney
    BY <1>6, <2>2, MoneyFacts, MoneyNext
  <2>4. ChargedRegion' = ChargedRegion
    BY <1>0, <1>1, <1>4, <1>5, <1>9 DEF ChargedRegion
  <2>5. Charged' = Charged
    BY <1>1, <1>4, <1>7, <2>4, ChargedKept DEF ChargedRegion
  <2> QED
    BY <1>1, <2>3, <2>5, WalletKept
<1> QED
  BY <1>8, <1>9

LEMMA WalletClose ==
  ASSUME Inv, NEW l \in DOMAIN closes, Close(l)
  PROVE  WalletStep
<1>1. /\ l \in DOMAIN leases /\ leases[l].state = "open" /\ balance' = balance + Refund(l)
      /\ leases' = [leases EXCEPT ![l].state = "closed"]
      /\ UNCHANGED <<settled, holds, requests>>
  BY DEF Close, ReceiptAgrees, StillOpen, regionVars
<1>2. /\ DOMAIN leases' = DOMAIN leases /\ \A k \in DOMAIN leases \ {l} : leases'[k] = leases[k]
      /\ leases'[l].l = leases[l].l /\ leases'[l].state = "closed" /\ leases'[l].spent = leases[l].spent
  BY <1>1, LeaseFacts DEF LeaseRow
<1>3. Charged' = Charged
  <2>1. ChargedRegion' = ChargedRegion
    BY <1>1, <1>2, RegionChargesKept DEF LeasesStay, RequestsStay
  <2>2. ChargedPrimary' = ChargedPrimary
    BY <1>1 DEF ChargedPrimary
  <2> QED
    BY <1>1, <2>1, <2>2, ChargedKept
<1>4. Total(PaidHolds', Taken') = Total(PaidHolds, Taken)
  BY <1>1, MoneyKept
<1>5. PaidLeases' = PaidLeases \ {l} /\ \A k \in PaidLeases \ {l} : Rest'[k] = Rest[k]
  BY <1>2 DEF PaidLeases, BalanceLeases, Rest
<1>6. CASE l \in BalanceLeases
  <2>1. l \in PaidLeases
    BY <1>1, <1>6 DEF PaidLeases
  <2>2. Refund(l) = Rest[l] /\ Rest[l] \in Nat
    BY <1>1, <1>6, RefundFacts DEF Refund, Rest, BalanceLeases
  <2>3. IsFiniteSet(PaidLeases) /\ NatOn(PaidLeases, Rest)
    BY MoneyFacts
  <2>4. Total(PaidLeases \ {l}, Rest') = Total(PaidLeases, Rest) - Rest[l]
    BY <1>5, <2>1, <2>3, TotalRemove
  <2>5. Total(PaidLeases', Rest') = Total(PaidLeases \ {l}, Rest')
    BY <1>5, Zenon
  <2>6. Total(PaidLeases \ {l}, Rest') \in Nat
    <3>1. IsFiniteSet(PaidLeases \ {l}) /\ NatOn(PaidLeases \ {l}, Rest')
      BY <1>5, <2>3, FS_RemoveElement DEF NatOn
    <3> QED
      BY <3>1, TotalType
  <2>7. HeldMoney' = HeldMoney - Refund(l) /\ Refund(l) <= HeldMoney /\ Refund(l) \in Nat
    BY <1>4, <2>2, <2>4, <2>5, <2>6, MoneyFacts, MoneyNext
  <2> QED
    BY <1>1, <1>3, <2>7, WalletReleases
<1>7. CASE l \notin BalanceLeases
  <2>1. Refund(l) = 0
    BY <1>1, <1>7 DEF Refund, BalanceLeases
  <2>2. PaidLeases' = PaidLeases /\ \A k \in PaidLeases : Rest'[k] = Rest[k]
    BY <1>5, <1>7 DEF PaidLeases
  <2>3. Total(PaidLeases, Rest') = Total(PaidLeases, Rest)
    BY <2>2, TotalSame
  <2>4. Total(PaidLeases', Rest') = Total(PaidLeases, Rest)
    BY <2>2, <2>3, Zenon
  <2>5. HeldMoney' = HeldMoney
    BY <1>4, <2>4, MoneyFacts, MoneyNext
  <2>6. balance' = balance
    BY <1>1, <2>1, MoneyFacts
  <2> QED
    BY <1>3, <2>5, <2>6, WalletKept
<1> QED
  BY <1>6, <1>7

LEMMA WalletReserve ==
  ASSUME Inv, NEW q \in PrimaryRequests, NEW m \in Maxima, PrimaryReserve(q, m)
  PROVE  WalletStep
<1> DEFINE row == [maximum |-> m, state |-> "reserved", funded |-> Funded, charge |-> 0]
<1>1. /\ q \notin DOMAIN holds /\ (Funded => m <= balance)
      /\ balance' = (IF Funded THEN balance - m ELSE balance)
      /\ holds' = Put(holds, q, row)
      /\ UNCHANGED <<leases, settled, requests>>
  BY DEF PrimaryReserve, Affordable, regionVars
<1>2. m \in Nat /\ m > 0
  BY Positive
<1>3. row.maximum = m /\ row.state = "reserved" /\ row.funded = Funded
  OBVIOUS
<1> HIDE DEF row
<1>4. /\ DOMAIN holds' = DOMAIN holds \cup {q} /\ holds'[q] = row
      /\ \A p \in DOMAIN holds : holds'[p] = holds[p]
  BY <1>1 DEF Put
<1>5. Charged' = Charged
  <2>1. ChargedRegion' = ChargedRegion
    BY <1>1, RegionChargesKept DEF LeasesStay, RequestsStay
  <2>2. ChargedPrimary' = ChargedPrimary
    BY <1>1, <1>3, <1>4 DEF ChargedPrimary
  <2>3. \A p \in ChargedPrimary : holds'[p].charge = holds[p].charge
    BY <1>4 DEF ChargedPrimary
  <2>4. \A p \in ChargedRegion : settled'[p] = settled[p]
    BY <1>1
  <2> QED
    BY <2>1, <2>2, <2>3, <2>4, ChargedKept
<1>6. Total(PaidLeases', Rest') = Total(PaidLeases, Rest)
  BY <1>1, MoneyKept
<1>7. \A p \in PaidHolds : Taken'[p] = Taken[p]
  BY <1>4 DEF PaidHolds, Taken
<1>8. CASE Funded
  <2>1. PaidHolds' = PaidHolds \cup {q} /\ q \notin PaidHolds
    BY <1>1, <1>3, <1>4, <1>8 DEF PaidHolds, Live
  <2>2. Taken'[q] = m
    BY <1>3, <1>4 DEF Taken
  <2>3. IsFiniteSet(PaidHolds) /\ NatOn(PaidHolds, Taken) /\ Taken'[q] \in Nat
    BY <1>2, <2>2, MoneyFacts
  <2>4. Total(PaidHolds \cup {q}, Taken') = Total(PaidHolds, Taken) + Taken'[q]
    BY <1>7, <2>1, <2>3, TotalAdd
  <2>5. Total(PaidHolds', Taken') = Total(PaidHolds \cup {q}, Taken')
    BY <2>1, Zenon
  <2>6. HeldMoney' = HeldMoney + m
    BY <1>2, <1>6, <2>2, <2>4, <2>5, MoneyFacts, MoneyNext
  <2>7. balance' = balance - m /\ m <= balance
    BY <1>1, <1>8
  <2> QED
    BY <1>2, <1>5, <2>6, <2>7, WalletHolds
<1>9. CASE ~ Funded
  <2>1. PaidHolds' = PaidHolds
    BY <1>1, <1>3, <1>4, <1>9 DEF PaidHolds, Live
  <2>2. Total(PaidHolds, Taken') = Total(PaidHolds, Taken)
    BY <1>7, TotalSame
  <2>3. Total(PaidHolds', Taken') = Total(PaidHolds, Taken)
    BY <2>1, <2>2, Zenon
  <2>4. HeldMoney' = HeldMoney
    BY <1>6, <2>3, MoneyFacts, MoneyNext
  <2>5. balance' = balance
    BY <1>1, <1>9
  <2> QED
    BY <1>5, <2>4, <2>5, WalletKept
<1> QED
  BY <1>8, <1>9

LEMMA WalletStart ==
  ASSUME Inv, NEW q \in DOMAIN holds, PrimaryStart(q)
  PROVE  WalletStep
<1> DEFINE row == [holds[q] EXCEPT !.state = "started"]
<1>1. /\ holds[q].state = "reserved" /\ holds' = [holds EXCEPT ![q] = row]
      /\ UNCHANGED <<balance, leases, settled, requests>>
  BY DEF PrimaryStart, regionVars
<1>2. /\ row.state = "started" /\ row.maximum = holds[q].maximum /\ row.funded = holds[q].funded
      /\ row.charge = holds[q].charge
  BY HoldFacts DEF HoldRow
<1> HIDE DEF row
<1>3. DOMAIN holds' = DOMAIN holds /\ holds'[q] = row /\ \A p \in DOMAIN holds \ {q} : holds'[p] = holds[p]
  BY <1>1
<1>4. \A p \in DOMAIN holds :
        /\ holds'[p].maximum = holds[p].maximum /\ holds'[p].charge = holds[p].charge
        /\ holds'[p].funded = holds[p].funded /\ (Live(holds'[p]) <=> Live(holds[p]))
        /\ holds'[p].state = "completed" <=> holds[p].state = "completed"
  BY <1>1, <1>2, <1>3 DEF Live
<1>5. PaidHolds' = PaidHolds /\ Taken' = Taken
  BY <1>3, <1>4 DEF PaidHolds, Taken
<1>6. HeldMoney' = HeldMoney
  <2>1. Total(PaidHolds', Taken') = Total(PaidHolds, Taken)
    BY <1>5, Zenon
  <2> QED
    BY <1>1, <2>1, MoneyKept, MoneyFacts, MoneyNext
<1>7. Charged' = Charged
  <2>1. ChargedRegion' = ChargedRegion
    BY <1>1, RegionChargesKept DEF LeasesStay, RequestsStay
  <2>2. ChargedPrimary' = ChargedPrimary
    BY <1>3, <1>4 DEF ChargedPrimary
  <2>3. \A p \in ChargedPrimary : holds'[p].charge = holds[p].charge
    BY <1>4 DEF ChargedPrimary
  <2>4. \A p \in ChargedRegion : settled'[p] = settled[p]
    BY <1>1
  <2> QED
    BY <2>1, <2>2, <2>3, <2>4, ChargedKept
<1> QED
  BY <1>1, <1>6, <1>7, WalletKept

\* The money taken by a request of the primary site is no longer held when it ends.
LEMMA HoldEnds ==
  ASSUME Inv, NEW q \in DOMAIN holds, Live(holds[q]), UNCHANGED leases,
         DOMAIN holds' = DOMAIN holds, \A p \in DOMAIN holds \ {q} : holds'[p] = holds[p],
         ~ Live(holds'[q])
  PROVE  /\ HeldMoney' = HeldMoney - Returned(q, holds[q].maximum)
         /\ Returned(q, holds[q].maximum) \in Nat
         /\ Returned(q, holds[q].maximum) <= HeldMoney
<1>1. Total(PaidLeases', Rest') = Total(PaidLeases, Rest)
  BY MoneyKept
<1>2. PaidHolds' = PaidHolds \ {q} /\ \A p \in PaidHolds \ {q} : Taken'[p] = Taken[p]
  BY DEF PaidHolds, Taken
<1>3. IsFiniteSet(PaidHolds) /\ NatOn(PaidHolds, Taken)
  BY MoneyFacts
<1>4. CASE holds[q].funded
  <2>1. q \in PaidHolds /\ Taken[q] = Returned(q, holds[q].maximum)
    BY <1>4 DEF PaidHolds, Taken, Returned
  <2>2. Total(PaidHolds \ {q}, Taken') = Total(PaidHolds, Taken) - Taken[q]
    BY <1>2, <1>3, <2>1, TotalRemove
  <2>3. Total(PaidHolds', Taken') = Total(PaidHolds \ {q}, Taken')
    BY <1>2, Zenon
  <2>4. Total(PaidHolds \ {q}, Taken') \in Nat
    <3>1. IsFiniteSet(PaidHolds \ {q}) /\ NatOn(PaidHolds \ {q}, Taken')
      BY <1>2, <1>3, FS_RemoveElement DEF NatOn
    <3> QED
      BY <3>1, TotalType
  <2>5. Taken[q] \in Nat
    BY <1>3, <2>1 DEF NatOn
  <2> QED
    BY <1>1, <2>1, <2>2, <2>3, <2>4, <2>5, MoneyFacts, MoneyNext
<1>5. CASE ~ holds[q].funded
  <2>1. PaidHolds' = PaidHolds /\ \A p \in PaidHolds : Taken'[p] = Taken[p]
    BY <1>2, <1>5 DEF PaidHolds
  <2>2. Total(PaidHolds, Taken') = Total(PaidHolds, Taken)
    BY <2>1, TotalSame
  <2>3. Total(PaidHolds', Taken') = Total(PaidHolds, Taken)
    BY <2>1, <2>2, Zenon
  <2>4. Returned(q, holds[q].maximum) = 0
    BY <1>5 DEF Returned
  <2> QED
    BY <1>1, <2>3, <2>4, MoneyFacts, MoneyNext
<1> QED
  BY <1>4, <1>5

LEMMA WalletCancel ==
  ASSUME Inv, NEW q \in DOMAIN holds, PrimaryCancel(q)
  PROVE  WalletStep
<1> DEFINE row == [holds[q] EXCEPT !.state = "canceled"]
<1>1. /\ holds[q].state = "reserved" /\ holds' = [holds EXCEPT ![q] = row]
      /\ balance' = balance + Returned(q, holds[q].maximum)
      /\ UNCHANGED <<leases, settled, requests>>
  BY DEF PrimaryCancel, Cancelable, regionVars
<1>2. row.state = "canceled"
  BY HoldFacts DEF HoldRow
<1> HIDE DEF row
<1>3. /\ DOMAIN holds' = DOMAIN holds /\ holds'[q] = row /\ \A p \in DOMAIN holds \ {q} : holds'[p] = holds[p]
      /\ Live(holds[q]) /\ ~ Live(holds'[q])
  BY <1>1, <1>2 DEF Live
<1>4. /\ HeldMoney' = HeldMoney - Returned(q, holds[q].maximum)
      /\ Returned(q, holds[q].maximum) \in Nat /\ Returned(q, holds[q].maximum) <= HeldMoney
  BY <1>1, <1>3, HoldEnds
<1>5. Charged' = Charged
  <2>1. ChargedRegion' = ChargedRegion
    BY <1>1, RegionChargesKept DEF LeasesStay, RequestsStay
  <2>2. q \notin ChargedPrimary /\ ChargedPrimary' = ChargedPrimary
    BY <1>1, <1>2, <1>3 DEF ChargedPrimary
  <2>3. \A p \in ChargedPrimary : holds'[p].charge = holds[p].charge
    BY <1>3, <2>2 DEF ChargedPrimary
  <2>4. \A p \in ChargedRegion : settled'[p] = settled[p]
    BY <1>1
  <2> QED
    BY <2>1, <2>2, <2>3, <2>4, ChargedKept
<1> QED
  BY <1>1, <1>4, <1>5, WalletReleases

LEMMA WalletComplete ==
  ASSUME Inv, NEW q \in DOMAIN holds, NEW c \in 0 .. (holds[q].maximum + 1), PrimaryComplete(q, c)
  PROVE  WalletStep
<1> DEFINE row == [holds[q] EXCEPT !.state = "completed", !.charge = c]
<1>1. /\ holds[q].state = "started" /\ c <= holds[q].maximum
      /\ holds' = [holds EXCEPT ![q] = row]
      /\ balance' = balance + Returned(q, holds[q].maximum - c)
      /\ UNCHANGED <<leases, settled, requests>>
  BY DEF PrimaryComplete, regionVars
<1>2. row.state = "completed" /\ row.charge = c /\ row.funded = holds[q].funded
  BY HoldFacts DEF HoldRow
<1> HIDE DEF row
<1>3. /\ DOMAIN holds' = DOMAIN holds /\ holds'[q] = row /\ \A p \in DOMAIN holds \ {q} : holds'[p] = holds[p]
      /\ Live(holds[q]) /\ ~ Live(holds'[q])
  BY <1>1, <1>2 DEF Live
<1>4. c \in Nat /\ holds[q].maximum \in Nat /\ q \in Requests /\ q \notin RegionRequests
  BY HoldFacts
<1>5. /\ HeldMoney' = HeldMoney - Returned(q, holds[q].maximum)
      /\ Returned(q, holds[q].maximum) <= HeldMoney
  BY <1>1, <1>3, HoldEnds
<1>6. ChargedRegion' = ChargedRegion /\ q \notin ChargedRegion \cup ChargedPrimary
  <2>1. ChargedRegion' = ChargedRegion
    BY <1>1, RegionChargesKept DEF LeasesStay, RequestsStay
  <2>2. q \notin DOMAIN settled
    BY <1>4, TypeParts DEF AuthorityTypes, Table
  <2> QED
    BY <1>1, <2>1, <2>2 DEF ChargedRegion, ChargedPrimary
<1>7. /\ \A p \in ChargedPrimary : holds'[p].charge = holds[p].charge
      /\ \A p \in ChargedRegion : settled'[p] = settled[p]
  BY <1>1, <1>3, <1>6 DEF ChargedPrimary
<1>8. CASE holds[q].funded
  <2>1. /\ Returned(q, holds[q].maximum) = holds[q].maximum
        /\ Returned(q, holds[q].maximum - c) = holds[q].maximum - c
    BY <1>8 DEF Returned
  <2>2. ChargedPrimary' = ChargedPrimary \cup {q} /\ holds'[q].charge = c
    BY <1>2, <1>3, <1>8 DEF ChargedPrimary
  <2>3. Charged' = ChargesWith(q, c)
    BY <1>6, <1>7, <2>2, ChargedOnce
  <2>4. q \notin DOMAIN Charged
    BY <1>6, ChargedDomain
  <2> QED
    BY <1>1, <1>4, <1>5, <2>1, <2>3, <2>4, WalletCharges
<1>9. CASE ~ holds[q].funded
  <2>1. Returned(q, holds[q].maximum) = 0 /\ Returned(q, holds[q].maximum - c) = 0
    BY <1>9 DEF Returned
  <2>2. ChargedPrimary' = ChargedPrimary
    BY <1>2, <1>3, <1>9 DEF ChargedPrimary
  <2>3. Charged' = Charged
    BY <1>6, <1>7, <2>2, ChargedKept
  <2>4. HeldMoney' = HeldMoney /\ balance' = balance
    BY <1>1, <1>5, <2>1, MoneyFacts
  <2> QED
    BY <2>3, <2>4, WalletKept
<1> QED
  BY <1>8, <1>9

LEMMA WalletOfStep ==
  ASSUME Inv, [Next]_vars
  PROVE  WalletStep
<1>1. CASE UNCHANGED <<balance, leases, settled, holds>> /\ RequestsStay
  BY <1>1, WalletIdle
<1>2. ASSUME Next
      PROVE  \/ UNCHANGED <<balance, leases, settled, holds>> /\ RequestsStay
             \/ \E l \in DOMAIN issues : Issue(l)
             \/ \E q \in DOMAIN outbox : Settle(q)
             \/ \E l \in DOMAIN closes : Close(l)
             \/ \E q \in PrimaryRequests, m \in Maxima : PrimaryReserve(q, m)
             \/ \E q \in DOMAIN holds :
                  \/ PrimaryStart(q) \/ PrimaryCancel(q)
                  \/ \E c \in 0 .. (holds[q].maximum + 1) : PrimaryComplete(q, c)
  <2>0. UNCHANGED requests => RequestsStay
    BY DEF RequestsStay
  <2>1. CASE Authority
    BY <2>0, <2>1 DEF Authority, Administer, IssueRepeated, IssueExpired, SettleRepeated, CloseRepeated, TickPrimary,
                authorityVars, regionVars
  <2>2. CASE Primary
    BY <2>2 DEF Primary
  <2>3. CASE Region
    <3>1. UNCHANGED <<balance, leases, settled, holds>>
      BY <2>3 DEF Region, Reserve, Start, Cancel, Complete, Acknowledge, TickRegion, authorityVars
    <3>2. ASSUME NEW q \in RegionRequests, NEW l \in Leases, NEW m \in Maxima, Reserve(q, l, m)
          PROVE  RequestsStay
      BY <3>2 DEF Reserve, Put, RequestsStay
    <3>3. ASSUME NEW q \in DOMAIN requests, NEW st \in {"started", "canceled", "completed"},
                 requests' = [requests EXCEPT ![q].state = st]
          PROVE  RequestsStay
      BY <3>3, RequestFacts DEF RequestRow, RequestsStay
    <3>4. ASSUME NEW q \in DOMAIN requests, Start(q) \/ Cancel(q) \/ \E c \in 0 .. (requests[q].maximum + 1) : Complete(q, c)
          PROVE  RequestsStay
      BY <3>3, <3>4 DEF Start, Cancel, Complete
    <3>5. ASSUME (\E q \in DOMAIN outbox : Acknowledge(q)) \/ \E r \in Regions : TickRegion(r)
          PROVE  RequestsStay
      BY <2>0, <3>5 DEF Acknowledge, TickRegion
    <3> QED
      BY <2>3, <3>1, <3>2, <3>4, <3>5 DEF Region
  <2>4. CASE Process
    BY <2>0, <2>4 DEF Process, BeforeSend, GiveUp, CancelRefused, StartRefused, Die, authorityVars, regionVars
  <2>5. CASE Worker
    BY <2>0, <2>5 DEF Worker, EnsureFunds, ReplayFails, ReplayRejected, ReplayInstall, ReplayInstalled, Drain,
                LocalClose, QueueClose, CloseInstalled, ForgetAnswer, authorityVars, regionVars
  <2> QED
    BY <1>2, <2>1, <2>2, <2>3, <2>4, <2>5 DEF Next
<1>3. UNCHANGED vars => UNCHANGED <<balance, leases, settled, holds>> /\ RequestsStay
  BY DEF vars, authorityVars, regionVars, RequestsStay
<1> QED
  BY <1>1, <1>2, <1>3, WalletIssue, WalletSettle, WalletClose, WalletReserve, WalletStart, WalletCancel,
     WalletComplete

LEMMA WalletStarts == Init => W!WalletInit
<1> SUFFICES ASSUME Init PROVE W!WalletInit
  OBVIOUS
<1>1. /\ balance = Deposit /\ leases = Empty /\ settled = Empty /\ holds = Empty
  BY DEF Init
<1>2. DOMAIN leases = {} /\ DOMAIN settled = {} /\ DOMAIN holds = {}
  BY <1>1 DEF Empty
<1>3. PaidLeases = {} /\ PaidHolds = {}
  BY <1>2 DEF PaidLeases, BalanceLeases, PaidHolds
<1>4. Total(PaidLeases, Rest) = 0 /\ Total(PaidHolds, Taken) = 0
  BY <1>3, TotalEmpty, Zenon
<1>5. HeldMoney = Total(PaidLeases, Rest) + Total(PaidHolds, Taken)
  BY Zenon DEF HeldMoney, PaidLeases, PaidHolds, Rest, Taken
<1>6. ChargedRegion \cup ChargedPrimary = {}
  BY <1>2 DEF ChargedRegion, ChargedPrimary
<1>7. Charged = [b \in {} |-> 0]
  BY <1>6 DEF Charged
<1> QED
  BY <1>1, <1>4, <1>5, <1>7 DEF W!WalletInit

\* Across sites, leases, retries and lost answers the ledger is a wallet: money is
\* taken from the balance before it is used, a request is charged at most once, and
\* the rest comes back exactly once (primary.go, primary_requests.go).
THEOREM LedgerIsAWallet == Spec => ImplementsWallet
<1>1. Init => W!WalletInit
  BY WalletStarts
<1>2. Inv /\ [Next]_vars => [W!WalletNext]_(W!walletVars)
  BY WalletOfStep DEF WalletStep
<1> QED
  BY <1>1, <1>2, Invariance, PTL DEF Spec, ImplementsWallet, W!WalletSpec
=============================================================================

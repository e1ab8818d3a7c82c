------------------------- MODULE RegionalSlotsProofs -------------------------
(***************************************************************************)
(* The safety of the shared slots, for any number of regions, leases and   *)
(* requests and any limits: the accounting is exact, everything in flight  *)
(* is backed by an allocation, and capacity returns only when idle.        *)
(***************************************************************************)
EXTENDS RegionalSlots, PileTheorems, TLAPS

\* The authority has allocated g, perhaps with later terms by now.
Granted(g) ==
  /\ g.id \in DOMAIN grants
  /\ sameIdentity(g, grants[g.id].g)
  /\ g.revision <= grants[g.id].g.revision
  /\ g.expiresAt <= grants[g.id].g.expiresAt

\* Every row carries the key it is stored under.
RowsKeyed ==
  /\ \A l \in DOMAIN grants : grants[l].g.id = l
  /\ \A l \in DOMAIN localGrants : localGrants[l].g.id = l
  /\ \A k \in DOMAIN operations : Key(operations[k].g) = k

\* What travels is what was persisted, and what was confirmed is granted.
WirePersisted ==
  /\ \A m \in wire : /\ Key(m.g) \in DOMAIN operations
                     /\ operations[Key(m.g)].op = m.op
                     /\ operations[Key(m.g)].g = m.g
  /\ \A k \in DOMAIN operations :
        calls[k] \in {"ok", "stored"} => Granted(operations[k].g)

LocalGranted == \A l \in DOMAIN localGrants : Granted(localGrants[l].g)

Bound == \A h \in DOMAIN localSlots : localSlots[h].lease \in DOMAIN localGrants

\* A receipt, and a grant closed on the authority, speak of a lease that the
\* region has closed with nothing in flight.
Finished(l) ==
  /\ l \in DOMAIN localGrants
  /\ localGrants[l].state = "closed"
  /\ localGrants[l].used = 0

ClosedFinished ==
  /\ \A c \in receipts : Finished(c.lease)
  /\ \A l \in DOMAIN grants : grants[l].state = "closed" => Finished(l)

Budget == BudgetExact /\ IsFiniteSet(LeasedSlots)

\* The inductive invariant.
IInv ==
  /\ TypeOK
  /\ RowsKeyed
  /\ WirePersisted
  /\ LocalGranted
  /\ Bound
  /\ UsedExact
  /\ ClosedFinished
  /\ CancelledHoldsNothing
  /\ Budget

-----------------------------------------------------------------------------

LEMMA InitIInv == Init => IInv
<1> SUFFICES ASSUME Init PROVE IInv
  OBVIOUS
<1> USE SlotsAssumption DEF Init, Empty
<1>1. TypeOK
  BY DEF TypeOK
<1>2. RowsKeyed /\ WirePersisted /\ LocalGranted /\ Bound /\ UsedExact /\ ClosedFinished
  BY DEF RowsKeyed, WirePersisted, LocalGranted, Bound, UsedExact, ClosedFinished
<1>3. CancelledHoldsNothing
  BY DEF CancelledHoldsNothing, HeldRegional
<1>4. HeldPrimary = {} /\ LeasedSlots = {}
  BY PileMember DEF HeldPrimary, LeasedSlots, LiveGrants
<1>5. Budget
  BY <1>4, FS_EmptySet DEF Budget, BudgetExact
<1> QED
  BY <1>1, <1>2, <1>3, <1>5 DEF IInv

\* The terms of a grant are natural numbers.
LEMMA GrantNumbers ==
  ASSUME NEW g \in Grant
  PROVE  /\ g.slots \in Nat /\ g.revision \in Nat /\ g.expiresAt \in Nat
         /\ g.id \in Leases /\ g.region \in Regions
BY SlotsAssumption DEF Grant

\* Requests in flight are finite sets.
LEMMA FiniteHeld ==
  ASSUME TypeOK
  PROVE  /\ IsFiniteSet(HeldPrimary)
         /\ IsFiniteSet(HeldRegional)
         /\ \A l : IsFiniteSet(HeldBy(l))
<1>1. IsFiniteSet(Regions \X RegionRequests)
  BY SlotsAssumption, FS_Product
<1>2. HeldPrimary \subseteq PrimaryRequests /\ HeldRegional \subseteq Regions \X RegionRequests
  BY DEF TypeOK, HeldPrimary, HeldRegional
<1>3. \A l : HeldBy(l) \subseteq HeldRegional
  BY DEF HeldBy
<1>4. IsFiniteSet(HeldPrimary) /\ IsFiniteSet(HeldRegional)
  BY <1>1, <1>2, SlotsAssumption, FS_Subset
<1> QED
  BY <1>3, <1>4, FS_Subset

-----------------------------------------------------------------------------
(* What a step leaves alone *)

\* A part of the invariant holds after a step that touches none of its variables.
LEMMA Kept ==
  ASSUME IInv
  PROVE  /\ UNCHANGED <<grants, localGrants, operations>> => RowsKeyed'
         /\ UNCHANGED <<grants, operations, calls, wire>> => WirePersisted'
         /\ UNCHANGED <<grants, localGrants>> => LocalGranted'
         /\ UNCHANGED <<localGrants, localSlots>> => Bound' /\ UsedExact'
         /\ UNCHANGED <<localSlots, cancellations>> => CancelledHoldsNothing'
         /\ UNCHANGED <<grants, localGrants, receipts>> => ClosedFinished'
         /\ UNCHANGED <<primaryUsed, granted, primarySlots, grants>> => Budget'
<1>1. UNCHANGED <<grants, localGrants, operations>> => RowsKeyed'
  BY DEF IInv, RowsKeyed, Key
<1>2. UNCHANGED <<grants, operations, calls, wire>> => WirePersisted'
  BY DEF IInv, WirePersisted, Key, Granted
<1>3. UNCHANGED <<grants, localGrants>> => LocalGranted'
  BY DEF IInv, LocalGranted, Granted
<1>4. UNCHANGED <<localGrants, localSlots>> => Bound' /\ UsedExact'
  BY DEF IInv, Bound, UsedExact, HeldBy, HeldRegional
<1>5. UNCHANGED <<localSlots, cancellations>> => CancelledHoldsNothing'
  BY DEF IInv, CancelledHoldsNothing, HeldRegional
<1>6. UNCHANGED <<grants, localGrants, receipts>> => ClosedFinished'
  BY DEF IInv, ClosedFinished, Finished
<1>7. UNCHANGED <<primaryUsed, granted, primarySlots, grants>> => Budget'
  BY DEF IInv, Budget, BudgetExact, HeldPrimary, LeasedSlots, LiveGrants
<1> QED
  BY <1>1, <1>2, <1>3, <1>4, <1>5, <1>6, <1>7

\* Grants of the authority are never withdrawn and their terms only improve.
GrantsGrow ==
  \A l \in DOMAIN grants :
    /\ l \in DOMAIN grants'
    /\ sameIdentity(grants[l].g, grants'[l].g)
    /\ grants[l].g.revision <= grants'[l].g.revision
    /\ grants[l].g.expiresAt <= grants'[l].g.expiresAt

\* What was granted once stays granted.
LEMMA GrantedStays ==
  ASSUME TypeOK, TypeOK', GrantsGrow
  PROVE  \A g \in Grant : Granted(g) => Granted(g)'
<1> SUFFICES ASSUME NEW g \in Grant, Granted(g) PROVE Granted(g)'
  OBVIOUS
<1>1. g.id \in DOMAIN grants /\ g.id \in DOMAIN grants'
  BY DEF Granted, GrantsGrow
<1>2. grants[g.id].g \in Grant /\ grants'[g.id].g \in Grant
  BY <1>1 DEF TypeOK
<1>3. /\ sameIdentity(g, grants[g.id].g) /\ sameIdentity(grants[g.id].g, grants'[g.id].g)
      /\ g.revision <= grants[g.id].g.revision
      /\ grants[g.id].g.revision <= grants'[g.id].g.revision
      /\ g.expiresAt <= grants[g.id].g.expiresAt
      /\ grants[g.id].g.expiresAt <= grants'[g.id].g.expiresAt
  BY <1>1 DEF Granted, GrantsGrow
<1>4. g.revision <= grants'[g.id].g.revision /\ g.expiresAt <= grants'[g.id].g.expiresAt
  BY <1>2, <1>3, GrantNumbers
<1>5. sameIdentity(g, grants'[g.id].g)
  BY <1>3 DEF sameIdentity
<1> QED
  BY <1>1, <1>4, <1>5 DEF Granted

\* Hence the region's grants and confirmed operations stay backed.
LEMMA BackedStays ==
  ASSUME IInv, TypeOK', GrantsGrow
  PROVE  /\ UNCHANGED localGrants => LocalGranted'
         /\ UNCHANGED <<operations, calls, wire>> => WirePersisted'
<1>0. \A g \in Grant : Granted(g) => Granted(g)'
  BY GrantedStays DEF IInv
<1>1. ASSUME UNCHANGED localGrants PROVE LocalGranted'
  <2>1. \A l \in DOMAIN localGrants : localGrants[l].g \in Grant
    BY DEF IInv, TypeOK
  <2> QED
    BY <1>0, <1>1, <2>1 DEF IInv, LocalGranted
<1>2. ASSUME UNCHANGED <<operations, calls, wire>> PROVE WirePersisted'
  <2>1. \A k \in DOMAIN operations : operations[k].g \in Grant
    BY DEF IInv, TypeOK
  <2> QED
    BY <1>0, <1>2, <2>1 DEF IInv, WirePersisted, Key
<1> QED
  BY <1>1, <1>2

\* The slots leased out are the same when neither the live grants nor their
\* capacities change.
LEMMA LeasedSame ==
  ASSUME LiveGrants' = LiveGrants, DOMAIN grants' = DOMAIN grants,
         \A l \in DOMAIN grants : grants'[l].g.slots = grants[l].g.slots
  PROVE  LeasedSlots' = LeasedSlots
<1> DEFINE f == [l \in DOMAIN grants |-> grants[l].g.slots]
           h == [l \in DOMAIN grants' |-> grants'[l].g.slots]
<1>1. h = f
  OBVIOUS
<1> QED
  BY <1>1 DEF LeasedSlots

\* A message on the wire is a grant that was persisted.
LEMMA WireType ==
  ASSUME IInv, NEW m \in wire
  PROVE  /\ m.g \in Grant
         /\ Key(m.g) \in DOMAIN operations
         /\ operations[Key(m.g)].g = m.g
BY DEF IInv, TypeOK, WirePersisted

\* An answer touches the call of its own operation and nothing else.
LEMMA AnswerEffect ==
  ASSUME NEW m, NEW status, Answer(m, status)
  PROVE  /\ DOMAIN calls' = DOMAIN calls
         /\ \A k \in DOMAIN calls :
              calls'[k] = calls[k] \/ (k = Key(m.g) /\ calls'[k] = status)
         /\ UNCHANGED <<operations, wire, receipts>>
<1>1. CASE UNCHANGED calls
  BY <1>1 DEF Answer
<1>2. CASE calls' = [calls EXCEPT ![Key(m.g)] = status]
  BY <1>2 DEF Answer
<1> QED
  BY <1>1, <1>2 DEF Answer

LEMMA AnswerType ==
  ASSUME IInv, NEW m \in wire, NEW status \in {"ok", "gone"}, Answer(m, status)
  PROVE  /\ DOMAIN calls' = DOMAIN operations'
         /\ \A k \in DOMAIN calls' : calls'[k] \in {"idle", "ok", "gone", "stored"}
         /\ UNCHANGED <<operations, wire, receipts>>
BY AnswerEffect DEF IInv, TypeOK

\* Only what is granted is answered with success.
LEMMA AnswerBacked ==
  ASSUME IInv, TypeOK', GrantsGrow, NEW m \in wire, NEW status \in {"ok", "gone"},
         Answer(m, status), status = "ok" => Granted(m.g)'
  PROVE  WirePersisted'
<1>1. \A g \in Grant : Granted(g) => Granted(g)'
  BY GrantedStays DEF IInv
<1>2. /\ \A k \in DOMAIN operations : operations[k].g \in Grant
      /\ DOMAIN calls = DOMAIN operations
  BY DEF IInv, TypeOK
<1>3. ASSUME NEW k \in DOMAIN operations, calls'[k] \in {"ok", "stored"}
      PROVE  Granted(operations[k].g)'
  <2>1. UNCHANGED operations
    BY AnswerEffect
  <2>2. CASE calls'[k] = calls[k]
    BY <1>1, <1>2, <1>3, <2>1, <2>2 DEF IInv, WirePersisted
  <2>3. CASE k = Key(m.g) /\ calls'[k] = status
    BY <1>3, <2>1, <2>3, WireType
  <2> QED
    BY <1>2, <2>2, <2>3, AnswerEffect
<1>4. UNCHANGED <<operations, wire>>
  BY AnswerEffect
<1> QED
  BY <1>3, <1>4 DEF IInv, WirePersisted, Key

-----------------------------------------------------------------------------
(* One lemma per action: the authority *)

LEMMA SetLimitStep ==
  ASSUME IInv, NEW n \in Limits, SetLimit(n)
  PROVE  IInv'
<1>1. TypeOK'
  BY DEF IInv, TypeOK, SetLimit, regionVars, brokerVars
<1> QED
  BY <1>1, Kept DEF IInv, SetLimit, regionVars, brokerVars

LEMMA TickPrimaryStep ==
  ASSUME IInv, TickPrimary
  PROVE  IInv'
<1>1. TypeOK'
  BY DEF IInv, TypeOK, TickPrimary, regionVars, brokerVars
<1> QED
  BY <1>1, Kept DEF IInv, TickPrimary, regionVars, brokerVars

LEMMA PrimaryAcquireStep ==
  ASSUME IInv, NEW q \in PrimaryRequests, PrimaryAcquire(q)
  PROVE  IInv'
<1>1. TypeOK'
  BY DEF IInv, TypeOK, PrimaryAcquire, Unknown, Put, regionVars, brokerVars
<1>2. Budget'
  <2>1. HeldPrimary' = HeldPrimary \cup {q} /\ q \notin HeldPrimary
    BY DEF HeldPrimary, PrimaryAcquire, Unknown, Put
  <2>2. Cardinality(HeldPrimary') = Cardinality(HeldPrimary) + 1
    BY <2>1, FiniteHeld, FS_AddElement DEF IInv
  <2> QED
    BY <2>2 DEF IInv, Budget, BudgetExact, LeasedSlots, LiveGrants, PrimaryAcquire
<1> QED
  BY <1>1, <1>2, Kept DEF IInv, PrimaryAcquire, regionVars, brokerVars

LEMMA PrimaryReleaseStep ==
  ASSUME IInv, NEW q \in PrimaryRequests, PrimaryRelease(q)
  PROVE  IInv'
<1>1. q \in HeldPrimary <=> HoldsPrimary(q)
  BY DEF HeldPrimary, HoldsPrimary
<1>2. primaryUsed' \in Nat
  <2>1. CASE HoldsPrimary(q)
    <3>1. Cardinality(HeldPrimary) # 0
      BY <1>1, <2>1, FiniteHeld, FS_EmptySet DEF IInv
    <3>2. primaryUsed \in Nat /\ primaryUsed # 0 /\ primaryUsed' = primaryUsed - 1
      BY <2>1, <3>1 DEF IInv, TypeOK, Budget, BudgetExact, PrimaryRelease
    <3> QED
      BY <3>2
  <2>2. CASE ~HoldsPrimary(q)
    BY <2>2 DEF IInv, TypeOK, PrimaryRelease
  <2> QED
    BY <2>1, <2>2
<1>3. TypeOK'
  BY <1>2 DEF IInv, TypeOK, PrimaryRelease, Put, regionVars, brokerVars
<1>4. Budget'
  <2>1. HeldPrimary' = HeldPrimary \ {q}
    BY DEF HeldPrimary, PrimaryRelease, Put
  <2>2. Cardinality(HeldPrimary') = IF q \in HeldPrimary THEN Cardinality(HeldPrimary) - 1
                                                         ELSE Cardinality(HeldPrimary)
    BY <2>1, FiniteHeld, FS_RemoveElement DEF IInv
  <2> QED
    BY <1>1, <2>2 DEF IInv, TypeOK, Budget, BudgetExact, LeasedSlots, LiveGrants,
       PrimaryRelease
<1> QED
  BY <1>3, <1>4, Kept DEF IInv, PrimaryRelease, regionVars, brokerVars

LEMMA IssueRepeatedStep ==
  ASSUME IInv, NEW m \in wire, IssueRepeated(m)
  PROVE  IInv'
<1>1. Answer(m, "ok") /\ UNCHANGED <<authorityVars, regionVars>>
  BY DEF IssueRepeated
<1>2. TypeOK'
  BY <1>1, AnswerType DEF IInv, TypeOK, authorityVars, regionVars
<1>3. Granted(m.g)' /\ GrantsGrow
  BY <1>1, WireType, GrantNumbers
     DEF IInv, TypeOK, IssueRepeated, Granted, GrantsGrow, sameIdentity, authorityVars
<1>4. WirePersisted'
  BY <1>1, <1>2, <1>3, AnswerBacked
<1> QED
  BY <1>1, <1>2, <1>4, AnswerType, Kept DEF IInv, authorityVars, regionVars

LEMMA RenewRepeatedStep ==
  ASSUME IInv, NEW m \in wire, RenewRepeated(m)
  PROVE  IInv'
<1>1. Answer(m, "ok") /\ UNCHANGED <<authorityVars, regionVars>>
  BY DEF RenewRepeated
<1>2. TypeOK'
  BY <1>1, AnswerType DEF IInv, TypeOK, authorityVars, regionVars
<1>3. Granted(m.g)' /\ GrantsGrow
  BY <1>1, WireType, GrantNumbers
     DEF IInv, TypeOK, RenewRepeated, Granted, GrantsGrow, sameIdentity, authorityVars
<1>4. WirePersisted'
  BY <1>1, <1>2, <1>3, AnswerBacked
<1> QED
  BY <1>1, <1>2, <1>4, AnswerType, Kept DEF IInv, authorityVars, regionVars

LEMMA IssueRejectStep ==
  ASSUME IInv, NEW m \in wire, IssueReject(m)
  PROVE  IInv'
<1>1. /\ Answer(m, "gone")
      /\ UNCHANGED <<limit, primaryUsed, granted, primarySlots, grants, primaryNow,
                     regionVars>>
  BY DEF IssueReject
<1>2. TypeOK'
  BY <1>1, AnswerType, WireType, GrantNumbers DEF IInv, TypeOK, IssueReject, regionVars
<1>3. GrantsGrow
  BY <1>1, GrantNumbers DEF IInv, TypeOK, GrantsGrow, sameIdentity
<1>4. WirePersisted'
  BY <1>1, <1>2, <1>3, AnswerBacked
<1> QED
  BY <1>1, <1>2, <1>4, AnswerType, Kept DEF IInv, regionVars

LEMMA IssueAllocateStep ==
  ASSUME IInv, NEW m \in wire, IssueAllocate(m)
  PROVE  IInv'
<1>1. /\ Answer(m, "ok") /\ granted' = granted + m.g.slots
      /\ m.g.id \notin DOMAIN grants
      /\ DOMAIN grants' = DOMAIN grants \cup {m.g.id}
      /\ grants'[m.g.id] = [g |-> m.g, state |-> "open"]
      /\ \A l \in DOMAIN grants : grants'[l] = grants[l]
      /\ UNCHANGED <<limit, primaryUsed, primarySlots, rejections, primaryNow, regionVars>>
  BY DEF IssueAllocate, Put
<1>2. m.g \in Grant /\ m.g.id \in Leases /\ m.g.slots \in Nat
  BY WireType, GrantNumbers
<1>3. TypeOK'
  <2>1. granted' \in Nat
    BY <1>1, <1>2 DEF IInv, TypeOK
  <2>2. /\ DOMAIN grants' \subseteq Leases
        /\ \A l \in DOMAIN grants' : grants'[l] \in [g: Grant, state: GrantState]
    BY <1>1, <1>2 DEF IInv, TypeOK, GrantState
  <2> QED
    BY <1>1, <2>1, <2>2, AnswerType DEF IInv, TypeOK, regionVars
<1>4. RowsKeyed'
  BY <1>1, AnswerType DEF IInv, RowsKeyed, Key, regionVars
<1>5. Granted(m.g)' /\ GrantsGrow
  BY <1>1, <1>2, GrantNumbers DEF IInv, TypeOK, Granted, GrantsGrow, sameIdentity
<1>6. WirePersisted' /\ LocalGranted'
  BY <1>1, <1>3, <1>5, AnswerBacked, BackedStays DEF regionVars
<1>7. ClosedFinished'
  BY <1>1, AnswerType DEF IInv, ClosedFinished, Finished, regionVars
<1>8. Budget'
  <2> DEFINE f == [l \in DOMAIN grants |-> grants[l].g.slots]
             h == [l \in DOMAIN grants' |-> grants'[l].g.slots]
  <2>1. LiveGrants' = LiveGrants \cup {m.g.id} /\ m.g.id \notin LiveGrants
    BY <1>1 DEF LiveGrants
  <2>2. h[m.g.id] = m.g.slots /\ \A l \in LiveGrants : h[l] = f[l]
    BY <1>1 DEF LiveGrants
  <2>3. IsFiniteSet(Pile(LiveGrants, f)) /\ granted = Cardinality(Pile(LiveGrants, f))
    BY DEF IInv, Budget, BudgetExact, LeasedSlots
  <2>4. LeasedSlots' = Pile(LiveGrants', h)
    BY DEF LeasedSlots
  <2> HIDE DEF f, h
  <2>5. h[m.g.id] \in Nat
    BY <1>2, <2>2
  <2> DEFINE l == m.g.id
  <2>6. l \notin LiveGrants /\ h[l] \in Nat
    BY <2>1, <2>5
  <2> HIDE DEF l
  <2>7. /\ IsFiniteSet(Pile(LiveGrants \cup {l}, h))
        /\ Cardinality(Pile(LiveGrants \cup {l}, h)) = Cardinality(Pile(LiveGrants, f)) + h[l]
    BY <2>2, <2>3, <2>6, PileAdd
  <2>8. IsFiniteSet(LeasedSlots') /\ Cardinality(LeasedSlots') = granted'
    BY <1>1, <2>1, <2>2, <2>3, <2>4, <2>7 DEF l
  <2>9. primaryUsed' = Cardinality(HeldPrimary')
    BY <1>1 DEF IInv, Budget, BudgetExact, HeldPrimary
  <2> QED
    BY <2>8, <2>9 DEF Budget, BudgetExact
<1> QED
  BY <1>1, <1>3, <1>4, <1>6, <1>7, <1>8, Kept DEF IInv, regionVars

LEMMA RenewAdvanceStep ==
  ASSUME IInv, NEW m \in wire, RenewAdvance(m)
  PROVE  IInv'
<1>1. /\ Answer(m, "ok")
      /\ m.g.id \in DOMAIN grants /\ DOMAIN grants' = DOMAIN grants
      /\ grants'[m.g.id] = [grants[m.g.id] EXCEPT !.g = m.g]
      /\ \A l \in DOMAIN grants : l # m.g.id => grants'[l] = grants[l]
      /\ sameIdentity(grants[m.g.id].g, m.g)
      /\ m.g.revision = grants[m.g.id].g.revision + 1
      /\ m.g.expiresAt > grants[m.g.id].g.expiresAt
      /\ UNCHANGED <<limit, primaryUsed, granted, primarySlots, rejections,
                     primaryNow, regionVars>>
  BY DEF RenewAdvance
<1>2. m.g \in Grant /\ grants[m.g.id] \in [g: Grant, state: GrantState]
  BY <1>1, WireType DEF IInv, TypeOK
<1>3. /\ grants'[m.g.id] \in [g: Grant, state: GrantState]
      /\ grants'[m.g.id].g = m.g /\ grants'[m.g.id].state = grants[m.g.id].state
  BY <1>1, <1>2
<1>4. TypeOK'
  <2>1. \A l \in DOMAIN grants' : grants'[l] \in [g: Grant, state: GrantState]
    BY <1>1, <1>3 DEF IInv, TypeOK
  <2> QED
    BY <1>1, <2>1, AnswerType DEF IInv, TypeOK, regionVars
<1>5. RowsKeyed'
  BY <1>1, <1>3, AnswerType DEF IInv, RowsKeyed, Key, regionVars
<1>6. Granted(m.g)'
  BY <1>1, <1>2, <1>3, GrantNumbers DEF Granted, sameIdentity
<1>7. GrantsGrow
  <2> SUFFICES ASSUME NEW l \in DOMAIN grants
               PROVE  /\ l \in DOMAIN grants'
                      /\ sameIdentity(grants[l].g, grants'[l].g)
                      /\ grants[l].g.revision <= grants'[l].g.revision
                      /\ grants[l].g.expiresAt <= grants'[l].g.expiresAt
    BY DEF GrantsGrow
  <2>1. grants[l].g \in Grant
    BY DEF IInv, TypeOK
  <2>2. CASE l = m.g.id
    BY <1>1, <1>2, <1>3, <2>1, <2>2, GrantNumbers
  <2>3. CASE l # m.g.id
    BY <1>1, <2>1, <2>3, GrantNumbers DEF sameIdentity
  <2> QED
    BY <2>2, <2>3
<1>8. WirePersisted' /\ LocalGranted'
  BY <1>1, <1>4, <1>6, <1>7, AnswerBacked, BackedStays DEF regionVars
<1>9. ClosedFinished'
  BY <1>1, <1>3, AnswerType DEF IInv, ClosedFinished, Finished, regionVars
<1>10. Budget'
  <2>1. LiveGrants' = LiveGrants
    BY <1>1, <1>3 DEF LiveGrants
  <2>2. \A l \in DOMAIN grants : grants'[l].g.slots = grants[l].g.slots
    BY <1>1, <1>3 DEF sameIdentity
  <2>3. LeasedSlots' = LeasedSlots
    BY <1>1, <2>1, <2>2, LeasedSame
  <2> QED
    BY <1>1, <2>3 DEF IInv, Budget, BudgetExact, HeldPrimary
<1> QED
  BY <1>1, <1>4, <1>5, <1>8, <1>9, <1>10, Kept DEF IInv, regionVars

LEMMA BeginDrainStep ==
  ASSUME IInv, NEW l \in Leases, BeginDrain(l)
  PROVE  IInv'
<1>1. /\ l \in DOMAIN grants /\ DOMAIN grants' = DOMAIN grants
      /\ grants[l].state = "open"
      /\ grants'[l] = [grants[l] EXCEPT !.state = "draining"]
      /\ \A x \in DOMAIN grants : x # l => grants'[x] = grants[x]
      /\ UNCHANGED <<limit, primaryUsed, granted, primarySlots, rejections,
                     primaryNow, regionVars, brokerVars>>
  BY DEF BeginDrain
<1>2. \A x \in DOMAIN grants : grants[x] \in [g: Grant, state: GrantState]
  BY DEF IInv, TypeOK
<1>3. /\ grants'[l] \in [g: Grant, state: GrantState]
      /\ grants'[l].g = grants[l].g /\ grants'[l].state = "draining"
  BY <1>1, <1>2 DEF GrantState
<1>4. TypeOK'
  BY <1>1, <1>3 DEF IInv, TypeOK, regionVars, brokerVars
<1>5. \A x \in DOMAIN grants : grants'[x].g = grants[x].g
  BY <1>1, <1>3
<1>6. RowsKeyed'
  BY <1>1, <1>5 DEF IInv, RowsKeyed, Key, regionVars, brokerVars
<1>7. GrantsGrow
  BY <1>1, <1>2, <1>5, GrantNumbers DEF GrantsGrow, sameIdentity
<1>8. WirePersisted' /\ LocalGranted'
  BY <1>1, <1>4, <1>7, BackedStays DEF regionVars, brokerVars
<1>9. ClosedFinished'
  BY <1>1, <1>3 DEF IInv, ClosedFinished, Finished, regionVars, brokerVars
<1>10. Budget'
  <2>1. LiveGrants' = LiveGrants
    BY <1>1, <1>3 DEF LiveGrants
  <2>2. LeasedSlots' = LeasedSlots
    BY <1>1, <1>5, <2>1, LeasedSame
  <2> QED
    BY <1>1, <2>2 DEF IInv, Budget, BudgetExact, HeldPrimary
<1> QED
  BY <1>1, <1>4, <1>6, <1>8, <1>9, <1>10, Kept DEF IInv, regionVars, brokerVars

LEMMA CloseStep ==
  ASSUME IInv, NEW c \in receipts, Close(c)
  PROVE  IInv'
<1> DEFINE l == c.lease
<1>1. /\ l \in DOMAIN grants /\ DOMAIN grants' = DOMAIN grants
      /\ grants[l].state = "draining"
      /\ grants'[l] = [grants[l] EXCEPT !.state = "closed"]
      /\ granted' = granted - grants[l].g.slots
      /\ \A x \in DOMAIN grants : x # l => grants'[x] = grants[x]
      /\ UNCHANGED <<limit, primaryUsed, primarySlots, rejections, primaryNow,
                     regionVars, brokerVars>>
  BY DEF Close, Draining
<1>2. \A x \in DOMAIN grants : grants[x] \in [g: Grant, state: GrantState]
  BY DEF IInv, TypeOK
<1>3. /\ grants'[l] \in [g: Grant, state: GrantState]
      /\ grants'[l].g = grants[l].g /\ grants'[l].state = "closed"
  BY <1>1, <1>2 DEF GrantState
<1>4. \A x \in DOMAIN grants : grants'[x].g = grants[x].g
  BY <1>1, <1>3
<1>5. Finished(l)
  BY DEF IInv, ClosedFinished
<1> HIDE DEF l
<1>6. /\ IsFiniteSet(LeasedSlots')
      /\ Cardinality(LeasedSlots') = granted'
      /\ granted' \in Nat
  <2> DEFINE f == [x \in DOMAIN grants |-> grants[x].g.slots]
             h == [x \in DOMAIN grants' |-> grants'[x].g.slots]
  <2>1. LiveGrants' = LiveGrants \ {l} /\ l \in LiveGrants
    BY <1>1, <1>3 DEF LiveGrants
  <2>2. h = f /\ f[l] = grants[l].g.slots
    BY <1>1, <1>4
  <2>3. IsFiniteSet(Pile(LiveGrants, f)) /\ granted = Cardinality(Pile(LiveGrants, f))
    BY DEF IInv, Budget, BudgetExact, LeasedSlots
  <2>4. LeasedSlots' = Pile(LiveGrants', h)
    BY DEF LeasedSlots
  <2>5. f[l] \in Nat
    BY <1>1, <1>2, <2>2, GrantNumbers
  <2> HIDE DEF f, h
  <2>6. /\ IsFiniteSet(Pile(LiveGrants \ {l}, f))
        /\ Cardinality(Pile(LiveGrants \ {l}, f)) = Cardinality(Pile(LiveGrants, f)) - f[l]
    BY <2>1, <2>3, <2>5, PileRemove
  <2>7. IsFiniteSet(LeasedSlots') /\ Cardinality(LeasedSlots') = granted'
    BY <1>1, <2>1, <2>2, <2>3, <2>4, <2>6
  <2> QED
    BY <2>7, FS_CardinalityType
<1>7. TypeOK'
  BY <1>1, <1>3, <1>6 DEF IInv, TypeOK, regionVars, brokerVars
<1>8. RowsKeyed'
  BY <1>1, <1>4 DEF IInv, RowsKeyed, Key, regionVars, brokerVars
<1>9. GrantsGrow
  BY <1>1, <1>2, <1>4, GrantNumbers DEF GrantsGrow, sameIdentity
<1>10. WirePersisted' /\ LocalGranted'
  BY <1>1, <1>7, <1>9, BackedStays DEF regionVars, brokerVars
<1>11. ClosedFinished'
  BY <1>1, <1>5 DEF IInv, ClosedFinished, Finished, regionVars, brokerVars
<1>12. Budget'
  BY <1>1, <1>6 DEF IInv, Budget, BudgetExact, HeldPrimary
<1> QED
  BY <1>1, <1>7, <1>8, <1>10, <1>11, <1>12, Kept DEF IInv, regionVars, brokerVars

-----------------------------------------------------------------------------
(* One lemma per action: the region *)

LEMMA TickRegionStep ==
  ASSUME IInv, NEW r \in Regions, TickRegion(r)
  PROVE  IInv'
<1>1. TypeOK'
  BY DEF IInv, TypeOK, TickRegion, authorityVars, brokerVars
<1> QED
  BY <1>1, Kept DEF IInv, TickRegion, authorityVars, brokerVars

LEMMA AcquireResourceStep ==
  ASSUME IInv, NEW r \in Regions, NEW q \in RegionRequests, AcquireResource(r, q)
  PROVE  IInv'
<1> DEFINE h == <<r, q>>
<1>1. PICK l \in DOMAIN localGrants :
        /\ localGrants[l].state = "open"
        /\ localGrants[l].used < localGrants[l].g.slots
        /\ localGrants' = [localGrants EXCEPT ![l].used = @ + 1]
        /\ localSlots' = Put(localSlots, h, [lease |-> l, released |-> FALSE])
  BY DEF AcquireResource, Admitting, HasRoom
<1>2. /\ h \notin cancellations /\ h \notin DOMAIN localSlots /\ h \in Regions \X RegionRequests
      /\ UNCHANGED <<cancellations, regionNow, authorityVars, brokerVars>>
  BY DEF AcquireResource, Fresh
<1> HIDE DEF h
<1>3. \A x \in DOMAIN localGrants :
        localGrants[x] \in [g: Grant, used: Nat, state: GrantState]
  BY DEF IInv, TypeOK
<1>4. /\ l \in Leases /\ DOMAIN localGrants' = DOMAIN localGrants
      /\ localGrants'[l] \in [g: Grant, used: Nat, state: GrantState]
      /\ localGrants'[l].g = localGrants[l].g
      /\ localGrants'[l].used = localGrants[l].used + 1
      /\ \A x \in DOMAIN localGrants : x # l => localGrants'[x] = localGrants[x]
  BY <1>1, <1>3 DEF IInv, TypeOK
<1>5. /\ DOMAIN localSlots' = DOMAIN localSlots \cup {h}
      /\ localSlots'[h] = [lease |-> l, released |-> FALSE]
      /\ \A x \in DOMAIN localSlots : localSlots'[x] = localSlots[x]
  BY <1>1, <1>2 DEF Put
<1>6. TypeOK'
  <2>1. \A x \in DOMAIN localGrants' :
          localGrants'[x] \in [g: Grant, used: Nat, state: GrantState]
    BY <1>3, <1>4
  <2>2. \A x \in DOMAIN localSlots' : localSlots'[x] \in [lease: Leases, released: BOOLEAN]
    <3>1. localSlots'[h] \in [lease: Leases, released: BOOLEAN]
      BY <1>4, <1>5
    <3> QED
      BY <1>5, <3>1 DEF IInv, TypeOK
  <2> QED
    BY <1>2, <1>4, <1>5, <2>1, <2>2 DEF IInv, TypeOK, authorityVars, brokerVars
<1>7. RowsKeyed'
  BY <1>2, <1>4 DEF IInv, RowsKeyed, Key, authorityVars, brokerVars
<1>8. LocalGranted'
  BY <1>2, <1>4 DEF IInv, LocalGranted, Granted, authorityVars
<1>9. Bound'
  BY <1>4, <1>5 DEF IInv, Bound
<1>10. HeldRegional' = HeldRegional \cup {h} /\ h \notin HeldRegional
  BY <1>2, <1>5 DEF HeldRegional
<1>11. UsedExact'
  <2>1. /\ \A x \in DOMAIN localGrants : x # l => HeldBy(x)' = HeldBy(x)
        /\ HeldBy(l)' = HeldBy(l) \cup {h} /\ h \notin HeldBy(l)
    BY <1>5, <1>10 DEF HeldBy, HeldRegional
  <2>2. Cardinality(HeldBy(l)') = Cardinality(HeldBy(l)) + 1
    BY <2>1, FiniteHeld, FS_AddElement DEF IInv
  <2>3. /\ localGrants'[l].used = Cardinality(HeldBy(l)')
        /\ localGrants'[l].used <= localGrants'[l].g.slots
    BY <1>1, <1>3, <1>4, <2>2, GrantNumbers DEF IInv, UsedExact
  <2> QED
    BY <1>4, <2>1, <2>3 DEF IInv, UsedExact
<1>12. ClosedFinished'
  <2>1. \A x : Finished(x) => Finished(x)'
    BY <1>1, <1>4 DEF Finished
  <2> QED
    BY <1>2, <2>1 DEF IInv, ClosedFinished, authorityVars, brokerVars
<1>13. CancelledHoldsNothing'
  BY <1>2, <1>10 DEF IInv, CancelledHoldsNothing
<1> QED
  BY <1>2, <1>6, <1>7, <1>8, <1>9, <1>11, <1>12, <1>13, Kept
     DEF IInv, authorityVars, brokerVars

LEMMA ReleaseResourceStep ==
  ASSUME IInv, NEW r \in Regions, NEW q \in RegionRequests, ReleaseResource(r, q)
  PROVE  IInv'
<1> DEFINE h == <<r, q>>
<1>1. /\ cancellations' = cancellations \cup {h} /\ h \in Regions \X RegionRequests
      /\ UNCHANGED <<regionNow, authorityVars, brokerVars>>
  BY DEF ReleaseResource
<1>2. CASE h \in HeldRegional
  <2>0. PICK l : l = localSlots[h].lease
    OBVIOUS
  <2>1. /\ h \in DOMAIN localSlots
        /\ localGrants' = [localGrants EXCEPT ![l].used = @ - 1]
        /\ localSlots' = [localSlots EXCEPT ![h].released = TRUE]
    BY <1>2, <2>0 DEF ReleaseResource, HeldRegional
  <2>2. l \in DOMAIN localGrants /\ h \in HeldBy(l)
    BY <1>2, <2>0, <2>1 DEF IInv, Bound, HeldBy
  <2> HIDE DEF h
  <2>3. \A x \in DOMAIN localGrants :
          localGrants[x] \in [g: Grant, used: Nat, state: GrantState]
    BY DEF IInv, TypeOK
  <2>4. /\ DOMAIN localSlots' = DOMAIN localSlots
        /\ localSlots'[h].released = TRUE /\ localSlots'[h].lease = l
        /\ localSlots'[h] \in [lease: Leases, released: BOOLEAN]
        /\ \A x \in DOMAIN localSlots : x # h => localSlots'[x] = localSlots[x]
    <3>1. localSlots[h] \in [lease: Leases, released: BOOLEAN]
      BY <2>1 DEF IInv, TypeOK
    <3>2. localSlots'[h] = [lease |-> localSlots[h].lease, released |-> TRUE]
      BY <2>1, <3>1
    <3>3. localSlots[h].lease \in Leases
      BY <3>1
    <3> QED
      BY <2>0, <2>1, <3>2, <3>3
  <2>5. Cardinality(HeldBy(l)) # 0
    BY <2>2, FiniteHeld, FS_EmptySet DEF IInv
  <2>6. localGrants[l].used \in Nat /\ localGrants[l].used # 0
    BY <2>2, <2>3, <2>5 DEF IInv, UsedExact
  <2>7. /\ DOMAIN localGrants' = DOMAIN localGrants
        /\ localGrants'[l] \in [g: Grant, used: Nat, state: GrantState]
        /\ localGrants'[l].g = localGrants[l].g
        /\ localGrants'[l].used = localGrants[l].used - 1
        /\ \A x \in DOMAIN localGrants : x # l => localGrants'[x] = localGrants[x]
    BY <2>1, <2>2, <2>3, <2>6
  <2>8. TypeOK'
    <3>1. \A x \in DOMAIN localGrants' :
            localGrants'[x] \in [g: Grant, used: Nat, state: GrantState]
      BY <2>3, <2>7
    <3>2. \A x \in DOMAIN localSlots' : localSlots'[x] \in [lease: Leases, released: BOOLEAN]
      BY <2>4 DEF IInv, TypeOK
    <3> QED
      BY <1>1, <2>4, <2>7, <3>1, <3>2 DEF IInv, TypeOK, authorityVars, brokerVars, h
  <2>9. RowsKeyed'
    BY <1>1, <2>7 DEF IInv, RowsKeyed, Key, authorityVars, brokerVars
  <2>10. LocalGranted'
    BY <1>1, <2>7 DEF IInv, LocalGranted, Granted, authorityVars
  <2>11. Bound'
    BY <2>2, <2>4, <2>7 DEF IInv, Bound
  <2>12. HeldRegional' = HeldRegional \ {h}
    BY <2>4 DEF HeldRegional
  <2>13. UsedExact'
    <3>1. \A x : HeldBy(x)' = HeldBy(x) \ {h}
      BY <2>4, <2>12 DEF HeldBy, HeldRegional
    <3>4. \A x : x # l => HeldBy(x)' = HeldBy(x)
      BY <2>2, <3>1 DEF HeldBy
    <3>2. Cardinality(HeldBy(l)') = Cardinality(HeldBy(l)) - 1
      BY <2>2, <3>1, FiniteHeld, FS_RemoveElement DEF IInv
    <3>3. /\ localGrants'[l].used = Cardinality(HeldBy(l)')
          /\ localGrants'[l].used <= localGrants'[l].g.slots
      BY <2>2, <2>3, <2>6, <2>7, <3>2, GrantNumbers DEF IInv, UsedExact
    <3> QED
      BY <2>7, <3>4, <3>3 DEF IInv, UsedExact
  <2>14. ClosedFinished'
    <3>1. \A x : Finished(x) => Finished(x)'
      BY <2>6, <2>7 DEF Finished
    <3> QED
      BY <1>1, <3>1 DEF IInv, ClosedFinished, authorityVars, brokerVars
  <2>15. CancelledHoldsNothing'
    BY <1>1, <2>12 DEF IInv, CancelledHoldsNothing
  <2> QED
    BY <1>1, <2>8, <2>9, <2>10, <2>11, <2>13, <2>14, <2>15, Kept
       DEF IInv, authorityVars, brokerVars
<1>3. CASE h \notin HeldRegional
  <2>1. UNCHANGED <<localGrants, localSlots>>
    BY <1>3 DEF ReleaseResource, HeldRegional
  <2>2. TypeOK'
    BY <1>1, <2>1 DEF IInv, TypeOK, authorityVars, brokerVars
  <2>3. CancelledHoldsNothing'
    BY <1>1, <1>3, <2>1 DEF IInv, CancelledHoldsNothing, HeldRegional
  <2> QED
    BY <1>1, <2>1, <2>2, <2>3, Kept DEF IInv, authorityVars, brokerVars
<1> QED
  BY <1>2, <1>3

LEMMA DrainStep ==
  ASSUME IInv, NEW l \in Leases, Drain(l)
  PROVE  IInv'
<1>1. /\ l \in DOMAIN localGrants /\ DOMAIN localGrants' = DOMAIN localGrants
      /\ localGrants[l].state = "open"
      /\ localGrants'[l] = [localGrants[l] EXCEPT !.state = "draining"]
      /\ \A x \in DOMAIN localGrants : x # l => localGrants'[x] = localGrants[x]
      /\ UNCHANGED <<localSlots, cancellations, regionNow, authorityVars, brokerVars>>
  BY DEF Drain
<1>2. localGrants[l] \in [g: Grant, used: Nat, state: GrantState]
  BY <1>1 DEF IInv, TypeOK
<1>3. /\ localGrants'[l] \in [g: Grant, used: Nat, state: GrantState]
      /\ localGrants'[l].g = localGrants[l].g /\ localGrants'[l].used = localGrants[l].used
  BY <1>1, <1>2 DEF GrantState
<1>4. TypeOK'
  BY <1>1, <1>3 DEF IInv, TypeOK, authorityVars, brokerVars
<1>5. RowsKeyed' /\ LocalGranted'
  BY <1>1, <1>3 DEF IInv, RowsKeyed, Key, LocalGranted, Granted, authorityVars, brokerVars
<1>6. Bound' /\ UsedExact'
  <2>1. \A x : HeldBy(x)' = HeldBy(x)
    BY <1>1 DEF HeldBy, HeldRegional
  <2> QED
    BY <1>1, <1>3, <2>1 DEF IInv, Bound, UsedExact
<1>7. ClosedFinished'
  <2>1. \A x : Finished(x) => Finished(x)'
    BY <1>1 DEF Finished
  <2> QED
    BY <1>1, <2>1 DEF IInv, ClosedFinished, authorityVars, brokerVars
<1> QED
  BY <1>1, <1>4, <1>5, <1>6, <1>7, Kept DEF IInv, authorityVars, brokerVars

LEMMA LocalCloseStep ==
  ASSUME IInv, NEW l \in Leases, LocalClose(l)
  PROVE  IInv'
<1> DEFINE c == DrainReceipt(localGrants[l].g)
<1>1. /\ l \in DOMAIN localGrants /\ DOMAIN localGrants' = DOMAIN localGrants
      /\ localGrants[l].used = 0
      /\ localGrants'[l] = [localGrants[l] EXCEPT !.state = "closed"]
      /\ \A x \in DOMAIN localGrants : x # l => localGrants'[x] = localGrants[x]
      /\ receipts' = receipts \cup {c}
      /\ UNCHANGED <<localSlots, cancellations, regionNow, operations, calls, wire,
                     authorityVars>>
  BY DEF LocalClose, Drained
<1>2. localGrants[l] \in [g: Grant, used: Nat, state: GrantState]
  BY <1>1 DEF IInv, TypeOK
<1>3. c \in [lease: Leases, region: Regions, revision: Nat \ {0}] /\ c.lease = l
  BY <1>1, <1>2 DEF DrainReceipt, Grant, IInv, RowsKeyed
<1> HIDE DEF c
<1>4. /\ localGrants'[l] \in [g: Grant, used: Nat, state: GrantState]
      /\ localGrants'[l].g = localGrants[l].g /\ localGrants'[l].used = localGrants[l].used
      /\ localGrants'[l].state = "closed"
  BY <1>1, <1>2 DEF GrantState
<1>5. TypeOK'
  <2>1. \A x \in DOMAIN localGrants' : localGrants'[x] \in [g: Grant, used: Nat, state: GrantState]
    BY <1>1, <1>4 DEF IInv, TypeOK
  <2>2. receipts' \subseteq [lease: Leases, region: Regions, revision: Nat \ {0}]
    BY <1>1, <1>3 DEF IInv, TypeOK
  <2> QED
    BY <1>1, <2>1, <2>2 DEF IInv, TypeOK, authorityVars
<1>6. RowsKeyed' /\ LocalGranted'
  BY <1>1, <1>4 DEF IInv, RowsKeyed, Key, LocalGranted, Granted, authorityVars
<1>7. Bound' /\ UsedExact'
  <2>1. \A x : HeldBy(x)' = HeldBy(x)
    BY <1>1 DEF HeldBy, HeldRegional
  <2> QED
    BY <1>1, <1>4, <2>1 DEF IInv, Bound, UsedExact
<1>8. ClosedFinished'
  <2>1. Finished(l)' /\ \A x : Finished(x) => Finished(x)'
    BY <1>1, <1>4 DEF Finished
  <2> QED
    BY <1>1, <1>3, <2>1 DEF IInv, ClosedFinished, authorityVars
<1> QED
  BY <1>1, <1>5, <1>6, <1>7, <1>8, Kept DEF IInv, authorityVars

-----------------------------------------------------------------------------
(* One lemma per action: the broker *)

LEMMA PersistStep ==
  ASSUME IInv, NEW op \in {"issue", "renew"}, NEW g \in Grant, Persist(op, g)
  PROVE  IInv'
<1> DEFINE k == Key(g)
<1>1. /\ k \notin DOMAIN operations
      /\ DOMAIN operations' = DOMAIN operations \cup {k}
      /\ operations'[k] = [op |-> op, g |-> g, state |-> "pending"]
      /\ \A x \in DOMAIN operations : operations'[x] = operations[x]
      /\ UNCHANGED <<wire, receipts, authorityVars, regionVars>>
  BY DEF Persist, Put
<1>2. /\ DOMAIN calls' = DOMAIN calls \cup {k} /\ calls'[k] = "idle"
      /\ \A x \in DOMAIN calls : x # k => calls'[x] = calls[x]
  BY DEF Persist, Put
<1>3. k \in Leases \X (Nat \ {0}) /\ DOMAIN calls = DOMAIN operations
  BY DEF IInv, TypeOK, Key, Grant
<1> HIDE DEF k
<1>4. TypeOK'
  <2>1. /\ DOMAIN operations' \subseteq Leases \X (Nat \ {0})
        /\ DOMAIN calls' = DOMAIN operations'
        /\ \A x \in DOMAIN calls' : calls'[x] \in {"idle", "ok", "gone", "stored"}
    BY <1>1, <1>2, <1>3 DEF IInv, TypeOK
  <2>2. \A x \in DOMAIN operations' :
          operations'[x] \in [op: {"issue", "renew"}, g: Grant,
                              state: {"pending", "installed", "rejected"}]
    BY <1>1 DEF IInv, TypeOK
  <2> QED
    BY <1>1, <2>1, <2>2 DEF IInv, TypeOK, authorityVars, regionVars
<1>5. RowsKeyed'
  BY <1>1 DEF IInv, RowsKeyed, k, Key, authorityVars, regionVars
<1>6. WirePersisted'
  BY <1>1, <1>2, <1>3 DEF IInv, WirePersisted, Granted, authorityVars
<1> QED
  BY <1>1, <1>4, <1>5, <1>6, Kept DEF IInv, authorityVars, regionVars

LEMMA EnsureIssueStep ==
  ASSUME IInv, NEW r \in Regions, NEW c \in Capacities, EnsureIssue(r, c)
  PROVE  IInv'
<1>1. PICK l \in Leases :
        Persist("issue", [id |-> l, region |-> r, slots |-> c, revision |-> 1,
                          issuedAt |-> regionNow[r], expiresAt |-> regionNow[r] + Lifetime])
  BY DEF EnsureIssue
<1>2. regionNow[r] \in Nat /\ regionNow[r] + Lifetime \in Nat
  BY SlotsAssumption DEF IInv, TypeOK
<1>3. [id |-> l, region |-> r, slots |-> c, revision |-> 1,
       issuedAt |-> regionNow[r], expiresAt |-> regionNow[r] + Lifetime] \in Grant
  BY <1>2 DEF Grant
<1> QED
  BY <1>1, <1>3, PersistStep

\* The terms of a renewal are again a grant.
LEMMA RenewalType ==
  ASSUME NEW g \in Grant, NEW t \in Nat
  PROVE  [g EXCEPT !.revision = @ + 1, !.expiresAt = t] \in Grant
<1> DEFINE a == [g EXCEPT !.revision = @ + 1]
           b == [a EXCEPT !.expiresAt = t]
<1>1. a \in Grant
  BY DEF Grant
<1>2. b \in Grant
  <2> HIDE DEF a
  <2> QED
    BY <1>1 DEF Grant
<1>3. b = [g EXCEPT !.revision = @ + 1, !.expiresAt = t]
  BY DEF Grant
<1> QED
  BY <1>2, <1>3

LEMMA EnsureRenewStep ==
  ASSUME IInv, NEW r \in Regions, NEW c \in Capacities, EnsureRenew(r, c)
  PROVE  IInv'
<1>1. PICK l \in OpenGrants(r) :
        Persist("renew", [localGrants[l].g EXCEPT !.revision = @ + 1,
                                                  !.expiresAt = regionNow[r] + Lifetime])
  BY DEF EnsureRenew
<1>2. localGrants[l].g \in Grant
  BY DEF IInv, TypeOK, OpenGrants
<1>3. regionNow[r] + Lifetime \in Nat
  BY SlotsAssumption DEF IInv, TypeOK
<1>4. [localGrants[l].g EXCEPT !.revision = @ + 1, !.expiresAt = regionNow[r] + Lifetime]
        \in Grant
  BY <1>2, <1>3, RenewalType
<1> QED
  BY <1>1, <1>4, PersistStep

LEMMA ReplayStep ==
  ASSUME IInv, NEW k \in DOMAIN operations, Replay(k)
  PROVE  IInv'
<1> DEFINE m == [op |-> operations[k].op, g |-> operations[k].g]
<1>1. /\ wire' = wire \cup {m}
      /\ UNCHANGED <<operations, calls, receipts, authorityVars, regionVars>>
  BY DEF Replay
<1>2. m \in [op: {"issue", "renew"}, g: Grant] /\ Key(m.g) = k
  BY DEF IInv, TypeOK, RowsKeyed
<1>3. TypeOK'
  BY <1>1, <1>2 DEF IInv, TypeOK, authorityVars, regionVars
<1>4. WirePersisted'
  BY <1>1, <1>2 DEF IInv, WirePersisted, Granted, Key, authorityVars
<1> QED
  BY <1>1, <1>3, <1>4, Kept DEF IInv, authorityVars, regionVars

LEMMA ReplayFailsStep ==
  ASSUME IInv, NEW k \in DOMAIN operations, ReplayFails(k)
  PROVE  IInv'
<1>1. TypeOK'
  BY DEF IInv, TypeOK, ReplayFails, authorityVars, regionVars
<1>2. WirePersisted'
  BY DEF IInv, TypeOK, WirePersisted, Granted, Key, ReplayFails, authorityVars
<1> QED
  BY <1>1, <1>2, Kept DEF IInv, ReplayFails, authorityVars, regionVars

\* The end of a replay: the state of the operation changes, its call is over.
LEMMA ReplayEnds ==
  ASSUME IInv, NEW k \in DOMAIN operations, NEW s \in {"installed", "rejected"},
         operations' = [operations EXCEPT ![k].state = s],
         calls' = [calls EXCEPT ![k] = "idle"],
         UNCHANGED <<wire, receipts, authorityVars, regionVars>>
  PROVE  IInv'
<1>1. operations[k] \in [op: {"issue", "renew"}, g: Grant,
                         state: {"pending", "installed", "rejected"}]
  BY DEF IInv, TypeOK
<1>2. /\ DOMAIN operations' = DOMAIN operations
      /\ operations'[k] \in [op: {"issue", "renew"}, g: Grant,
                             state: {"pending", "installed", "rejected"}]
      /\ operations'[k].g = operations[k].g /\ operations'[k].op = operations[k].op
      /\ \A x \in DOMAIN operations : x # k => operations'[x] = operations[x]
  BY <1>1
<1>3. TypeOK'
  BY <1>2 DEF IInv, TypeOK, authorityVars, regionVars
<1>4. RowsKeyed'
  BY <1>2 DEF IInv, RowsKeyed, Key, authorityVars, regionVars
<1>5. WirePersisted'
  BY <1>2 DEF IInv, TypeOK, WirePersisted, Granted, Key, authorityVars
<1> QED
  BY <1>3, <1>4, <1>5, Kept DEF IInv, authorityVars, regionVars

LEMMA ReplayInstallStep ==
  ASSUME IInv, NEW k \in DOMAIN operations, ReplayInstall(k)
  PROVE  IInv'
<1> DEFINE g == operations[k].g
           l == g.id
<1>1. /\ calls[k] = "ok" /\ calls' = [calls EXCEPT ![k] = "stored"]
      /\ Installable(g) /\ Install(g)
      /\ UNCHANGED <<operations, wire, receipts, localSlots, cancellations, regionNow,
                     authorityVars>>
  BY DEF ReplayInstall, Confirmed
<1>2. g \in Grant /\ l \in Leases /\ Granted(g)
  BY <1>1, GrantNumbers DEF IInv, TypeOK, WirePersisted
<1>3. /\ DOMAIN localGrants' = DOMAIN localGrants \cup {l}
      /\ localGrants'[l].g = g
      /\ \A x \in DOMAIN localGrants : x # l => localGrants'[x] = localGrants[x]
  BY <1>1 DEF Install, Put, IInv, TypeOK
<1>4. /\ l \in DOMAIN localGrants =>
           /\ localGrants'[l].used = localGrants[l].used
           /\ localGrants'[l].state = localGrants[l].state
           /\ localGrants'[l].g.slots = localGrants[l].g.slots
      /\ l \notin DOMAIN localGrants => localGrants'[l].used = 0
      /\ localGrants'[l] \in [g: Grant, used: Nat, state: GrantState]
  <2>1. CASE l \in DOMAIN localGrants
    <3>1. /\ localGrants[l] \in [g: Grant, used: Nat, state: GrantState]
          /\ localGrants'[l] = [localGrants[l] EXCEPT !.g = g]
      BY <1>1, <2>1 DEF Install, IInv, TypeOK
    <3>2. localGrants[l].g.slots = g.slots
      BY <1>1, <2>1 DEF Installable, sameIdentity
    <3> QED
      BY <1>2, <2>1, <3>1, <3>2
  <2>2. CASE l \notin DOMAIN localGrants
    BY <1>1, <1>2, <2>2 DEF Install, Put, GrantState
  <2> QED
    BY <2>1, <2>2
<1>5. TypeOK'
  <2>1. \A x \in DOMAIN localGrants' :
          localGrants'[x] \in [g: Grant, used: Nat, state: GrantState]
    BY <1>3, <1>4 DEF IInv, TypeOK
  <2> QED
    BY <1>1, <1>2, <1>3, <2>1 DEF IInv, TypeOK, authorityVars
<1>6. RowsKeyed'
  BY <1>1, <1>3 DEF IInv, RowsKeyed, Key, authorityVars
<1>7. WirePersisted'
  BY <1>1, <1>2 DEF IInv, TypeOK, WirePersisted, Granted, Key, authorityVars
<1>8. LocalGranted'
  BY <1>1, <1>2, <1>3 DEF IInv, LocalGranted, Granted, authorityVars
<1>9. Bound'
  BY <1>1, <1>3 DEF IInv, Bound
<1>10. UsedExact'
  <2>1. \A x : HeldBy(x)' = HeldBy(x)
    BY <1>1 DEF HeldBy, HeldRegional
  <2>2. CASE l \in DOMAIN localGrants
    BY <1>3, <1>4, <2>1, <2>2 DEF IInv, UsedExact
  <2>3. CASE l \notin DOMAIN localGrants
    <3>1. HeldBy(l) = {}
      BY <2>3 DEF IInv, Bound, HeldBy, HeldRegional
    <3>2. localGrants'[l].used = Cardinality(HeldBy(l))
      BY <1>4, <2>3, <3>1, FS_EmptySet
    <3>3. localGrants'[l].used <= localGrants'[l].g.slots
      BY <1>2, <1>3, <1>4, <2>3, GrantNumbers
    <3> QED
      BY <1>3, <2>1, <3>2, <3>3 DEF IInv, UsedExact
  <2> QED
    BY <2>2, <2>3
<1>11. ClosedFinished'
  <2>1. \A x : Finished(x) => Finished(x)'
    BY <1>3, <1>4 DEF Finished
  <2> QED
    BY <1>1, <2>1 DEF IInv, ClosedFinished, authorityVars
<1> QED
  BY <1>1, <1>5, <1>6, <1>7, <1>8, <1>9, <1>10, <1>11, Kept DEF IInv, authorityVars

-----------------------------------------------------------------------------
(* The invariant, and what follows from it *)

LEMMA StutterStep == ASSUME IInv, UNCHANGED vars PROVE IInv'
<1>1. UNCHANGED <<authorityVars, regionVars, brokerVars>>
  BY DEF vars
<1>2. TypeOK'
  BY <1>1 DEF IInv, TypeOK, authorityVars, regionVars, brokerVars
<1> QED
  BY <1>1, <1>2, Kept DEF IInv, authorityVars, regionVars, brokerVars

LEMMA NextIInv == IInv /\ [Next]_vars => IInv'
<1> SUFFICES ASSUME IInv, [Next]_vars PROVE IInv'
  OBVIOUS
<1>1. CASE Authority
  BY <1>1, SetLimitStep, PrimaryAcquireStep, PrimaryReleaseStep, IssueRepeatedStep,
     IssueRejectStep, IssueAllocateStep, RenewRepeatedStep, RenewAdvanceStep,
     BeginDrainStep, CloseStep, TickPrimaryStep DEF Authority
<1>2. CASE Region
  BY <1>2, AcquireResourceStep, ReleaseResourceStep, DrainStep, LocalCloseStep,
     TickRegionStep DEF Region
<1>3. CASE Broker
  <2>1. ASSUME NEW k \in DOMAIN operations, ReplayRejected(k) PROVE IInv'
    BY <2>1, ReplayEnds DEF ReplayRejected
  <2>2. ASSUME NEW k \in DOMAIN operations, ReplayInstalled(k) PROVE IInv'
    BY <2>2, ReplayEnds DEF ReplayInstalled
  <2> QED
    BY <1>3, <2>1, <2>2, EnsureIssueStep, EnsureRenewStep, ReplayStep, ReplayFailsStep,
       ReplayInstallStep DEF Broker
<1> QED
  BY <1>1, <1>2, <1>3, StutterStep DEF Next

\* Whatever is repeated, lost, delayed or cancelled, the tables stay consistent.
THEOREM Invariance == Spec => []IInv
BY InitIInv, NextIInv, PTL DEF Spec

\* The variables keep their types.
THEOREM TypeCorrect == Spec => []TypeOK
<1>1. IInv => TypeOK
  BY DEF IInv
<1> QED
  BY <1>1, Invariance, PTL

\* The two counters of the budget row are exact in every reachable state.
THEOREM BudgetIsExact == Spec => []BudgetExact
<1>1. IInv => BudgetExact
  BY DEF IInv, Budget
<1> QED
  BY <1>1, Invariance, PTL

\* A region's used counter is exact and within the slots of its grant.
THEOREM UsedIsExact == Spec => []UsedExact
<1>1. IInv => UsedExact
  BY DEF IInv
<1> QED
  BY <1>1, Invariance, PTL

\* A region never holds better terms than the authority gave it.
THEOREM RegionIsNeverAhead == Spec => []RegionNeverAhead
<1>1. IInv => RegionNeverAhead
  BY DEF IInv, RowsKeyed, LocalGranted, Granted, RegionNeverAhead
<1> QED
  BY <1>1, Invariance, PTL

\* A released or cancelled request holds no slot.
THEOREM CancellationsHold == Spec => []CancelledHoldsNothing
<1>1. IInv => CancelledHoldsNothing
  BY DEF IInv
<1> QED
  BY <1>1, Invariance, PTL

\* A lease with a closed row in its region has no request in flight.
LEMMA FinishedIdle ==
  ASSUME IInv, NEW l, Finished(l)
  PROVE  HeldBy(l) = {}
<1>1. IsFiniteSet(HeldBy(l)) /\ Cardinality(HeldBy(l)) = 0
  BY FiniteHeld DEF IInv, UsedExact, Finished
<1> QED
  BY <1>1, FS_EmptySet

\* Capacity returns to the budget only when its region has stopped for good.
THEOREM ReturnsOnlyIdleCapacity == Spec => []ReturnedOnlyWhenIdle
<1>1. IInv => ReturnedOnlyWhenIdle
  BY FinishedIdle DEF IInv, ClosedFinished, Finished, ReturnedOnlyWhenIdle
<1> QED
  BY <1>1, Invariance, PTL

\* All requests in flight on all sites fit into what the authority allocated:
\* each one belongs to a grant that is still counted, and a grant's requests
\* are at most its slots.
LEMMA IInvBacked == IInv => InFlightBacked
<1> SUFFICES ASSUME IInv PROVE InFlightBacked
  OBVIOUS
<1> DEFINE own == [h \in DOMAIN localSlots |-> localSlots[h].lease]
           f == [l \in DOMAIN grants |-> grants[l].g.slots]
<1>1. \A h \in HeldRegional : own[h] = localSlots[h].lease
  BY DEF HeldRegional
<1>2. \A h \in HeldRegional : own[h] \in LiveGrants
  <2> SUFFICES ASSUME NEW h \in HeldRegional PROVE localSlots[h].lease \in LiveGrants
    BY <1>1
  <2>1. localSlots[h].lease \in DOMAIN localGrants
    BY DEF IInv, Bound, HeldRegional
  <2>2. localSlots[h].lease \in DOMAIN grants
    BY <2>1 DEF IInv, RowsKeyed, LocalGranted, Granted
  <2>3. h \in HeldBy(localSlots[h].lease)
    BY DEF HeldBy
  <2>4. grants[localSlots[h].lease].state # "closed"
    BY <2>2, <2>3, FinishedIdle DEF IInv, ClosedFinished
  <2> QED
    BY <2>2, <2>4 DEF LiveGrants
<1>3. \A l \in LiveGrants : f[l] \in Nat /\ Cardinality({h \in HeldRegional : own[h] = l}) <= f[l]
  <2> SUFFICES ASSUME NEW l \in LiveGrants
               PROVE  f[l] \in Nat /\ Cardinality({h \in HeldRegional : own[h] = l}) <= f[l]
    OBVIOUS
  <2>1. {h \in HeldRegional : own[h] = l} = HeldBy(l)
    BY <1>1 DEF HeldBy
  <2>2. f[l] = grants[l].g.slots /\ f[l] \in Nat
    BY GrantNumbers DEF LiveGrants, IInv, TypeOK
  <2>3. CASE l \in DOMAIN localGrants
    <3>1. localGrants[l].g.slots = grants[l].g.slots
      BY <2>3 DEF IInv, RowsKeyed, LocalGranted, Granted, sameIdentity
    <3> QED
      BY <2>1, <2>2, <2>3, <3>1 DEF IInv, UsedExact
  <2>4. CASE l \notin DOMAIN localGrants
    <3>1. HeldBy(l) = {}
      BY <2>4 DEF IInv, Bound, HeldBy, HeldRegional
    <3>2. Cardinality({h \in HeldRegional : own[h] = l}) = 0
      BY <2>1, <3>1, FS_EmptySet
    <3> QED
      BY <2>2, <3>2
  <2> QED
    BY <2>3, <2>4
<1>4. IsFiniteSet(Pile(LiveGrants, f)) /\ granted = Cardinality(Pile(LiveGrants, f))
  BY DEF IInv, Budget, BudgetExact, LeasedSlots
<1>5. IsFiniteSet(HeldRegional) /\ IsFiniteSet(HeldPrimary)
  BY FiniteHeld DEF IInv
<1> HIDE DEF own, f
<1>6. Cardinality(HeldRegional) <= Cardinality(Pile(LiveGrants, f))
  BY <1>2, <1>3, <1>4, <1>5, PileBound
<1>7. Cardinality(HeldRegional) \in Nat /\ Cardinality(HeldPrimary) \in Nat
  BY <1>5, FS_CardinalityType
<1>8. primaryUsed = Cardinality(HeldPrimary) /\ granted \in Nat
  BY DEF IInv, TypeOK, Budget, BudgetExact
<1> QED
  BY <1>4, <1>6, <1>7, <1>8 DEF InFlightBacked

\* Requests in flight on all sites never exceed what the authority allocated.
THEOREM InFlightIsBacked == Spec => []InFlightBacked
BY IInvBacked, Invariance, PTL

\* The accounting of authority and regions holds as a whole (slots.go, local.go).
THEOREM CapacityIsAccounted == Spec => []CapacityAccounted
<1>1. TypeOK /\ BudgetExact /\ UsedExact /\ RegionNeverAhead
        /\ ReturnedOnlyWhenIdle /\ InFlightBacked
      => CapacityAccounted
  BY DEF CapacityAccounted
<1> QED
  BY <1>1, TypeCorrect, BudgetIsExact, UsedIsExact, RegionIsNeverAhead,
     ReturnsOnlyIdleCapacity, InFlightIsBacked, PTL

\* Nothing but an admission within the limit makes the allocation grow.
LEMMA GrowthStep ==
  ASSUME IInv, [Next]_vars, primaryUsed' + granted' > primaryUsed + granted
  PROVE  primaryUsed' + granted' <= limit
<1>1. primaryUsed \in Nat /\ granted \in Nat /\ limit \in Nat
  BY SlotsAssumption DEF IInv, TypeOK
<1>2. CASE UNCHANGED <<primaryUsed, granted>>
  BY <1>1, <1>2
<1>3. ASSUME NEW q \in PrimaryRequests, PrimaryAcquire(q)
      PROVE  primaryUsed' + granted' <= limit
  BY <1>1, <1>3 DEF PrimaryAcquire
<1>4. ASSUME NEW q \in PrimaryRequests, PrimaryRelease(q)
      PROVE  primaryUsed' + granted' <= limit
  BY <1>1, <1>4 DEF PrimaryRelease
<1>5. ASSUME NEW m \in wire, IssueAllocate(m)
      PROVE  primaryUsed' + granted' <= limit
  <2>1. m.g.slots \in Nat
    BY WireType, GrantNumbers
  <2> QED
    BY <1>1, <1>5, <2>1 DEF IssueAllocate, RoomFor
<1>6. ASSUME NEW c \in receipts, Close(c)
      PROVE  primaryUsed' + granted' <= limit
  <2>1. grants[c.lease].g.slots \in Nat
    BY <1>6, GrantNumbers DEF Close, IInv, TypeOK
  <2> QED
    BY <1>1, <1>6, <2>1 DEF Close
<1>7. CASE Authority
  BY <1>2, <1>3, <1>4, <1>5, <1>6, <1>7
     DEF Authority, SetLimit, IssueRepeated, IssueReject, RenewRepeated, RenewAdvance,
         BeginDrain, TickPrimary, authorityVars
<1>8. CASE Region
  <2>1. UNCHANGED authorityVars
    BY <1>8 DEF Region, AcquireResource, ReleaseResource, Drain, LocalClose, TickRegion
  <2> QED
    BY <1>2, <2>1 DEF authorityVars
<1>9. CASE Broker
  <2>1. ASSUME NEW r \in Regions, NEW c \in Capacities,
               EnsureIssue(r, c) \/ EnsureRenew(r, c)
        PROVE  UNCHANGED authorityVars
    BY <2>1 DEF EnsureIssue, EnsureRenew, Persist
  <2>2. ASSUME NEW k \in DOMAIN operations,
               \/ Replay(k) \/ ReplayFails(k) \/ ReplayRejected(k)
               \/ ReplayInstall(k) \/ ReplayInstalled(k)
        PROVE  UNCHANGED authorityVars
    BY <2>2 DEF Replay, ReplayFails, ReplayRejected, ReplayInstall, ReplayInstalled
  <2>3. UNCHANGED authorityVars
    BY <1>9, <2>1, <2>2 DEF Broker
  <2> QED
    BY <1>2, <2>3 DEF authorityVars
<1>10. CASE UNCHANGED vars
  BY <1>2, <1>10 DEF vars, authorityVars
<1> QED
  BY <1>7, <1>8, <1>9, <1>10 DEF Next

\* The allocation of the resource grows only up to the limit in force.
THEOREM GrowthIsWithinLimit == Spec => GrowthWithinLimit
<1>1. IInv /\ [Next]_vars
        => [primaryUsed' + granted' > primaryUsed + granted
              => primaryUsed' + granted' <= limit]_vars
  BY GrowthStep
<1> QED
  BY <1>1, Invariance, PTL DEF Spec, GrowthWithinLimit

-----------------------------------------------------------------------------
(* One grant and one operation per region, and no grant without an owner. *)

\* A region has one open grant and one outstanding operation, and an issue is
\* outstanding only while no grant but its own is open.
OneAtATime ==
  /\ \A l, m \in DOMAIN localGrants :
       /\ localGrants[l].state = "open" /\ localGrants[m].state = "open"
       /\ localGrants[l].g.region = localGrants[m].g.region
       => l = m
  /\ \A j, k \in DOMAIN operations :
       /\ operations[j].state = "pending" /\ operations[k].state = "pending"
       /\ operations[j].g.region = operations[k].g.region
       => j = k
  /\ \A k \in DOMAIN operations : \A l \in DOMAIN localGrants :
       /\ operations[k].state = "pending" /\ localGrants[l].state = "open"
       /\ operations[k].g.region = localGrants[l].g.region
       /\ operations[k].op = "issue"
       => l = operations[k].g.id

\* What became of an operation: only a pending one is called about, and the
\* tables of region and authority agree with how it ended.
OutcomesSound ==
  \A k \in DOMAIN operations :
    LET l == operations[k].g.id IN
      /\ operations[k].op = "renew" => l \in DOMAIN localGrants
      /\ operations[k].state = "installed" => l \in DOMAIN localGrants
      /\ operations[k].state = "rejected" => l \in rejections
      /\ calls[k] # "idle" => operations[k].state = "pending"
      /\ calls[k] = "stored" => l \in DOMAIN localGrants
      /\ calls[k] = "gone" => l \in rejections

RejectedNotGranted == rejections \cap DOMAIN grants = {}

OwnersInv == OneAtATime /\ OutcomesSound /\ RejectedNotGranted /\ NoOrphanGrant

\* A step that opens, grants and settles nothing.
LEMMA OwnersKept ==
  ASSUME OwnersInv, UNCHANGED <<rejections, operations, calls>>,
         DOMAIN grants' = DOMAIN grants, LiveGrants' \subseteq LiveGrants,
         DOMAIN localGrants' = DOMAIN localGrants,
         \A l \in DOMAIN localGrants :
           /\ localGrants'[l].g.region = localGrants[l].g.region
           /\ localGrants'[l].state = "open" => localGrants[l].state = "open"
  PROVE  OwnersInv'
<1> USE DEF OwnersInv
<1>1. OneAtATime'
  BY DEF OneAtATime
<1>2. OutcomesSound' /\ RejectedNotGranted'
  BY DEF OutcomesSound, RejectedNotGranted
<1>3. NoOrphanGrant'
  BY DEF NoOrphanGrant
<1> QED
  BY <1>1, <1>2, <1>3

LEMMA LiveSame ==
  ASSUME UNCHANGED grants
  PROVE  LiveGrants' \subseteq LiveGrants /\ DOMAIN grants' = DOMAIN grants
BY DEF LiveGrants

\* The authority's answer to a persisted operation that is still pending.
LEMMA OwnersAnswered ==
  ASSUME IInv, OwnersInv, NEW m \in wire, NEW status \in {"ok", "gone"}, Answer(m, status),
         UNCHANGED localGrants, RejectedNotGranted', rejections \subseteq rejections',
         status = "gone" => m.g.id \in rejections',
         \A l \in LiveGrants' : l \in LiveGrants \/ (l = m.g.id /\ Key(m.g) = <<l, 1>> /\ l \notin rejections)
  PROVE  OwnersInv'
<1> USE DEF OwnersInv
<1>1. Key(m.g) \in DOMAIN operations /\ operations[Key(m.g)].g = m.g /\ UNCHANGED operations
  BY WireType, AnswerEffect
<1>2. OneAtATime'
  BY <1>1 DEF OneAtATime
<1>3. OutcomesSound'
  <2>1. ASSUME NEW k \in DOMAIN operations
        PROVE  \/ calls'[k] = calls[k]
               \/ k = Key(m.g) /\ calls'[k] = status /\ operations[k].state = "pending"
    BY DEF Answer, IInv, TypeOK
  <2> QED
    BY <1>1, <2>1 DEF OutcomesSound
<1>4. NoOrphanGrant'
  <2> SUFFICES ASSUME NEW l \in LiveGrants'
               PROVE  \/ l \in DOMAIN localGrants
                      \/ <<l, 1>> \in DOMAIN operations /\ operations[<<l, 1>>].state = "pending"
    BY <1>1 DEF NoOrphanGrant
  <2>1. CASE l \in LiveGrants
    BY <2>1 DEF NoOrphanGrant
  <2>2. CASE l = m.g.id /\ Key(m.g) = <<l, 1>> /\ l \notin rejections
    <3>1. operations[<<l, 1>>].state \in {"pending", "installed", "rejected"}
      BY <1>1, <2>2 DEF IInv, TypeOK
    <3> QED
      BY <1>1, <2>2, <3>1 DEF OutcomesSound
  <2> QED
    BY <2>1, <2>2
<1> QED
  BY <1>2, <1>3, <1>4

LEMMA OwnersAuthority ==
  ASSUME IInv, OwnersInv, Authority
  PROVE  OwnersInv'
<1> USE DEF regionVars, brokerVars, authorityVars
<1>1. CASE TickPrimary \/ (\E n \in Limits : SetLimit(n))
           \/ \E q \in PrimaryRequests : PrimaryAcquire(q) \/ PrimaryRelease(q)
  <2>1. UNCHANGED <<grants, rejections, localGrants, operations, calls>>
    BY <1>1 DEF TickPrimary, SetLimit, PrimaryAcquire, PrimaryRelease
  <2> QED
    BY <2>1, OwnersKept, LiveSame
<1>2. ASSUME NEW l \in Leases, BeginDrain(l)
      PROVE  OwnersInv'
  <2>1. UNCHANGED <<rejections, localGrants, operations, calls>>
    BY <1>2 DEF BeginDrain
  <2>2. DOMAIN grants' = DOMAIN grants /\ LiveGrants' \subseteq LiveGrants
    BY <1>2 DEF BeginDrain, LiveGrants
  <2> QED
    BY <2>1, <2>2, OwnersKept
<1>3. ASSUME NEW c \in receipts, Close(c)
      PROVE  OwnersInv'
  <2>1. UNCHANGED <<rejections, localGrants, operations, calls>>
    BY <1>3 DEF Close
  <2>2. grants' = [grants EXCEPT ![c.lease].state = "closed"]
    BY <1>3 DEF Close
  <2>3. DOMAIN grants' = DOMAIN grants /\ LiveGrants' \subseteq LiveGrants
    BY <2>2 DEF LiveGrants
  <2> QED
    BY <2>1, <2>3, OwnersKept
<1>4. ASSUME NEW m \in wire, IssueRepeated(m) \/ RenewRepeated(m)
      PROVE  OwnersInv'
  <2>1. Answer(m, "ok") /\ UNCHANGED <<rejections, localGrants, grants>>
    BY <1>4 DEF IssueRepeated, RenewRepeated
  <2> QED
    BY <2>1, OwnersAnswered, LiveSame DEF OwnersInv, RejectedNotGranted
<1>5. ASSUME NEW m \in wire, RenewAdvance(m)
      PROVE  OwnersInv'
  <2>1. /\ Answer(m, "ok") /\ UNCHANGED <<rejections, localGrants>>
        /\ grants' = [grants EXCEPT ![m.g.id].g = m.g] /\ m.g.id \in DOMAIN grants
    BY <1>5 DEF RenewAdvance
  <2>2. DOMAIN grants' = DOMAIN grants /\ LiveGrants' \subseteq LiveGrants
    BY <2>1 DEF LiveGrants, IInv, TypeOK
  <2> QED
    BY <2>1, <2>2, OwnersAnswered DEF OwnersInv, RejectedNotGranted
<1>6. ASSUME NEW m \in wire, IssueReject(m)
      PROVE  OwnersInv'
  <2>1. /\ Answer(m, "gone") /\ UNCHANGED <<grants, localGrants>>
        /\ rejections' = rejections \cup {m.g.id} /\ m.g.id \notin DOMAIN grants
    BY <1>6 DEF IssueReject, Rejectable
  <2>2. RejectedNotGranted'
    BY <2>1 DEF OwnersInv, RejectedNotGranted
  <2> QED
    BY <2>1, <2>2, OwnersAnswered, LiveSame
<1>7. ASSUME NEW m \in wire, IssueAllocate(m)
      PROVE  OwnersInv'
  <2>1. /\ Answer(m, "ok") /\ UNCHANGED <<rejections, localGrants>>
        /\ grants' = Put(grants, m.g.id, [g |-> m.g, state |-> "open"])
        /\ m.g.revision = 1 /\ m.g.id \notin rejections
    BY <1>7 DEF IssueAllocate
  <2>2. /\ DOMAIN grants' = DOMAIN grants \cup {m.g.id}
        /\ \A l \in LiveGrants' : l \in LiveGrants \/ l = m.g.id
    BY <2>1 DEF LiveGrants, Put
  <2>3. RejectedNotGranted'
    BY <2>1, <2>2 DEF OwnersInv, RejectedNotGranted
  <2> QED
    BY <2>1, <2>2, <2>3, OwnersAnswered DEF Key
<1> QED
  BY <1>1, <1>2, <1>3, <1>4, <1>5, <1>6, <1>7 DEF Authority

LEMMA OwnersRegion ==
  ASSUME IInv, OwnersInv, Region
  PROVE  OwnersInv'
<1> USE DEF authorityVars, brokerVars
<1>1. UNCHANGED <<grants, rejections, operations, calls>>
  BY DEF Region, AcquireResource, ReleaseResource, Drain, LocalClose, TickRegion
<1>2. /\ DOMAIN localGrants' = DOMAIN localGrants
      /\ \A l \in DOMAIN localGrants :
           /\ localGrants'[l].g.region = localGrants[l].g.region
           /\ localGrants'[l].state = "open" => localGrants[l].state = "open"
  <2>1. \A l \in DOMAIN localGrants : localGrants[l] \in [g: Grant, used: Nat, state: GrantState]
    BY DEF IInv, TypeOK
  <2>2. ASSUME NEW r \in Regions, NEW q \in RegionRequests, AcquireResource(r, q)
        PROVE  <1>2!1 /\ <1>2!2
    <3>1. PICK l \in DOMAIN localGrants : localGrants' = [localGrants EXCEPT ![l].used = @ + 1]
      BY <2>2 DEF AcquireResource
    <3> QED
      BY <2>1, <3>1
  <2>3. ASSUME NEW r \in Regions, NEW q \in RegionRequests, ReleaseResource(r, q)
        PROVE  <1>2!1 /\ <1>2!2
    <3>1. CASE UNCHANGED localGrants
      BY <3>1
    <3>2. CASE localGrants' = [localGrants EXCEPT ![localSlots[<<r, q>>].lease].used = @ - 1]
      BY <2>1, <3>2
    <3> QED
      BY <2>3, <3>1, <3>2 DEF ReleaseResource
  <2>4. ASSUME NEW l \in Leases, Drain(l) \/ LocalClose(l)
        PROVE  <1>2!1 /\ <1>2!2
    <3>1. PICK s \in {"draining", "closed"} : localGrants' = [localGrants EXCEPT ![l].state = s]
      BY <2>4 DEF Drain, LocalClose
    <3> QED
      BY <2>1, <3>1
  <2>5. ASSUME NEW r \in Regions, TickRegion(r)
        PROVE  <1>2!1 /\ <1>2!2
    BY <2>5 DEF TickRegion
  <2> QED
    BY <2>2, <2>3, <2>4, <2>5 DEF Region
<1> QED
  BY <1>1, <1>2, OwnersKept, LiveSame

\* A new operation is persisted while its region has none outstanding.
LEMMA OwnersPersisted ==
  ASSUME IInv, OwnersInv, NEW op \in {"issue", "renew"}, NEW g, Persist(op, g),
         NothingPending(g.region),
         op = "issue" => OpenGrants(g.region) = {},
         op = "renew" => g.id \in DOMAIN localGrants
  PROVE  OwnersInv'
<1> USE DEF OwnersInv
<1> DEFINE k == Key(g)
<1>1. /\ k \notin DOMAIN operations
      /\ DOMAIN operations' = DOMAIN operations \cup {k}
      /\ operations'[k] = [op |-> op, g |-> g, state |-> "pending"]
      /\ \A x \in DOMAIN operations : operations'[x] = operations[x]
      /\ UNCHANGED <<rejections, grants, localGrants>>
  BY DEF Persist, Put, authorityVars, regionVars
<1>2. /\ calls'[k] = "idle" /\ \A x \in DOMAIN operations : calls'[x] = calls[x]
  <2>1. DOMAIN calls = DOMAIN operations
    BY DEF IInv, TypeOK
  <2> QED
    BY <1>1, <2>1 DEF Persist, Put
<1>3. operations'[k].op = op /\ operations'[k].g = g /\ operations'[k].state = "pending"
  BY <1>1
<1>4. /\ \A x \in DOMAIN operations : operations[x].g.region = g.region => operations[x].state # "pending"
      /\ op = "issue" => \A l \in DOMAIN localGrants : localGrants[l].g.region = g.region => localGrants[l].state # "open"
  BY DEF NothingPending, PendingOps, OpenGrants
<1> HIDE DEF k
<1>5. OneAtATime'
  <2>1. \A i, j \in DOMAIN operations' :
          /\ operations'[i].state = "pending" /\ operations'[j].state = "pending"
          /\ operations'[i].g.region = operations'[j].g.region
          => i = j
    BY <1>1, <1>3, <1>4 DEF OneAtATime
  <2>2. \A j \in DOMAIN operations' : \A l \in DOMAIN localGrants' :
          /\ operations'[j].state = "pending" /\ localGrants'[l].state = "open"
          /\ operations'[j].g.region = localGrants'[l].g.region
          /\ operations'[j].op = "issue"
          => l = operations'[j].g.id
    BY <1>1, <1>3, <1>4 DEF OneAtATime
  <2> QED
    BY <1>1, <2>1, <2>2 DEF OneAtATime
<1>6. OutcomesSound'
  BY <1>1, <1>2, <1>3 DEF OutcomesSound
<1>7. RejectedNotGranted'
  BY <1>1 DEF RejectedNotGranted
<1>8. NoOrphanGrant'
  BY <1>1, LiveSame DEF NoOrphanGrant
<1> QED
  BY <1>5, <1>6, <1>7, <1>8

LEMMA OwnersEnsure ==
  ASSUME IInv, OwnersInv, NEW r \in Regions, NEW c \in Capacities, EnsureIssue(r, c) \/ EnsureRenew(r, c)
  PROVE  OwnersInv'
<1>1. CASE EnsureIssue(r, c)
  <2>1. PICK l \in Leases :
          Persist("issue", [id |-> l, region |-> r, slots |-> c, revision |-> 1,
                            issuedAt |-> regionNow[r], expiresAt |-> regionNow[r] + Lifetime])
    BY <1>1 DEF EnsureIssue
  <2> DEFINE g == [id |-> l, region |-> r, slots |-> c, revision |-> 1,
                   issuedAt |-> regionNow[r], expiresAt |-> regionNow[r] + Lifetime]
  <2>2. Persist("issue", g) /\ g.region = r
    BY <2>1
  <2> HIDE DEF g
  <2> QED
    BY <1>1, <2>2, OwnersPersisted DEF EnsureIssue
<1>2. CASE EnsureRenew(r, c)
  <2>1. PICK l \in OpenGrants(r) :
          Persist("renew", [localGrants[l].g EXCEPT !.revision = @ + 1, !.expiresAt = regionNow[r] + Lifetime])
    BY <1>2 DEF EnsureRenew
  <2> DEFINE g == [localGrants[l].g EXCEPT !.revision = @ + 1, !.expiresAt = regionNow[r] + Lifetime]
  <2>2. localGrants[l].g \in Grant /\ localGrants[l].g.region = r /\ localGrants[l].g.id = l /\ l \in DOMAIN localGrants
    BY DEF OpenGrants, IInv, TypeOK, RowsKeyed
  <2>3. Persist("renew", g) /\ g.region = r /\ g.id = l
    BY <2>1, <2>2 DEF Grant
  <2> HIDE DEF g
  <2> QED
    BY <1>2, <2>2, <2>3, OwnersPersisted DEF EnsureRenew
<1> QED
  BY <1>1, <1>2

\* An operation ends: nothing else is outstanding in its place.
LEMMA OwnersSettled ==
  ASSUME IInv, OwnersInv, NEW k \in DOMAIN operations, NEW s \in {"installed", "rejected"},
         operations' = [operations EXCEPT ![k].state = s],
         calls' = [calls EXCEPT ![k] = "idle"], UNCHANGED <<rejections, grants, localGrants>>,
         s = "installed" => operations[k].g.id \in DOMAIN localGrants,
         s = "rejected" => operations[k].g.id \in rejections
  PROVE  OwnersInv'
<1> USE DEF OwnersInv
<1>1. /\ DOMAIN operations' = DOMAIN operations
      /\ \A x \in DOMAIN operations :
           /\ operations'[x].g = operations[x].g /\ operations'[x].op = operations[x].op
           /\ operations'[x].state = IF x = k THEN s ELSE operations[x].state
  BY DEF IInv, TypeOK
<1>2. \A x \in DOMAIN operations : calls'[x] = IF x = k THEN "idle" ELSE calls[x]
  BY DEF IInv, TypeOK
<1>3. OneAtATime'
  <2>1. \A x \in DOMAIN operations : operations'[x].state = "pending" => operations[x].state = "pending"
    BY <1>1
  <2> QED
    BY <1>1, <2>1 DEF OneAtATime
<1>4. OutcomesSound' /\ RejectedNotGranted'
  BY <1>1, <1>2 DEF OutcomesSound, RejectedNotGranted
<1>5. NoOrphanGrant'
  <2> SUFFICES ASSUME NEW l \in LiveGrants
               PROVE  \/ l \in DOMAIN localGrants
                      \/ <<l, 1>> \in DOMAIN operations' /\ operations'[<<l, 1>>].state = "pending"
    BY LiveSame DEF NoOrphanGrant
  <2>1. CASE <<l, 1>> # k
    BY <1>1, <2>1 DEF NoOrphanGrant
  <2>2. CASE <<l, 1>> = k
    <3>1. operations[k].g.id = l
      BY <2>2 DEF IInv, RowsKeyed, Key
    <3>2. l \notin rejections
      BY DEF RejectedNotGranted, LiveGrants
    <3> QED
      BY <3>1, <3>2
  <2> QED
    BY <2>1, <2>2
<1> QED
  BY <1>3, <1>4, <1>5

LEMMA OwnersInstalled ==
  ASSUME IInv, OwnersInv, NEW k \in DOMAIN operations, ReplayInstall(k)
  PROVE  OwnersInv'
<1> USE DEF OwnersInv
<1> DEFINE g == operations[k].g
<1>1. /\ UNCHANGED <<rejections, grants, operations>>
      /\ operations[k].state = "pending" /\ g \in Grant
  BY DEF ReplayInstall, Confirmed, OutcomesSound, authorityVars, IInv, TypeOK
<1>2. \A x \in DOMAIN operations : calls'[x] = IF x = k THEN "stored" ELSE calls[x]
  BY DEF ReplayInstall, IInv, TypeOK
<1>3. /\ DOMAIN localGrants' = DOMAIN localGrants \cup {g.id}
      /\ localGrants'[g.id].g.region = g.region
      /\ \A l \in DOMAIN localGrants :
           /\ localGrants'[l].g.region = localGrants[l].g.region
           /\ localGrants'[l].state = localGrants[l].state
      /\ g.id \notin DOMAIN localGrants => operations[k].op = "issue"
  <2>1. CASE g.id \in DOMAIN localGrants
    <3>1. localGrants' = [localGrants EXCEPT ![g.id].g = g] /\ localGrants[g.id].g.region = g.region
      BY <2>1 DEF ReplayInstall, Install, Installable, sameIdentity
    <3>2. \A l \in DOMAIN localGrants : localGrants[l] \in [g: Grant, used: Nat, state: GrantState]
      BY DEF IInv, TypeOK
    <3> HIDE DEF g
    <3> QED
      BY <2>1, <3>1, <3>2
  <2>2. CASE g.id \notin DOMAIN localGrants
    <3>1. localGrants' = Put(localGrants, g.id, [g |-> g, used |-> 0, state |-> "open"])
      BY <2>2 DEF ReplayInstall, Install
    <3>2. operations[k].op = "issue"
      BY <2>2 DEF OutcomesSound, IInv, TypeOK
    <3> HIDE DEF g
    <3> QED
      BY <2>2, <3>1, <3>2 DEF Put
  <2> QED
    BY <2>1, <2>2
<1>4. OneAtATime'
  <2>1. ASSUME NEW l \in DOMAIN localGrants, localGrants[l].state = "open",
               localGrants[l].g.region = g.region, g.id \notin DOMAIN localGrants
        PROVE  FALSE
    BY <1>1, <1>3, <2>1 DEF OneAtATime
  <2>2. \A l, m \in DOMAIN localGrants' :
          /\ localGrants'[l].state = "open" /\ localGrants'[m].state = "open"
          /\ localGrants'[l].g.region = localGrants'[m].g.region
          => l = m
    BY <1>3, <2>1 DEF OneAtATime
  <2>3. ASSUME NEW j \in DOMAIN operations, NEW l \in DOMAIN localGrants',
               operations[j].state = "pending", localGrants'[l].state = "open",
               operations[j].g.region = localGrants'[l].g.region, operations[j].op = "issue"
        PROVE  l = operations[j].g.id
    <3>1. CASE l \in DOMAIN localGrants
      BY <1>3, <2>3, <3>1 DEF OneAtATime
    <3>2. CASE l \notin DOMAIN localGrants
      <4>1. l = g.id /\ operations[j].g.region = g.region
        BY <1>3, <2>3, <3>2
      <4>2. j = k
        BY <1>1, <2>3, <4>1 DEF OneAtATime
      <4> QED
        BY <4>1, <4>2
    <3> QED
      BY <3>1, <3>2
  <2> QED
    BY <1>1, <2>2, <2>3 DEF OneAtATime
<1>5. OutcomesSound'
  BY <1>1, <1>2, <1>3 DEF OutcomesSound
<1>6. RejectedNotGranted' /\ NoOrphanGrant'
  BY <1>1, <1>3, LiveSame DEF RejectedNotGranted, NoOrphanGrant
<1> QED
  BY <1>4, <1>5, <1>6

LEMMA OwnersBroker ==
  ASSUME IInv, OwnersInv, Broker
  PROVE  OwnersInv'
<1> USE DEF authorityVars, regionVars
<1>1. ASSUME NEW k \in DOMAIN operations, Replay(k)
      PROVE  OwnersInv'
  BY <1>1, OwnersKept, LiveSame DEF Replay
<1>2. ASSUME NEW k \in DOMAIN operations, ReplayFails(k)
      PROVE  OwnersInv'
  <2>1. /\ UNCHANGED <<rejections, grants, localGrants, operations>>
        /\ \A x \in DOMAIN operations : calls'[x] = calls[x] \/ calls'[x] = "idle"
    BY <1>2 DEF ReplayFails, IInv, TypeOK
  <2>2. OutcomesSound'
    BY <2>1 DEF OutcomesSound, OwnersInv
  <2> QED
    BY <2>1, <2>2, LiveSame DEF OwnersInv, OneAtATime, RejectedNotGranted, NoOrphanGrant
<1>3. ASSUME NEW k \in DOMAIN operations, ReplayRejected(k)
      PROVE  OwnersInv'
  <2>1. operations[k].g.id \in rejections
    BY <1>3 DEF ReplayRejected, ToldGone, OwnersInv, OutcomesSound
  <2> QED
    BY <1>3, <2>1, OwnersSettled DEF ReplayRejected
<1>4. ASSUME NEW k \in DOMAIN operations, ReplayInstalled(k)
      PROVE  OwnersInv'
  <2>1. operations[k].g.id \in DOMAIN localGrants
    BY <1>4 DEF ReplayInstalled, OwnersInv, OutcomesSound
  <2> QED
    BY <1>4, <2>1, OwnersSettled DEF ReplayInstalled
<1> QED
  BY <1>1, <1>2, <1>3, <1>4, OwnersEnsure, OwnersInstalled DEF Broker

LEMMA InitOwners == Init => OwnersInv
BY DEF Init, Empty, OwnersInv, OneAtATime, OutcomesSound, RejectedNotGranted, NoOrphanGrant, LiveGrants

LEMMA NextOwners == IInv /\ OwnersInv /\ [Next]_vars => OwnersInv'
<1> SUFFICES ASSUME IInv, OwnersInv, [Next]_vars PROVE OwnersInv'
  OBVIOUS
<1>1. CASE UNCHANGED vars
  <2>1. UNCHANGED <<rejections, operations, calls, grants, localGrants>>
    BY <1>1 DEF vars, authorityVars, regionVars, brokerVars
  <2> QED
    BY <2>1, OwnersKept, LiveSame
<1> QED
  BY <1>1, OwnersAuthority, OwnersRegion, OwnersBroker DEF Next

\* Every grant and every operation has its owner in every reachable state.
THEOREM OwnersInvariance == Spec => []OwnersInv
BY InitOwners, NextOwners, Invariance, PTL DEF Spec

\* No slots are reserved for a lease its region has neither installed nor still
\* asks for, whatever answers of Primary.Issue were lost (Broker.Replay).
THEOREM NoGrantIsOrphaned == Spec => []NoOrphanGrant
<1>1. OwnersInv => NoOrphanGrant
  BY DEF OwnersInv
<1> QED
  BY <1>1, OwnersInvariance, PTL

LEMMA AtMostOne ==
  ASSUME NEW S, \A x, y \in S : x = y
  PROVE  Cardinality(S) <= 1
<1>1. CASE S = {}
  BY <1>1, FS_EmptySet
<1>2. CASE S # {}
  <2>1. PICK x : x \in S
    BY <1>2
  <2>2. S = {x}
    BY <2>1
  <2>3. Cardinality({x}) = 1
    BY FS_Singleton, Zenon
  <2> QED
    BY <2>2, <2>3
<1> QED
  BY <1>1, <1>2

\* A region never hands out two grants at once and never has two operations
\* outstanding (Broker.EnsureSlots), for any number of regions and leases.
THEOREM OneGrantIsOpen == Spec => []OneOpenGrant
<1>1. OwnersInv => OneOpenGrant
  <2> SUFFICES ASSUME OwnersInv, NEW r \in Regions
               PROVE  Cardinality(OpenGrants(r)) <= 1 /\ Cardinality(PendingOps(r)) <= 1
    BY DEF OneOpenGrant
  <2>1. \A x, y \in OpenGrants(r) : x = y
    BY DEF OwnersInv, OneAtATime, OpenGrants
  <2>2. \A x, y \in PendingOps(r) : x = y
    BY DEF OwnersInv, OneAtATime, PendingOps
  <2> QED
    BY <2>1, <2>2, AtMostOne
<1> QED
  BY <1>1, OwnersInvariance, PTL

-----------------------------------------------------------------------------
(* Request identities. *)

\* What no step may do to a request's row.
RowsPermanent ==
  /\ \A q \in DOMAIN primarySlots :
       primarySlots[q] = "released" => primarySlots'[q] = "released"
  /\ \A h \in DOMAIN localSlots :
       /\ localSlots'[h].lease = localSlots[h].lease
       /\ localSlots[h].released => localSlots'[h].released

LEMMA RowsStep ==
  ASSUME IInv, [Next]_vars
  PROVE  RowsPermanent
<1> USE DEF authorityVars, regionVars, brokerVars
<1>1. CASE UNCHANGED <<primarySlots, localSlots>>
  BY <1>1 DEF RowsPermanent
<1>2. ASSUME NEW q \in PrimaryRequests, PrimaryAcquire(q) \/ PrimaryRelease(q)
      PROVE  RowsPermanent
  <2>1. UNCHANGED localSlots
    BY <1>2 DEF PrimaryAcquire, PrimaryRelease
  <2>2. \A x \in DOMAIN primarySlots : primarySlots[x] = "released" => primarySlots'[x] = "released"
    BY <1>2 DEF PrimaryAcquire, PrimaryRelease, Put, Unknown
  <2> QED
    BY <2>1, <2>2 DEF RowsPermanent
<1>3. ASSUME NEW r \in Regions, NEW q \in RegionRequests, AcquireResource(r, q)
      PROVE  RowsPermanent
  <2>1. UNCHANGED primarySlots /\ <<r, q>> \notin DOMAIN localSlots
    BY <1>3 DEF AcquireResource, Fresh
  <2>2. PICK l : localSlots' = Put(localSlots, <<r, q>>, [lease |-> l, released |-> FALSE])
    BY <1>3 DEF AcquireResource
  <2>3. \A h \in DOMAIN localSlots : localSlots'[h] = localSlots[h]
    BY <2>1, <2>2 DEF Put
  <2> QED
    BY <2>1, <2>3 DEF RowsPermanent
<1>4. ASSUME NEW r \in Regions, NEW q \in RegionRequests, ReleaseResource(r, q)
      PROVE  RowsPermanent
  <2>1. UNCHANGED primarySlots
    BY <1>4 DEF ReleaseResource
  <2>2. CASE localSlots' = [localSlots EXCEPT ![<<r, q>>].released = TRUE]
    <3>1. \A h \in DOMAIN localSlots : localSlots[h] \in [lease: Leases, released: BOOLEAN]
      BY DEF IInv, TypeOK
    <3>2. \A h \in DOMAIN localSlots : localSlots'[h].lease = localSlots[h].lease
      BY <2>2, <3>1
    <3>3. \A h \in DOMAIN localSlots : localSlots[h].released => localSlots'[h].released
      BY <2>2, <3>1
    <3> QED
      BY <2>1, <3>2, <3>3 DEF RowsPermanent
  <2> QED
    BY <1>1, <1>4, <2>1, <2>2 DEF ReleaseResource
<1>5. CASE Authority /\ ~ \E q \in PrimaryRequests : PrimaryAcquire(q) \/ PrimaryRelease(q)
  <2>1. UNCHANGED <<primarySlots, localSlots>>
    BY <1>5 DEF Authority, SetLimit, IssueRepeated, IssueReject, IssueAllocate, RenewRepeated,
                RenewAdvance, BeginDrain, Close, TickPrimary
  <2> QED
    BY <1>1, <2>1
<1>6. CASE \/ \E l \in Leases : Drain(l) \/ LocalClose(l)
           \/ \E r \in Regions : TickRegion(r)
  BY <1>1, <1>6 DEF Drain, LocalClose, TickRegion
<1>7. CASE Broker
  <2>1. UNCHANGED <<primarySlots, localSlots>>
    BY <1>7 DEF Broker, EnsureIssue, EnsureRenew, Persist, Replay, ReplayFails, ReplayRejected,
                ReplayInstall, ReplayInstalled
  <2> QED
    BY <1>1, <2>1
<1>8. CASE UNCHANGED vars
  BY <1>1, <1>8 DEF vars
<1> QED
  BY <1>2, <1>3, <1>4, <1>5, <1>6, <1>7, <1>8 DEF Next, Region

\* A request released on the primary never gets a slot again, and one bound to
\* a lease never moves to another (Primary.AcquireTx, Local.AcquireTx).
THEOREM IdentitiesArePermanent == Spec => IdentitiesPermanent
<1>1. IInv /\ [Next]_vars => [RowsPermanent]_vars
  BY RowsStep
<1>2. Spec => [][RowsPermanent]_vars
  BY <1>1, Invariance, PTL DEF Spec
<1> QED
  BY <1>2 DEF IdentitiesPermanent, RowsPermanent
=============================================================================

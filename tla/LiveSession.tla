---------------------------- MODULE LiveSession ----------------------------
(* One Live session on a site that keeps its slots in SQL: the handler takes *)
(* ordinary slots of the key, the user and an account, createLiveCall moves  *)
(* them in one transaction to a Live lease, retries the upstream call on     *)
(* other accounts, and leaves the session to an observer that a client's     *)
(* control connection may replace and hand back.                             *)
(*                                                                           *)
(* A slot row is identified by its resource and its request.  Rows of        *)
(* different sessions never meet, so one session is modelled; whether a      *)
(* resource has room is RegionalSlots' and KeyQueue's subject and is a       *)
(* choice here.  Every SQL operation below is one transaction.               *)
EXTENDS Naturals, FiniteSets

CONSTANTS
  Accounts,     \* accounts the scheduler may select
  Key, User,    \* the other two resources of the session
  Limited,      \* resources with a positive concurrency limit
  Attempts,     \* upstream attempts of one creation (4 in the code)
  Agents,       \* goroutines that may come to control the session
  Faults,       \* calls that may fail
  None

Resources == Accounts \cup {Key, User}

Calls == {"renew", "transfer", "abort", "account", "joint", "save",
          "claim", "get", "handback", "mark", "close"}

ASSUME LiveAssumption ==
  /\ Key \notin Accounts /\ User \notin Accounts /\ Key # User
  /\ None \notin Resources \cup Agents
  /\ Limited \subseteq Resources
  /\ Attempts \in Nat \ {0}
  /\ Faults \subseteq Calls

VARIABLES
  \* SQL
  rows,         \* resource -> the state of the rows of the two request ids
  handoff,      \* the row of regional_live_handoffs
  \* the creating process
  pc, account,  \* where createLiveCall is; the account selected last
  joint,        \* the Live lease the creation owns, as the process knows it
  excluded,     \* accounts that failed
  consumed,     \* the key reservation belongs to the transfer
  renewal, worker,      \* watchdog and refresh worker of the key reservation
  cancelled,    \* the owner was stopped: "API key concurrency lease lost"
  spoiled,      \* history: a clean-up call has failed
  \* Redis
  controller, owner,    \* who controls the session
  \* the session
  agent,        \* control goroutine -> what it is doing
  expired,      \* the maximum duration of the session has passed
  logged        \* usage records written

sqlVars == <<rows, handoff>>
renewVars == <<renewal, worker, cancelled>>
creationVars == <<pc, account, joint, excluded, consumed>>
callVars == <<creationVars, spoiled>>
sessionVars == <<controller, owner, agent, expired, logged>>
vars == <<sqlVars, renewVars, callVars, sessionVars>>

RowStates == {"absent", "held", "released"}
AgentStates == {"idle", "observe", "watch", "connected", "retry", "await",
                "dial", "proxy", "handback", "ended", "finalize", "close", "done"}
Steps == {"reserve", "user", "select", "pause", "transfer", "abort", "migrate",
          "abort_migration", "dial", "drop_member", "save", "joint",
          "drop_account", "drop_lease", "drop_key", "leave", "leave_key", "gone"}

\* The types of the state; a session record names an owner exactly while an
\* observer or a proxy controls it, as the three Redis scripts leave it.
TypeOK ==
  /\ rows \in [Resources -> [source : RowStates, live : RowStates]]
  /\ handoff \in [state : {"none", "active", "aborted", "closed"},
                  account : Accounts \cup {None}]
  /\ pc \in Steps
  /\ account \in Accounts \cup {None}
  /\ joint \in [held : BOOLEAN, account : Accounts \cup {None}]
  /\ excluded \subseteq Accounts
  /\ consumed \in BOOLEAN /\ cancelled \in BOOLEAN /\ spoiled \in BOOLEAN
  /\ renewal \in {"off", "running", "stopped"}
  /\ worker \in {"idle", "asking", "held", "gone", "done"}
  /\ controller \in {"none", "pending", "observer", "proxy", "closed"}
  /\ owner \in Agents \cup {None}
  /\ (owner = None) <=> (controller \in {"none", "pending", "closed"})
  /\ agent \in [Agents -> AgentStates]
  /\ expired \in BOOLEAN
  /\ logged \in Nat

Init ==
  /\ rows = [r \in Resources |-> [source |-> "absent", live |-> "absent"]]
  /\ handoff = [state |-> "none", account |-> None]
  /\ pc = "reserve" /\ account = None
  /\ joint = [held |-> FALSE, account |-> None]
  /\ excluded = {} /\ consumed = FALSE /\ spoiled = FALSE
  /\ renewal = "off" /\ worker = "done" /\ cancelled = FALSE
  /\ controller = "none" /\ owner = None
  /\ agent = [g \in Agents |-> "idle"]
  /\ expired = FALSE /\ logged = 0

-----------------------------------------------------------------------------
(* The store. *)

MayFail(call) == call \in Faults

\* liveMembers, those that are limited
Members(a) == {a, Key, User} \cap Limited

SourcesHeld(rs) ==
  \A r \in rs : rows[r].source = "held" /\ rows[r].live = "absent"

\* mutant: the source keeps its slot beside the Live one
MovedKeepsSource(rs) ==
  [r \in Resources |-> IF r \in rs THEN [source |-> "held", live |-> "held"] ELSE rows[r]]

\* moveLiveMember: the row takes the Live identity, the source stays retired
Moved(rs) ==
  [r \in Resources |-> IF r \in rs THEN [source |-> "released", live |-> "held"]
                                   ELSE rows[r]]

\* ReleaseTx: the request is retired whether it held the slot or not
Released(table, rs, id) ==
  [r \in Resources |-> IF r \in rs THEN [table[r] EXCEPT ![id] = "released"]
                                   ELSE table[r]]

ReleaseSource(rs) == rows' = Released(rows, rs \cap Limited, "source")

\* AcquireLiveLeaseTransferring
Transferable == handoff.state = "none" /\ SourcesHeld(Members(account))

Transferred ==
  /\ rows' = Moved(Members(account))
  /\ handoff' = [state |-> "active", account |-> account]

\* MigrateLiveLeaseAccount: an account that still holds its Live slot must be
\* named as the replaced one
ReplacedKnown ==
  IF joint.account # None THEN handoff.account = joint.account
                          ELSE \A r \in {handoff.account} \cap Limited : rows[r].live # "held"

Migratable ==
  handoff.state = "active" /\ ReplacedKnown /\ SourcesHeld({account} \cap Limited)

\* mutant: the account is read after the identity was overwritten
MovedTo == account

\* the account the lease leaves, as the stored identity names it
LeftBehind == handoff.account

Migrated ==
  /\ rows' = Released(Moved({account} \cap Limited), {LeftBehind} \cap Limited, "live")
  /\ handoff' = [handoff EXCEPT !.account = account]

\* finishLive: `sources` are the ordinary requests an abort retires as well
Finished(a, sources, final) ==
  LET kept == IF handoff.state = "none" THEN a ELSE handoff.account
  IN IF handoff.state \in {"aborted", "closed"}
     THEN UNCHANGED sqlVars
     ELSE /\ rows' = Released(Released(rows, Members(kept), "live"), sources, "source")
          /\ handoff' = [state |-> final, account |-> kept]

\* mutant: an abort retires the Live requests only
AbortedLive(sources) == Finished(account, {}, "aborted")

Aborted(sources) == Finished(account, sources, "aborted")

\* ReleaseLiveLease: the caller must name the account of the stored identity
ReleasedLease(a) ==
  IF handoff.account # a THEN UNCHANGED sqlVars ELSE Finished(a, {}, "closed")

\* ReleaseLiveLeaseAccount: only the account member, the identity stays
ReleasedMember(a) ==
  /\ IF handoff.account = a /\ handoff.state = "active"
     THEN rows' = Released(rows, {a} \cap Limited, "live")
     ELSE UNCHANGED rows
  /\ UNCHANGED handoff

-----------------------------------------------------------------------------
(* The watchdog and the refresh worker of the key reservation. *)

Lose ==
  /\ cancelled' = (cancelled \/ renewal = "running")
  /\ renewal' = (IF renewal = "running" THEN "stopped" ELSE renewal)

WorkerAsks ==
  /\ renewal = "running" /\ worker = "idle"
  /\ worker' = "asking"
  /\ UNCHANGED <<sqlVars, renewal, cancelled, callVars, sessionVars>>

\* RefreshAPIKeySlot reads the row of the ordinary request
WorkerServed ==
  /\ worker = "asking"
  /\ worker' = IF rows[Key].source = "held" THEN "held" ELSE "gone"
  /\ UNCHANGED <<sqlVars, renewal, cancelled, callVars, sessionVars>>

WorkerFails ==
  /\ MayFail("renew") /\ worker = "asking" /\ renewal = "running"
  /\ worker' = "idle"
  /\ UNCHANGED <<sqlVars, renewal, cancelled, callVars, sessionVars>>

\* a row that is there resets the watchdog, a missing one loses the lease
WorkerReplies ==
  /\ \/ worker = "held" /\ renewal = "running" /\ worker' = "idle"
        /\ UNCHANGED <<renewal, cancelled>>
     \/ worker = "gone" /\ worker' = "done" /\ Lose
  /\ UNCHANGED <<sqlVars, callVars, sessionVars>>

\* mutant: a worker with an answer at hand does not see the stop
WorkerStopsIdle ==
  /\ renewal = "stopped" /\ worker \in {"idle", "asking"}
  /\ worker' = "done"
  /\ UNCHANGED <<sqlVars, renewal, cancelled, callVars, sessionVars>>

WorkerStops ==
  /\ renewal = "stopped" /\ worker \in {"idle", "asking", "held"}
  /\ worker' = "done"
  /\ UNCHANGED <<sqlVars, renewal, cancelled, callVars, sessionVars>>

\* no renewal was acknowledged for too long
WatchdogFires ==
  /\ MayFail("renew") /\ renewal = "running"
  /\ Lose
  /\ UNCHANGED <<sqlVars, worker, callVars, sessionVars>>

\* stopRenewal, first half: nothing is lost from here on
StopRenewal ==
  /\ pc \in {"pause", "drop_key", "leave_key"} /\ renewal = "running"
  /\ renewal' = "stopped"
  /\ UNCHANGED <<sqlVars, worker, cancelled, callVars, sessionVars>>

\* stopRenewal, second half: it waits for the worker
Joined == renewal # "running" /\ worker = "done"

-----------------------------------------------------------------------------
(* The handler and createLiveCall. *)

ReserveKey ==
  /\ pc = "reserve"
  /\ IF Key \in Limited
     THEN /\ rows' = [rows EXCEPT ![Key].source = "held"]
          /\ renewal' = "running" /\ worker' = "idle"
     ELSE UNCHANGED <<rows, renewal, worker>>
  /\ pc' = "user"
  /\ UNCHANGED <<handoff, cancelled, account, joint, excluded, consumed, spoiled, sessionVars>>

AcquireUser ==
  /\ pc = "user"
  /\ \/ /\ ~ cancelled
        /\ rows' = (IF User \in Limited THEN [rows EXCEPT ![User].source = "held"] ELSE rows)
        /\ pc' = "select"
     \/ pc' = "leave_key" /\ UNCHANGED rows
  /\ UNCHANGED <<handoff, renewVars, account, joint, excluded, consumed, spoiled, sessionVars>>

SelectAccount(a) ==
  /\ pc = "select" /\ ~ cancelled
  /\ a \notin excluded
  /\ rows' = (IF a \in Limited THEN [rows EXCEPT ![a].source = "held"] ELSE rows)
  /\ account' = a
  /\ pc' = IF joint.held THEN "migrate" ELSE "pause"
  /\ UNCHANGED <<handoff, renewVars, joint, excluded, consumed, spoiled, sessionVars>>

SelectFails ==
  /\ pc = "select"
  /\ pc' = "joint"
  /\ UNCHANGED <<sqlVars, renewVars, account, joint, excluded, consumed, spoiled, sessionVars>>

\* mutant: the transfer does not wait for the pause
TransferAtOnce == pc = "pause"

MayTransfer == pc = "pause" /\ Joined

Transfer ==
  /\ MayTransfer /\ ~ cancelled /\ Transferable
  /\ Transferred
  /\ joint' = [held |-> TRUE, account |-> account]
  /\ consumed' = TRUE
  /\ pc' = "dial"
  /\ UNCHANGED <<renewVars, account, excluded, spoiled, sessionVars>>

\* the commit is not acknowledged: the transfer landed or it did not
TransferInDoubt ==
  /\ MayFail("transfer")
  /\ MayTransfer /\ ~ cancelled /\ Transferable
  /\ Transferred \/ UNCHANGED sqlVars
  /\ pc' = "abort"
  /\ UNCHANGED <<renewVars, account, joint, excluded, consumed, spoiled, sessionVars>>

TransferRefused ==
  /\ MayTransfer
  /\ MayFail("transfer") \/ cancelled \/ ~ Transferable
  /\ pc' = "drop_account"
  /\ UNCHANGED <<sqlVars, renewVars, account, joint, excluded, consumed, spoiled, sessionVars>>

AbortTransfer ==
  /\ pc = "abort"
  /\ \/ Aborted(Members(account)) /\ UNCHANGED spoiled
     \/ MayFail("abort") /\ spoiled' = TRUE /\ UNCHANGED sqlVars
  /\ consumed' = TRUE
  /\ pc' = "drop_account"
  /\ UNCHANGED <<renewVars, account, joint, excluded, sessionVars>>

\* after a first attempt without a lease: the account, the lease, the key
DropAccount ==
  /\ pc = "drop_account"
  /\ ReleaseSource({account})
  /\ pc' = "drop_lease"
  /\ UNCHANGED <<handoff, renewVars, account, joint, excluded, consumed, spoiled, sessionVars>>

DropLease ==
  /\ pc = "drop_lease"
  /\ \/ ReleasedLease(account) /\ UNCHANGED spoiled
     \/ MayFail("joint") /\ spoiled' = TRUE /\ UNCHANGED sqlVars
  /\ pc' = "drop_key"
  /\ UNCHANGED <<renewVars, account, joint, excluded, consumed, sessionVars>>

\* mutant: a paused reservation is taken for a consumed one
StopOnly == Joined /\ UNCHANGED rows

\* APIKeySlotReservation.Release: a consumed reservation is only stopped
ReleaseReservation ==
  /\ Joined
  /\ IF consumed THEN UNCHANGED rows ELSE ReleaseSource({Key})

DropKey ==
  /\ pc = "drop_key"
  /\ ReleaseReservation
  /\ pc' = "leave"
  /\ UNCHANGED <<handoff, renewVars, account, joint, excluded, consumed, spoiled, sessionVars>>

Migrate ==
  /\ pc = "migrate" /\ ~ cancelled /\ Migratable
  /\ Migrated
  /\ joint' = [joint EXCEPT !.account = account]
  /\ pc' = "dial"
  /\ UNCHANGED <<renewVars, account, excluded, consumed, spoiled, sessionVars>>

MigrateInDoubt ==
  /\ MayFail("transfer")
  /\ pc = "migrate" /\ ~ cancelled /\ Migratable
  /\ Migrated \/ UNCHANGED sqlVars
  /\ pc' = "abort_migration"
  /\ UNCHANGED <<renewVars, account, joint, excluded, consumed, spoiled, sessionVars>>

AbortMigration ==
  /\ pc = "abort_migration"
  /\ \/ Aborted({account} \cap Limited) /\ UNCHANGED spoiled
     \/ /\ MayFail("abort") /\ spoiled' = TRUE
        /\ ReleaseSource({account}) /\ UNCHANGED handoff
  /\ pc' = "joint"
  /\ UNCHANGED <<renewVars, account, joint, excluded, consumed, sessionVars>>

MigrateRefused ==
  /\ pc = "migrate"
  /\ MayFail("transfer") \/ cancelled \/ ~ Migratable
  /\ ReleaseSource({account})
  /\ pc' = "joint"
  /\ UNCHANGED <<handoff, renewVars, account, joint, excluded, consumed, spoiled, sessionVars>>

\* createUpstreamLiveCall, then the ordinary account slot is released
Dial ==
  /\ pc = "dial"
  /\ ReleaseSource({account})
  /\ pc' \in {"save", "drop_member"}
  /\ UNCHANGED <<handoff, renewVars, account, joint, excluded, consumed, spoiled, sessionVars>>

\* the failed account's slot is given back; the error may allow another attempt
DropMember ==
  /\ pc = "drop_member"
  /\ \/ ReleasedMember(account) /\ UNCHANGED spoiled
     \/ MayFail("account") /\ spoiled' = TRUE /\ UNCHANGED sqlVars
  /\ joint' = [joint EXCEPT !.account = None]
  /\ excluded' = excluded \cup {account}
  /\ pc' \in {"joint"} \cup
       (IF Cardinality(excluded) + 1 < Attempts THEN {"select"} ELSE {})
  /\ UNCHANGED <<renewVars, account, consumed, sessionVars>>

\* releaseJoint
ReleaseJoint ==
  /\ pc = "joint"
  /\ \/ /\ IF joint.held THEN ReleasedLease(joint.account) ELSE UNCHANGED sqlVars
        /\ UNCHANGED spoiled
     \/ MayFail("joint") /\ joint.held /\ spoiled' = TRUE /\ UNCHANGED sqlVars
  /\ joint' = [held |-> FALSE, account |-> None]
  /\ pc' = "leave"
  /\ UNCHANGED <<renewVars, account, excluded, consumed, sessionVars>>

SaveLiveCall(g) ==
  /\ pc = "save" /\ agent[g] = "idle"
  /\ controller' = "pending"
  /\ agent' = [agent EXCEPT ![g] = "observe"]
  /\ pc' = "leave"
  /\ UNCHANGED <<sqlVars, renewVars, account, joint, excluded, consumed, spoiled,
                 owner, expired, logged>>

SaveFails ==
  /\ MayFail("save") \/ cancelled
  /\ pc = "save"
  /\ pc' = "joint"
  /\ UNCHANGED <<sqlVars, renewVars, account, joint, excluded, consumed, spoiled, sessionVars>>

\* the handler's deferred releases: user, then key
Leave ==
  /\ pc = "leave"
  /\ ReleaseSource({User})
  /\ pc' = "leave_key"
  /\ UNCHANGED <<handoff, renewVars, account, joint, excluded, consumed, spoiled, sessionVars>>

LeaveKey ==
  /\ pc = "leave_key"
  /\ ReleaseReservation
  /\ pc' = "gone"
  /\ UNCHANGED <<handoff, renewVars, account, joint, excluded, consumed, spoiled, sessionVars>>

-----------------------------------------------------------------------------
(* The session: an observer, or the proxy of a client's control connection. *)

Goes(g, state) == agent' = [agent EXCEPT ![g] = state]

Expire ==
  /\ controller # "none" /\ ~ expired
  /\ expired' = TRUE
  /\ UNCHANGED <<sqlVars, renewVars, callVars, controller, owner, agent, logged>>

\* observeLiveCall: an observer only follows nobody
ObserverClaims(g) ==
  /\ agent[g] = "observe"
  /\ \/ /\ controller = "pending"
        /\ controller' = "observer" /\ owner' = g /\ Goes(g, "watch")
     \/ controller # "pending" /\ Goes(g, "done") /\ UNCHANGED <<controller, owner>>
  /\ UNCHANGED <<sqlVars, renewVars, callVars, expired, logged>>

\* the claim may have been served although its answer is lost
ClaimFails(g) ==
  /\ MayFail("claim") /\ agent[g] = "observe"
  /\ \/ controller = "pending" /\ controller' = "observer" /\ owner' = g
     \/ UNCHANGED <<controller, owner>>
  /\ Goes(g, "await")
  /\ UNCHANGED <<sqlVars, renewVars, callVars, expired, logged>>

\* top of the loop
Watch(g) ==
  /\ agent[g] = "watch"
  /\ \/ controller # "observer" /\ Goes(g, "done")
     \/ controller = "observer" /\ expired /\ Goes(g, "finalize")
     \/ controller = "observer" /\ ~ expired /\ (Goes(g, "connected") \/ Goes(g, "retry"))
     \/ MayFail("get") /\ Goes(g, "await")
  /\ UNCHANGED <<sqlVars, renewVars, callVars, controller, owner, expired, logged>>

\* runLiveObserverConnection
Observe(g) ==
  /\ agent[g] = "connected"
  /\ \/ controller # "observer" /\ Goes(g, "done")
     \/ Goes(g, "finalize")     \* the session ended, expired, or lost its lease
     \/ Goes(g, "retry")
  /\ UNCHANGED <<sqlVars, renewVars, callVars, controller, owner, expired, logged>>

\* mutant: an observer whose session expired while it waited just leaves
StillRunning == controller = "observer" /\ ~ expired

\* waitForLiveObserverRetry: expiry is left to the top of the loop
GoesOn == controller = "observer"

Retry(g) ==
  /\ agent[g] = "retry"
  /\ Goes(g, IF GoesOn THEN "watch" ELSE "done")
  /\ UNCHANGED <<sqlVars, renewVars, callVars, controller, owner, expired, logged>>

\* ProxyLiveSideband
ProxyClaims(g) ==
  /\ agent[g] = "idle" /\ controller \in {"pending", "observer"}
  /\ controller' = "proxy" /\ owner' = g /\ Goes(g, "dial")
  /\ UNCHANGED <<sqlVars, renewVars, callVars, expired, logged>>

\* the claim took effect and its answer is an error: the proxy returns, and the
\* record names it (without an effect nothing has changed)
ProxyClaimFails(g) ==
  /\ MayFail("claim")
  /\ agent[g] = "idle" /\ controller \in {"pending", "observer"}
  /\ controller' = "proxy" /\ owner' = g /\ Goes(g, "done")
  /\ UNCHANGED <<sqlVars, renewVars, callVars, expired, logged>>

ProxyDials(g) ==
  /\ agent[g] = "dial"
  /\ Goes(g, "proxy") \/ Goes(g, "handback")
  /\ UNCHANGED <<sqlVars, renewVars, callVars, controller, owner, expired, logged>>

\* runLiveController: the session ended, or only the connection did
ProxyEnds(g) ==
  /\ agent[g] = "proxy"
  /\ Goes(g, "ended") \/ Goes(g, "handback")
  /\ UNCHANGED <<sqlVars, renewVars, callVars, controller, owner, expired, logged>>

HandedBack(g) ==
  /\ controller' = (IF controller = "proxy" /\ owner = g THEN "pending" ELSE controller)
  /\ owner' = (IF controller = "proxy" /\ owner = g THEN None ELSE owner)

\* ReleaseLiveController, then finalize or go on as an observer
ProxyLeaves(g) ==
  /\ agent[g] \in {"handback", "ended"}
  /\ \/ HandedBack(g) /\ UNCHANGED spoiled
     \/ MayFail("handback") /\ spoiled' = TRUE /\ UNCHANGED <<controller, owner>>
  /\ Goes(g, IF agent[g] = "ended" \/ expired THEN "finalize" ELSE "observe")
  /\ UNCHANGED <<sqlVars, renewVars, creationVars, expired, logged>>

\* finalizeLiveCallAfterExpiry
AwaitExpiry(g) ==
  /\ agent[g] = "await" /\ expired
  /\ Goes(g, "finalize")
  /\ UNCHANGED <<sqlVars, renewVars, callVars, controller, owner, expired, logged>>

\* mutant: every finalizer takes itself for the first
Everyone == TRUE

\* MarkLiveCallClosed: the first one goes on
First == controller # "closed"

Finalize(g) ==
  /\ agent[g] = "finalize"
  /\ \/ /\ First
        /\ controller' = "closed" /\ owner' = None /\ Goes(g, "close")
        /\ UNCHANGED spoiled
     \/ ~ First /\ Goes(g, "done") /\ UNCHANGED <<controller, owner, spoiled>>
     \/ /\ MayFail("mark") /\ Goes(g, "done") /\ spoiled' = TRUE
        /\ UNCHANGED <<controller, owner>> \/ (controller' = "closed" /\ owner' = None)
  /\ UNCHANGED <<sqlVars, renewVars, creationVars, expired, logged>>

\* the lease is released, then the usage record written
Close(g) ==
  /\ agent[g] = "close"
  /\ \/ ReleasedLease(account) /\ UNCHANGED spoiled
     \/ MayFail("close") /\ spoiled' = TRUE /\ UNCHANGED sqlVars
  /\ logged' = logged + 1
  /\ Goes(g, "done")
  /\ UNCHANGED <<renewVars, creationVars, controller, owner, expired>>

-----------------------------------------------------------------------------
Renewal ==
  \/ WorkerAsks \/ WorkerServed \/ WorkerFails \/ WorkerReplies \/ WorkerStops
  \/ WatchdogFires \/ StopRenewal

Create ==
  \/ ReserveKey \/ AcquireUser \/ SelectFails
  \/ \E a \in Accounts : SelectAccount(a)
  \/ Transfer \/ TransferInDoubt \/ TransferRefused \/ AbortTransfer
  \/ DropAccount \/ DropLease \/ DropKey
  \/ Migrate \/ MigrateInDoubt \/ AbortMigration \/ MigrateRefused
  \/ Dial \/ DropMember \/ ReleaseJoint \/ SaveFails
  \/ \E g \in Agents : SaveLiveCall(g)
  \/ Leave \/ LeaveKey

Attend(g) ==
  \/ ObserverClaims(g) \/ ClaimFails(g) \/ Watch(g) \/ Observe(g) \/ Retry(g)
  \/ ProxyDials(g) \/ ProxyEnds(g) \/ ProxyLeaves(g)
  \/ AwaitExpiry(g) \/ Finalize(g) \/ Close(g)

Next ==
  \/ Renewal \/ Create \/ Expire
  \/ \E g \in Agents : Attend(g) \/ ProxyClaims(g) \/ ProxyClaimFails(g)

Spec == Init /\ [][Next]_vars

FairSpec ==
  /\ Spec
  /\ WF_vars(Create) /\ WF_vars(StopRenewal) /\ WF_vars(Expire)
  /\ WF_vars(WorkerServed \/ WorkerReplies \/ WorkerStops)
  /\ \A g \in Agents : WF_vars(Attend(g))
-----------------------------------------------------------------------------
(* What must hold. *)

Held(id) == {r \in Resources : rows[r][id] = "held"}

\* An established session keeps every limited slot until it is finalized,
\* whatever the handler's deferred releases of the ordinary requests, a
\* migration between accounts or a change of controller do meanwhile.
SessionKeepsSlots ==
  controller \notin {"none", "closed"} => Members(account) \subseteq Held("live")

\* Neither a transfer nor a retry on another account counts the session twice:
\* unless a clean-up call failed, it holds at most one account slot, one key
\* slot and one user slot, ordinary and Live ones together.  (All state is of
\* its type.)
OneSlotPerDimension ==
  /\ TypeOK
  /\ ~ spoiled =>
       /\ Held("source") \cap Held("live") = {}
       /\ Cardinality((Held("source") \cup Held("live")) \cap Accounts) <= 1

\* A lease that was aborted or closed holds nothing, neither under its Live
\* identity nor under the ordinary requests it was to take over (AbortLiveLeaseTransfer,
\* ReleaseLiveLease), so a transfer whose commit stayed in doubt is undone.
FencedHoldsNothing ==
  handoff.state \in {"aborted", "closed"} => Held("source") \cup Held("live") = {}

\* Once a transfer may have moved the key slot, the ordinary watchdog never
\* reports it as lost: the worker that finds the row gone has been stopped.
TransferredNeverLost == cancelled => handoff.state = "none"

\* However many observers and proxies finalize a session, its usage is
\* recorded once, and only after it was marked closed.
FinalizedOnce == logged <= 1 /\ (logged = 1 => controller = "closed")

\* A creation that failed leaves no account slot, and no slot at all when no
\* upstream attempt had failed, unless one of its clean-up calls failed.
FailedLeavesNoAccount ==
  (pc = "gone" /\ controller = "none" /\ ~ spoiled) =>
    /\ (Held("source") \cup Held("live")) \cap Accounts = {}
    /\ excluded = {} => Held("source") \cup Held("live") = {}

\* A creation always comes to its end; in particular stopping the renewal
\* never waits for ever for its worker.
CreationEnds == <>(pc = "gone")

\* the record names a proxy that has gone: nobody else may claim the session
Orphaned == controller = "proxy" /\ agent[owner] = "done"

\* An established session ends, and its slots are returned, whoever controls
\* it when it ends or expires, in whatever order controllers took over, and
\* although observers' claims and reads of the session record fail.  Only a
\* failed hand-back, mark or release of the end itself may leave it, or a
\* proxy's claim that took effect and was answered with an error.
SessionReleased == (controller # "none") ~> (Held("live") = {} \/ spoiled \/ Orphaned)

\* What the comment above the last releaseJoint of createLiveCall says: a
\* creation that ran out of attempts releases the key and user members now.
\* The code does not: the lease is released under account 0, which the store
\* refuses, and the refusal is ignored.
ExhaustedReleasesJoint ==
  (pc = "gone" /\ controller = "none" /\ ~ spoiled) => Held("live") = {}
=============================================================================

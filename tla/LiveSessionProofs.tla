------------------------- MODULE LiveSessionProofs -------------------------
(* Proofs about LiveSession for any accounts, limits, number of attempts and *)
(* of controllers, and any combination of failing calls.                     *)
EXTENDS LiveSession, FiniteSetTheorems, TLAPS

-----------------------------------------------------------------------------
(* The inductive invariant, over the two sets of resources that hold a slot. *)

Sources == Held("source")
Lives == Held("live")

Taken == {Key, User} \cap Limited

\* before the first transfer nothing is Live; a lease holds only its own
\* members; a fenced one holds nothing
LeaseSound ==
  /\ handoff.state = "none" => handoff.account = None /\ Lives = {}
  /\ handoff.state = "active" => handoff.account \in Accounts /\ Lives \subseteq Members(handoff.account)
  /\ handoff.state \in {"aborted", "closed"} => Sources = {} /\ Lives = {}

\* which ordinary slots the creation may still hold, by where it is
SourcesSound ==
  /\ Sources \subseteq {account, Key, User} \cap Limited
  /\ pc = "reserve" => Sources = {}
  /\ pc \in {"user", "leave_key", "gone"} => Sources \subseteq {Key}
  /\ pc \in {"select", "joint", "leave", "drop_lease", "drop_key"} => Sources \subseteq {Key, User}
  /\ pc = "gone" /\ ~ spoiled => Sources = {}
  /\ consumed /\ ~ spoiled => Key \notin Sources
  /\ handoff.state = "active" =>
       Sources \subseteq (IF pc \in {"migrate", "abort_migration"} THEN {account} ELSE {})

\* the Live lease as the creation knows it, before, during and between attempts
FirstAttempt ==
  /\ pc \in {"reserve", "user", "pause", "abort", "drop_account", "drop_lease", "drop_key"}
       => ~ joint.held /\ excluded = {}
  /\ pc \in {"reserve", "user", "pause"} => handoff.state = "none" /\ ~ consumed
  /\ pc \in {"select", "joint"} /\ ~ joint.held
       => handoff.state = "none" /\ excluded = {} /\ ~ consumed
  /\ pc \in {"drop_account", "drop_lease", "drop_key"} /\ ~ spoiled => Lives = {}
  /\ pc \in {"pause", "abort", "drop_account", "drop_lease", "drop_key", "migrate",
             "abort_migration", "dial", "drop_member", "save"} => account \in Accounts

Attempting ==
  /\ pc \in {"migrate", "abort_migration", "dial", "drop_member", "save"} => joint.held
  /\ joint.held => handoff.state # "none"
  /\ joint.held /\ pc \in {"select", "migrate", "abort_migration", "dial", "drop_member", "save"}
       => handoff.state = "active" /\ Taken \subseteq Lives
  /\ pc \in {"dial", "drop_member", "save"} =>
       handoff.account = account /\ joint.account = account /\ Members(account) \subseteq Lives

BetweenAttempts ==
  /\ joint.held /\ pc \in {"select", "migrate", "abort_migration"}
       => joint.account = None /\ excluded # {}
  /\ joint.held /\ pc \in {"select", "migrate"} =>
       /\ handoff.account \in excluded
       /\ ~ spoiled => Lives \cap Accounts = {}
  /\ pc = "migrate" => account \notin excluded
  /\ pc = "abort_migration" /\ account \in Sources =>
       /\ account # handoff.account
       /\ ~ spoiled => Lives \cap Accounts = {}
  /\ pc = "joint" /\ joint.held =>
       \/ joint.account = handoff.account
       \/ excluded # {} /\ (~ spoiled => Lives \cap Accounts = {})

\* a creation that ended without a session, and one that ended with it
Ending ==
  /\ pc \in {"leave", "leave_key", "gone"} /\ controller = "none" /\ ~ spoiled =>
       Lives \cap Accounts = {} /\ (excluded = {} => Lives = {})
  /\ controller # "none" => account \in Accounts /\ handoff.state # "none"
  /\ controller \notin {"none", "closed"} => Members(account) \subseteq Lives

\* the watchdog is off before anything is moved
RenewalOff ==
  (handoff.state # "none" \/ pc = "abort") => ~ cancelled /\ renewal # "running"

\* who closes the session
OneCloser ==
  /\ pc \notin {"leave", "leave_key", "gone"} => controller = "none"
  /\ controller = "none" => logged = 0 /\ \A g \in Agents : agent[g] = "idle"
  /\ \A g \in Agents : agent[g] = "close" => controller = "closed" /\ logged = 0
  /\ \A g, h \in Agents : agent[g] = "close" /\ agent[h] = "close" => g = h
  /\ logged # 0 => logged = 1 /\ controller = "closed"

Inv ==
  /\ TypeOK /\ LeaseSound /\ SourcesSound
  /\ FirstAttempt /\ Attempting /\ BetweenAttempts /\ Ending
  /\ RenewalOff /\ OneCloser

-----------------------------------------------------------------------------
(* What the operations of the store do to the two sets. *)

Tables == [Resources -> [source : RowStates, live : RowStates]]

HeldIn(table, id) == {r \in Resources : table[r][id] = "held"}

LEMMA ReleasedSource ==
  ASSUME NEW t \in Tables, NEW rs
  PROVE  LET u == Released(t, rs, "source")
         IN /\ u \in Tables
            /\ HeldIn(u, "source") = HeldIn(t, "source") \ rs
            /\ HeldIn(u, "live") = HeldIn(t, "live")
<1> DEFINE u == Released(t, rs, "source")
<1>1. ASSUME NEW r \in Resources
      PROVE  /\ t[r] \in [source : RowStates, live : RowStates]
             /\ u[r] = IF r \in rs THEN [t[r] EXCEPT !["source"] = "released"] ELSE t[r]
  BY DEF Tables, Released
<1>2. u \in Tables
  BY <1>1 DEF Tables, Released, RowStates
<1>3. \A r \in Resources : /\ u[r]["live"] = t[r]["live"]
                           /\ (u[r]["source"] = "held") <=> (t[r]["source"] = "held" /\ r \notin rs)
  BY <1>1 DEF RowStates
<1> HIDE DEF u
<1> QED
  BY <1>2, <1>3 DEF HeldIn, u

LEMMA ReleasedLive ==
  ASSUME NEW t \in Tables, NEW rs
  PROVE  LET u == Released(t, rs, "live")
         IN /\ u \in Tables
            /\ HeldIn(u, "live") = HeldIn(t, "live") \ rs
            /\ HeldIn(u, "source") = HeldIn(t, "source")
<1> DEFINE u == Released(t, rs, "live")
<1>1. ASSUME NEW r \in Resources
      PROVE  /\ t[r] \in [source : RowStates, live : RowStates]
             /\ u[r] = IF r \in rs THEN [t[r] EXCEPT !["live"] = "released"] ELSE t[r]
  BY DEF Tables, Released
<1>2. u \in Tables
  BY <1>1 DEF Tables, Released, RowStates
<1>3. \A r \in Resources : /\ u[r]["source"] = t[r]["source"]
                           /\ (u[r]["live"] = "held") <=> (t[r]["live"] = "held" /\ r \notin rs)
  BY <1>1 DEF RowStates
<1> HIDE DEF u
<1> QED
  BY <1>2, <1>3 DEF HeldIn, u

LEMMA MovedRows ==
  ASSUME rows \in Tables, NEW rs \in SUBSET Resources
  PROVE  /\ Moved(rs) \in Tables
         /\ HeldIn(Moved(rs), "source") = Sources \ rs
         /\ HeldIn(Moved(rs), "live") = Lives \cup rs
<1> DEFINE u == Moved(rs)
<1>1. \A r \in Resources : u[r] = IF r \in rs THEN [source |-> "released", live |-> "held"] ELSE rows[r]
  BY DEF Moved
<1>2. u \in Tables
  BY DEF Tables, Moved, RowStates
<1>3. \A r \in Resources : /\ (u[r]["source"] = "held") <=> (rows[r]["source"] = "held" /\ r \notin rs)
                           /\ (u[r]["live"] = "held") <=> (rows[r]["live"] = "held" \/ r \in rs)
  BY <1>1
<1> HIDE DEF u
<1> QED
  BY <1>2, <1>3 DEF HeldIn, Held, Sources, Lives, u

\* acquiring one ordinary slot
LEMMA AcquiredRow ==
  ASSUME rows \in Tables, NEW r \in Resources, rows' = [rows EXCEPT ![r].source = "held"]
  PROVE  rows' \in Tables /\ Sources' = Sources \cup {r} /\ Lives' = Lives
<1>1. \A x \in Resources : /\ rows[x] \in [source : RowStates, live : RowStates]
                           /\ rows'[x] = IF x = r THEN [rows[x] EXCEPT !.source = "held"] ELSE rows[x]
  BY DEF Tables
<1>2. rows' \in Tables
  BY DEF Tables, RowStates
<1>3. \A x \in Resources : /\ rows'[x]["live"] = rows[x]["live"]
                           /\ (rows'[x]["source"] = "held") <=> (rows[x]["source"] = "held" \/ x = r)
  BY <1>1
<1> QED
  BY <1>2, <1>3 DEF Held, Sources, Lives

LEMMA SameRows ==
  ASSUME UNCHANGED rows
  PROVE  Sources' = Sources /\ Lives' = Lives
BY DEF Sources, Lives, Held

LEMMA HeldIsHeldIn ==
  /\ Sources = HeldIn(rows, "source") /\ Lives = HeldIn(rows, "live")
  /\ Sources' = HeldIn(rows', "source") /\ Lives' = HeldIn(rows', "live")
BY DEF Sources, Lives, Held, HeldIn

LEMMA OnceSpoiled ==
  ASSUME Inv, UNCHANGED spoiled \/ spoiled' = TRUE
  PROVE  spoiled' \in BOOLEAN /\ (spoiled => spoiled')
<1>1. CASE UNCHANGED spoiled
  BY <1>1 DEF Inv, TypeOK
<1>2. CASE spoiled' = TRUE
  BY <1>2
<1> QED
  BY <1>1, <1>2

LEMMA ReleaseSourceEffect ==
  ASSUME rows \in Tables, NEW rs, ReleaseSource(rs)
  PROVE  rows' \in Tables /\ Sources' = Sources \ (rs \cap Limited) /\ Lives' = Lives
BY ReleasedSource, HeldIsHeldIn DEF ReleaseSource

\* finishLive on a lease that was not finished before
LEMMA FinishedEffect ==
  ASSUME rows \in Tables, NEW a, NEW sources, NEW final, Finished(a, sources, final),
         handoff.state \in {"none", "active"}
  PROVE  LET kept == IF handoff.state = "none" THEN a ELSE handoff.account
         IN /\ rows' \in Tables
            /\ Sources' = Sources \ sources /\ Lives' = Lives \ Members(kept)
            /\ handoff' = [state |-> final, account |-> kept]
<1> DEFINE kept == IF handoff.state = "none" THEN a ELSE handoff.account
           t == Released(rows, Members(kept), "live")
<1>1. rows' = Released(t, sources, "source") /\ handoff' = [state |-> final, account |-> kept]
  BY DEF Finished
<1>2. t \in Tables /\ HeldIn(t, "live") = Lives \ Members(kept) /\ HeldIn(t, "source") = Sources
  BY ReleasedLive, HeldIsHeldIn
<1> HIDE DEF kept, t
<1>3. rows' \in Tables /\ Sources' = Sources \ sources /\ Lives' = Lives \ Members(kept)
  BY <1>1, <1>2, ReleasedSource, HeldIsHeldIn
<1> QED
  BY <1>1, <1>3 DEF kept

LEMMA FinishedBefore ==
  ASSUME NEW a, NEW sources, NEW final, Finished(a, sources, final),
         handoff.state \in {"aborted", "closed"}
  PROVE  UNCHANGED sqlVars
BY DEF Finished

-----------------------------------------------------------------------------
(* Each step keeps the invariant. *)

LEMMA InitInv == Init => Inv
<1> SUFFICES ASSUME Init PROVE Inv
  OBVIOUS
<1> USE DEF Init
<1>1. Sources = {} /\ Lives = {}
  BY DEF Sources, Lives, Held
<1>2. rows \in [Resources -> [source : RowStates, live : RowStates]]
  BY DEF RowStates
<1>3. agent \in [Agents -> AgentStates]
  BY DEF AgentStates
<1>4. cancelled \in BOOLEAN /\ spoiled \in BOOLEAN /\ consumed \in BOOLEAN /\ expired \in BOOLEAN
  OBVIOUS
<1>5. /\ handoff \in [state : {"none", "active", "aborted", "closed"}, account : Accounts \cup {None}]
      /\ joint \in [held : BOOLEAN, account : Accounts \cup {None}]
  OBVIOUS
<1>6. TypeOK
  BY <1>2, <1>3, <1>4, <1>5 DEF TypeOK, Steps
<1>7. LeaseSound /\ SourcesSound /\ RenewalOff /\ OneCloser
  BY <1>1 DEF LeaseSound, SourcesSound, RenewalOff, OneCloser
<1>8. FirstAttempt /\ Attempting /\ BetweenAttempts /\ Ending
  BY <1>1 DEF FirstAttempt, Attempting, BetweenAttempts, Ending
<1> QED
  BY <1>6, <1>7, <1>8 DEF Inv

\* The watchdog and the worker touch neither rows nor lease.
LEMMA RenewalStep ==
  ASSUME Inv, Renewal
  PROVE  Inv'
<1> USE DEF Inv
<1>0. UNCHANGED <<sqlVars, callVars, sessionVars>>
  BY DEF Renewal, WorkerAsks, WorkerServed, WorkerFails, WorkerReplies, WorkerStops, WatchdogFires,
         StopRenewal
<1>1. Sources' = Sources /\ Lives' = Lives
  BY <1>0, SameRows DEF sqlVars
<1>2. /\ renewal' \in {"off", "running", "stopped"} /\ cancelled' \in BOOLEAN
      /\ worker' \in {"idle", "asking", "held", "gone", "done"}
      /\ cancelled' => cancelled \/ renewal = "running"
      /\ renewal' = "running" => renewal = "running"
  <2>1. /\ renewal' \in {"off", "running", "stopped"}
        /\ worker' \in {"idle", "asking", "held", "gone", "done"}
        /\ renewal' = "running" => renewal = "running"
    BY DEF TypeOK, Renewal, WorkerAsks, WorkerServed, WorkerFails, WorkerReplies, WorkerStops,
           WatchdogFires, StopRenewal, Lose
  <2>2. cancelled' = cancelled \/ cancelled' = (cancelled \/ renewal = "running")
    BY DEF Renewal, WorkerAsks, WorkerServed, WorkerFails, WorkerReplies, WorkerStops,
           WatchdogFires, StopRenewal, Lose
  <2>3. cancelled \in BOOLEAN
    BY DEF TypeOK
  <2>4. cancelled' \in BOOLEAN /\ (cancelled' => cancelled \/ renewal = "running")
    <3>1. CASE cancelled' = cancelled
      BY <2>3, <3>1
    <3>2. CASE cancelled' = (cancelled \/ renewal = "running")
      <4>1. CASE cancelled \/ renewal = "running"
        <5>1. cancelled' = TRUE
          BY <3>2, <4>1
        <5> QED
          BY <4>1, <5>1
      <4>2. CASE ~ (cancelled \/ renewal = "running")
        <5>1. cancelled' = FALSE
          BY <3>2, <4>2
        <5> QED
          BY <5>1
      <4> QED
        BY <4>1, <4>2
    <3> QED
      BY <2>2, <3>1, <3>2
  <2> QED
    BY <2>1, <2>4
<1>3. TypeOK'
  BY <1>0, <1>2 DEF TypeOK, sqlVars, callVars, creationVars, sessionVars
<1>4. RenewalOff'
  BY <1>0, <1>2 DEF RenewalOff, sqlVars, callVars, creationVars
<1>5. LeaseSound' /\ SourcesSound' /\ FirstAttempt'
  BY <1>0, <1>1 DEF LeaseSound, SourcesSound, FirstAttempt, Members, sqlVars, callVars, creationVars
<1>6. Attempting' /\ BetweenAttempts' /\ Ending' /\ OneCloser'
  BY <1>0, <1>1 DEF Attempting, BetweenAttempts, Ending, OneCloser, Members, sqlVars, callVars,
                    creationVars, sessionVars
<1> QED
  BY <1>3, <1>4, <1>5, <1>6

\* What a change of controller may do to the session.
LEMMA SessionFrame ==
  ASSUME Inv, UNCHANGED <<sqlVars, renewVars, creationVars, logged>>,
         spoiled' \in BOOLEAN, spoiled => spoiled', expired' \in BOOLEAN,
         controller # "none", controller' \in {"pending", "observer", "proxy", "closed"},
         owner' \in Agents \cup {None}, (owner' = None) <=> (controller' \in {"none", "pending", "closed"}),
         controller = "closed" => controller' = "closed",
         NEW g \in Agents, NEW s \in AgentStates,
         agent' = agent \/ agent' = [agent EXCEPT ![g] = s],
         s = "close" => controller # "closed" /\ controller' = "closed"
  PROVE  Inv'
<1> USE DEF Inv
<1>1. Sources' = Sources /\ Lives' = Lives
  BY SameRows DEF sqlVars
<1>2. TypeOK'
  <2>1. agent' \in [Agents -> AgentStates]
    BY DEF TypeOK
  <2> QED
    BY <2>1 DEF TypeOK, sqlVars, renewVars, creationVars
<1>3. LeaseSound' /\ SourcesSound' /\ FirstAttempt' /\ RenewalOff'
  BY <1>1 DEF LeaseSound, SourcesSound, FirstAttempt, RenewalOff, Members, sqlVars, renewVars, creationVars
<1>4. Attempting' /\ BetweenAttempts' /\ Ending'
  BY <1>1 DEF Attempting, BetweenAttempts, Ending, Members, sqlVars, creationVars
<1>5. OneCloser'
  <2>1. \A h \in Agents : agent'[h] = "close" =>
          \/ agent[h] = "close" /\ controller = "closed"
          \/ h = g /\ s = "close" /\ controller # "closed"
    BY DEF TypeOK, OneCloser
  <2>2. pc \in {"leave", "leave_key", "gone"} /\ (controller # "closed" => logged = 0)
    BY DEF OneCloser
  <2>3. \A h \in Agents : agent'[h] = "close" => controller' = "closed" /\ logged' = 0
    BY <2>1, <2>2 DEF OneCloser
  <2>4. \A h, k \in Agents : agent'[h] = "close" /\ agent'[k] = "close" => h = k
    BY <2>1 DEF OneCloser
  <2> QED
    BY <2>2, <2>3, <2>4 DEF OneCloser, creationVars
<1> QED
  BY <1>2, <1>3, <1>4, <1>5

LEMMA ExpireStep ==
  ASSUME Inv, Expire
  PROVE  Inv'
<1> USE DEF Inv
<1>1. Sources' = Sources /\ Lives' = Lives
  BY SameRows DEF Expire, sqlVars
<1>2. expired' \in BOOLEAN /\ UNCHANGED <<sqlVars, renewVars, callVars, controller, owner, agent, logged>>
  BY DEF Expire
<1>3. TypeOK' /\ OneCloser'
  BY <1>2 DEF TypeOK, OneCloser, sqlVars, renewVars, callVars, creationVars
<1>4. LeaseSound' /\ SourcesSound' /\ FirstAttempt' /\ RenewalOff'
  BY <1>1, <1>2 DEF LeaseSound, SourcesSound, FirstAttempt, RenewalOff, Members, sqlVars, renewVars,
                    callVars, creationVars
<1>5. Attempting' /\ BetweenAttempts' /\ Ending'
  BY <1>1, <1>2 DEF Attempting, BetweenAttempts, Ending, Members, sqlVars, callVars, creationVars
<1> QED
  BY <1>3, <1>4, <1>5

\* an agent at work means there is a session
LEMMA AtWork ==
  ASSUME Inv, NEW g \in Agents, agent[g] # "idle"
  PROVE  controller # "none"
BY DEF Inv, OneCloser

LEMMA ControlStep ==
  ASSUME Inv, NEW g \in Agents,
         \/ ObserverClaims(g) \/ ClaimFails(g) \/ Watch(g) \/ Observe(g) \/ Retry(g)
         \/ ProxyClaims(g) \/ ProxyClaimFails(g) \/ ProxyDials(g) \/ ProxyEnds(g)
         \/ AwaitExpiry(g)
  PROVE  Inv'
<1>0. /\ controller \in {"none", "pending", "observer", "proxy", "closed"} /\ owner \in Agents \cup {None}
      /\ (owner = None) <=> (controller \in {"none", "pending", "closed"})
      /\ spoiled \in BOOLEAN /\ expired \in BOOLEAN /\ g # None
  BY LiveAssumption DEF Inv, TypeOK
<1>1. controller # "none"
  BY AtWork DEF ObserverClaims, ClaimFails, Watch, Observe, Retry, ProxyClaims,
                ProxyClaimFails, ProxyDials, ProxyEnds, AwaitExpiry
<1>2. /\ UNCHANGED <<sqlVars, renewVars, creationVars, logged, spoiled, expired>>
      /\ \E s \in AgentStates \ {"close"} : agent' = [agent EXCEPT ![g] = s]
  BY DEF ObserverClaims, ClaimFails, Watch, Observe, Retry, ProxyClaims, ProxyClaimFails,
         ProxyDials, ProxyEnds, AwaitExpiry, callVars, Goes, AgentStates
<1>3. \/ UNCHANGED <<controller, owner>>
      \/ controller \in {"pending", "observer"} /\ controller' \in {"observer", "proxy"} /\ owner' = g
  BY DEF ObserverClaims, ClaimFails, Watch, Observe, Retry, ProxyClaims, ProxyClaimFails,
         ProxyDials, ProxyEnds, AwaitExpiry
<1>4. /\ controller' \in {"pending", "observer", "proxy", "closed"} /\ owner' \in Agents \cup {None}
      /\ (owner' = None) <=> (controller' \in {"none", "pending", "closed"})
      /\ controller = "closed" => controller' = "closed"
  BY <1>0, <1>1, <1>3
<1> QED
  BY <1>0, <1>1, <1>2, <1>4, SessionFrame

LEMMA LeavesStep ==
  ASSUME Inv, NEW g \in Agents, ProxyLeaves(g) \/ Finalize(g)
  PROVE  Inv'
<1>0. /\ controller \in {"none", "pending", "observer", "proxy", "closed"} /\ owner \in Agents \cup {None}
      /\ (owner = None) <=> (controller \in {"none", "pending", "closed"})
      /\ spoiled \in BOOLEAN /\ expired \in BOOLEAN /\ g # None
  BY LiveAssumption DEF Inv, TypeOK
<1>1. controller # "none"
  BY AtWork DEF ProxyLeaves, Finalize
<1>2. UNCHANGED <<sqlVars, renewVars, creationVars, logged, expired>>
  BY DEF ProxyLeaves, Finalize
<1>4. spoiled' \in BOOLEAN /\ (spoiled => spoiled')
  BY OnceSpoiled DEF ProxyLeaves, Finalize
<1>5. /\ controller' \in {"pending", "observer", "proxy", "closed"} /\ owner' \in Agents \cup {None}
      /\ (owner' = None) <=> (controller' \in {"none", "pending", "closed"})
      /\ controller = "closed" => controller' = "closed"
  BY <1>0, <1>1 DEF ProxyLeaves, Finalize, HandedBack
<1>6. \E s \in AgentStates : /\ agent' = [agent EXCEPT ![g] = s]
                             /\ s = "close" => controller # "closed" /\ controller' = "closed"
  BY DEF ProxyLeaves, Finalize, First, Goes, AgentStates
<1> QED
  BY <1>0, <1>1, <1>2, <1>4, <1>5, <1>6, SessionFrame

\* What releasing the lease under account a does, if the store accepts it.
LEMMA ReleasedLeaseEffect ==
  ASSUME Inv, NEW a, ReleasedLease(a)
  PROVE  \/ UNCHANGED sqlVars
         \/ /\ handoff.account = a /\ handoff.state \in {"none", "active"}
            /\ rows' \in Tables /\ Sources' = Sources /\ Lives' = Lives \ Members(a)
            /\ handoff' = [state |-> "closed", account |-> a]
<1>0. handoff.state \in {"none", "active", "aborted", "closed"} /\ rows \in Tables
  BY DEF Inv, TypeOK, Tables
<1>1. CASE handoff.account = a /\ handoff.state \in {"none", "active"}
  <2>1. Finished(a, {}, "closed")
    BY <1>1 DEF ReleasedLease
  <2> QED
    BY <1>0, <1>1, <2>1, FinishedEffect
<1>2. CASE handoff.account = a /\ handoff.state \in {"aborted", "closed"}
  BY <1>2, FinishedBefore DEF ReleasedLease
<1>3. CASE handoff.account # a
  BY <1>3 DEF ReleasedLease
<1> QED
  BY <1>0, <1>1, <1>2, <1>3

LEMMA CloseStep ==
  ASSUME Inv, NEW g \in Agents, Close(g)
  PROVE  Inv'
<1> USE DEF Inv
<1>0. /\ agent[g] = "close" /\ logged' = logged + 1 /\ agent' = [agent EXCEPT ![g] = "done"]
      /\ UNCHANGED <<renewVars, creationVars, controller, owner, expired>>
  BY DEF Close, Goes
<1>1. /\ controller = "closed" /\ logged = 0 /\ account \in Accounts /\ handoff.state # "none"
      /\ pc \in {"leave", "leave_key", "gone"}
  BY <1>0 DEF OneCloser, Ending
<1>2. spoiled' \in BOOLEAN /\ (spoiled => spoiled')
  BY OnceSpoiled DEF Close
<1>3. /\ rows' \in Tables /\ Sources' = Sources /\ Lives' \subseteq Lives
      /\ \/ handoff' = handoff /\ Lives' = Lives
         \/ /\ handoff.state = "active" /\ handoff.account = account
            /\ handoff' = [state |-> "closed", account |-> account]
            /\ Lives' = Lives \ Members(account)
  <2>1. CASE UNCHANGED sqlVars
    BY <2>1, SameRows DEF sqlVars, TypeOK, Tables
  <2>2. CASE ReleasedLease(account)
    <3>1. \/ UNCHANGED sqlVars
          \/ /\ handoff.account = account /\ handoff.state \in {"none", "active"}
             /\ rows' \in Tables /\ Sources' = Sources /\ Lives' = Lives \ Members(account)
             /\ handoff' = [state |-> "closed", account |-> account]
      BY <2>2, ReleasedLeaseEffect
    <3> QED
      BY <1>1, <2>1, <3>1
  <2> QED
    BY <2>1, <2>2 DEF Close
<1>4. TypeOK'
  <2>1. agent' \in [Agents -> AgentStates]
    BY <1>0 DEF TypeOK, AgentStates
  <2>2. handoff' \in [state : {"none", "active", "aborted", "closed"}, account : Accounts \cup {None}]
    BY <1>1, <1>3 DEF TypeOK
  <2> QED
    BY <1>0, <1>1, <1>2, <1>3, <2>1, <2>2 DEF TypeOK, Tables, renewVars, creationVars
<1>5. LeaseSound' /\ SourcesSound'
  BY <1>0, <1>1, <1>2, <1>3 DEF LeaseSound, SourcesSound, Members, creationVars
<1>6. FirstAttempt' /\ Attempting' /\ BetweenAttempts' /\ Ending' /\ RenewalOff'
  BY <1>0, <1>1, <1>2, <1>3
  DEF FirstAttempt, Attempting, BetweenAttempts, Ending, RenewalOff, renewVars, creationVars
<1>7. OneCloser'
  BY <1>0, <1>1 DEF OneCloser, TypeOK, creationVars
<1> QED
  BY <1>4, <1>5, <1>6, <1>7

\* A step of the creation leaves the session alone.
LEMMA CreationTypes ==
  ASSUME Inv, UNCHANGED sessionVars, rows' \in Tables, pc' \in Steps,
         handoff' \in [state : {"none", "active", "aborted", "closed"}, account : Accounts \cup {None}],
         account' \in Accounts \cup {None},
         joint' \in [held : BOOLEAN, account : Accounts \cup {None}],
         excluded' \subseteq Accounts, consumed' \in BOOLEAN, spoiled' \in BOOLEAN, cancelled' \in BOOLEAN,
         renewal' \in {"off", "running", "stopped"},
         worker' \in {"idle", "asking", "held", "gone", "done"},
         pc \in {"leave", "leave_key", "gone"} => pc' \in {"leave", "leave_key", "gone"}
  PROVE  TypeOK' /\ OneCloser'
<1>1. TypeOK'
  BY DEF Inv, TypeOK, Tables, sessionVars
<1>2. OneCloser'
  BY DEF Inv, OneCloser, sessionVars
<1> QED
  BY <1>1, <1>2

LEMMA ReserveStep ==
  ASSUME Inv, ReserveKey
  PROVE  Inv'
<1> USE DEF Inv
<1>0. /\ pc = "reserve" /\ pc' = "user"
      /\ UNCHANGED <<handoff, cancelled, account, joint, excluded, consumed, spoiled, sessionVars>>
  BY DEF ReserveKey
<1>1. /\ renewal' \in {"off", "running", "stopped"}
      /\ worker' \in {"idle", "asking", "held", "gone", "done"}
  BY DEF ReserveKey, TypeOK
<1>2. rows' \in Tables /\ Sources' \subseteq {Key} \cap Limited /\ Lives' = Lives
  <2>1. CASE Key \in Limited
    <3>1. rows \in Tables /\ Key \in Resources /\ Sources = {}
      BY <1>0 DEF TypeOK, Tables, Resources, SourcesSound
    <3> QED
      BY <2>1, <3>1, AcquiredRow DEF ReserveKey
  <2>2. CASE Key \notin Limited
    BY <1>0, <2>2, SameRows DEF ReserveKey, TypeOK, Tables, SourcesSound
  <2> QED
    BY <2>1, <2>2
<1>3. TypeOK' /\ OneCloser'
  BY <1>0, <1>1, <1>2, CreationTypes DEF TypeOK, Steps
<1>4. LeaseSound' /\ SourcesSound'
  BY <1>0, <1>2 DEF LeaseSound, SourcesSound, FirstAttempt, Members
<1>5. FirstAttempt' /\ Attempting' /\ BetweenAttempts' /\ Ending' /\ RenewalOff'
  BY <1>0, <1>2 DEF FirstAttempt, Attempting, BetweenAttempts, Ending, RenewalOff, OneCloser, sessionVars
<1> QED
  BY <1>3, <1>4, <1>5

LEMMA UserStep ==
  ASSUME Inv, AcquireUser
  PROVE  Inv'
<1> USE DEF Inv
<1>0. /\ pc = "user" /\ pc' \in {"select", "leave_key"}
      /\ UNCHANGED <<handoff, renewVars, account, joint, excluded, consumed, spoiled, sessionVars>>
  BY DEF AcquireUser
<1>1. /\ rows' \in Tables /\ Lives' = Lives
      /\ Sources' \subseteq Sources \cup (IF pc' = "select" THEN {User} \cap Limited ELSE {})
  <2>1. CASE UNCHANGED rows
    BY <2>1, SameRows DEF TypeOK, Tables
  <2>2. CASE pc' = "select" /\ User \in Limited /\ rows' = [rows EXCEPT ![User].source = "held"]
    <3>1. rows \in Tables /\ User \in Resources
      BY DEF TypeOK, Tables, Resources
    <3> QED
      BY <2>2, <3>1, AcquiredRow
  <2> QED
    BY <2>1, <2>2 DEF AcquireUser
<1>2. TypeOK' /\ OneCloser'
  BY <1>0, <1>1, CreationTypes DEF TypeOK, Steps, renewVars
<1>3. LeaseSound' /\ SourcesSound'
  BY <1>0, <1>1 DEF LeaseSound, SourcesSound, FirstAttempt, Members
<1>4. FirstAttempt' /\ Attempting' /\ BetweenAttempts'
  BY <1>0, <1>1 DEF FirstAttempt, Attempting, BetweenAttempts
<1>5. Ending' /\ RenewalOff'
  BY <1>0, <1>1 DEF FirstAttempt, LeaseSound, Ending, RenewalOff, OneCloser, sessionVars, renewVars
<1> QED
  BY <1>2, <1>3, <1>4, <1>5

LEMMA SelectStep ==
  ASSUME Inv, NEW a \in Accounts, SelectAccount(a)
  PROVE  Inv'
<1> USE DEF Inv
<1>0. /\ pc = "select" /\ a \notin excluded /\ account' = a
      /\ pc' = IF joint.held THEN "migrate" ELSE "pause"
      /\ UNCHANGED <<handoff, renewVars, joint, excluded, consumed, spoiled, sessionVars>>
  BY DEF SelectAccount
<1>1. rows' \in Tables /\ Lives' = Lives /\ Sources' = Sources \cup ({a} \cap Limited)
  <2>1. CASE a \notin Limited
    BY <2>1, SameRows DEF SelectAccount, TypeOK, Tables
  <2>2. CASE a \in Limited
    <3>1. rows \in Tables /\ a \in Resources
      BY DEF TypeOK, Tables, Resources
    <3> QED
      BY <2>2, <3>1, AcquiredRow DEF SelectAccount
  <2> QED
    BY <2>1, <2>2
<1>2. TypeOK' /\ OneCloser'
  BY <1>0, <1>1, CreationTypes DEF TypeOK, Steps, renewVars
<1>3. LeaseSound'
  <2>1. handoff.state \notin {"aborted", "closed"}
    BY <1>0 DEF FirstAttempt, Attempting
  <2> QED
    BY <1>0, <1>1, <2>1 DEF LeaseSound, Members
<1>4. SourcesSound'
  BY <1>0, <1>1, LiveAssumption DEF SourcesSound, FirstAttempt, Attempting, BetweenAttempts
<1>5. FirstAttempt' /\ Attempting' /\ BetweenAttempts'
  BY <1>0, <1>1 DEF FirstAttempt, Attempting, BetweenAttempts
<1>6. Ending' /\ RenewalOff'
  BY <1>0, <1>1 DEF Ending, RenewalOff, OneCloser, sessionVars, renewVars
<1> QED
  BY <1>2, <1>3, <1>4, <1>5, <1>6

LEMMA SelectFailsStep ==
  ASSUME Inv, SelectFails
  PROVE  Inv'
<1> USE DEF Inv
<1>0. /\ pc = "select" /\ pc' = "joint"
      /\ UNCHANGED <<sqlVars, renewVars, account, joint, excluded, consumed, spoiled, sessionVars>>
  BY DEF SelectFails
<1>1. rows' \in Tables /\ Sources' = Sources /\ Lives' = Lives
  BY <1>0, SameRows DEF TypeOK, Tables, sqlVars
<1>2. TypeOK' /\ OneCloser'
  BY <1>0, <1>1, CreationTypes DEF TypeOK, Steps, renewVars, sqlVars
<1>3. LeaseSound' /\ SourcesSound'
  BY <1>0, <1>1 DEF LeaseSound, SourcesSound, Members, sqlVars
<1>4. FirstAttempt' /\ Attempting' /\ BetweenAttempts' /\ Ending' /\ RenewalOff'
  BY <1>0, <1>1
  DEF FirstAttempt, Attempting, BetweenAttempts, Ending, RenewalOff, OneCloser, sessionVars, renewVars, sqlVars
<1> QED
  BY <1>2, <1>3, <1>4

\* What the transaction of a transfer does.
LEMMA TransferredEffect ==
  ASSUME Inv, account \in Accounts, Transferred
  PROVE  /\ rows' \in Tables /\ Sources' = Sources \ Members(account)
         /\ Lives' = Lives \cup Members(account)
         /\ handoff' = [state |-> "active", account |-> account]
<1>1. rows \in Tables /\ Members(account) \in SUBSET Resources
  BY LiveAssumption DEF Inv, TypeOK, Tables, Members
<1> QED
  BY <1>1, MovedRows, HeldIsHeldIn DEF Transferred

LEMMA TransferStep ==
  ASSUME Inv, Transfer \/ TransferInDoubt
  PROVE  Inv'
<1> USE DEF Inv
<1>0. /\ pc = "pause" /\ ~ cancelled /\ renewal # "running" /\ handoff.state = "none"
      /\ Transferred \/ (UNCHANGED sqlVars /\ pc' = "abort")
      /\ UNCHANGED <<renewVars, account, excluded, spoiled, sessionVars>>
      /\ \/ pc' = "dial" /\ joint' = [held |-> TRUE, account |-> account] /\ consumed' = TRUE
         \/ pc' = "abort" /\ joint' = joint /\ consumed' = consumed
  BY DEF Transfer, TransferInDoubt, MayTransfer, Joined, Transferable
<1>1. /\ account \in Accounts /\ ~ joint.held /\ excluded = {} /\ ~ consumed
      /\ Lives = {} /\ handoff.account = None /\ Sources \subseteq Members(account) /\ controller = "none"
  BY <1>0 DEF FirstAttempt, LeaseSound, SourcesSound, Members, OneCloser
<1>2. /\ rows' \in Tables
      /\ \/ /\ Sources' = {} /\ Lives' = Members(account)
            /\ handoff' = [state |-> "active", account |-> account]
         \/ /\ Sources' = Sources /\ Lives' = {} /\ handoff' = handoff /\ pc' = "abort"
  <2>1. CASE Transferred
    BY <1>1, <2>1, TransferredEffect
  <2>2. CASE UNCHANGED sqlVars /\ pc' = "abort"
    BY <1>1, <2>2, SameRows DEF sqlVars, TypeOK, Tables
  <2> QED
    BY <1>0, <2>1, <2>2
<1>3. TypeOK' /\ OneCloser'
  <2>1. handoff' \in [state : {"none", "active", "aborted", "closed"}, account : Accounts \cup {None}]
    BY <1>1, <1>2 DEF TypeOK
  <2>3. joint' \in [held : BOOLEAN, account : Accounts \cup {None}]
    <3>1. CASE joint' = [held |-> TRUE, account |-> account]
      BY <1>1, <3>1
    <3>2. CASE joint' = joint
      BY <3>2 DEF TypeOK
    <3> QED
      BY <1>0, <3>1, <3>2
  <2>2. consumed' \in BOOLEAN
    <3>1. CASE consumed' = TRUE
      BY <3>1
    <3>2. CASE consumed' = consumed
      BY <3>2 DEF TypeOK
    <3> QED
      BY <1>0, <3>1, <3>2
  <2> QED
    BY <1>0, <1>2, <2>1, <2>2, <2>3, CreationTypes DEF TypeOK, Steps, renewVars
<1>4. LeaseSound' /\ SourcesSound'
  BY <1>0, <1>1, <1>2, LiveAssumption DEF LeaseSound, SourcesSound, Members
<1>5. FirstAttempt' /\ Attempting' /\ BetweenAttempts'
  BY <1>0, <1>1, <1>2 DEF FirstAttempt, Attempting, BetweenAttempts, Members, Taken
<1>6. Ending' /\ RenewalOff'
  BY <1>0, <1>1, <1>2 DEF Ending, RenewalOff, sessionVars, renewVars
<1> QED
  BY <1>3, <1>4, <1>5, <1>6

LEMMA TransferRefusedStep ==
  ASSUME Inv, TransferRefused
  PROVE  Inv'
<1> USE DEF Inv
<1>0. /\ pc = "pause" /\ pc' = "drop_account"
      /\ UNCHANGED <<sqlVars, renewVars, account, joint, excluded, consumed, spoiled, sessionVars>>
  BY DEF TransferRefused, MayTransfer
<1>1. rows' \in Tables /\ Sources' = Sources /\ Lives' = Lives
  BY <1>0, SameRows DEF TypeOK, Tables, sqlVars
<1>2. TypeOK' /\ OneCloser'
  BY <1>0, <1>1, CreationTypes DEF TypeOK, Steps, renewVars, sqlVars
<1>3. LeaseSound' /\ SourcesSound'
  BY <1>0, <1>1 DEF LeaseSound, SourcesSound, Members, sqlVars
<1>4. FirstAttempt' /\ Attempting' /\ BetweenAttempts' /\ Ending' /\ RenewalOff'
  BY <1>0, <1>1
  DEF FirstAttempt, LeaseSound, Attempting, BetweenAttempts, Ending, RenewalOff, OneCloser, sessionVars,
      renewVars, sqlVars
<1> QED
  BY <1>2, <1>3, <1>4

LEMMA AbortTransferStep ==
  ASSUME Inv, AbortTransfer
  PROVE  Inv'
<1> USE DEF Inv
<1>0. /\ pc = "abort" /\ pc' = "drop_account" /\ consumed' = TRUE
      /\ UNCHANGED <<renewVars, account, joint, excluded, sessionVars>>
      /\ \/ Aborted(Members(account)) /\ UNCHANGED spoiled
         \/ spoiled' = TRUE /\ UNCHANGED sqlVars
  BY DEF AbortTransfer
<1>1. /\ account \in Accounts /\ ~ joint.held /\ excluded = {}
      /\ Sources \subseteq Members(account) /\ controller = "none" /\ ~ cancelled /\ renewal # "running"
      /\ handoff.state \in {"none", "active", "aborted", "closed"} /\ rows \in Tables
  BY <1>0 DEF FirstAttempt, SourcesSound, Members, OneCloser, RenewalOff, TypeOK, Tables
<1>2. spoiled' \in BOOLEAN /\ (spoiled => spoiled')
  BY <1>0, OnceSpoiled
<1>3. /\ rows' \in Tables
      /\ handoff' \in [state : {"none", "active", "aborted", "closed"}, account : Accounts \cup {None}]
      /\ \/ spoiled' /\ Sources' = Sources /\ Lives' = Lives /\ handoff' = handoff
         \/ Sources' = {} /\ Lives' = {} /\ handoff'.state \in {"aborted", "closed"}
  <2>1. CASE UNCHANGED sqlVars /\ spoiled' = TRUE
    BY <1>1, <2>1, SameRows DEF sqlVars, TypeOK
  <2>2. CASE Aborted(Members(account)) /\ handoff.state \in {"none", "active"}
    <3> DEFINE kept == IF handoff.state = "none" THEN account ELSE handoff.account
    <3>1. /\ rows' \in Tables /\ Sources' = Sources \ Members(account) /\ Lives' = Lives \ Members(kept)
          /\ handoff' = [state |-> "aborted", account |-> kept]
      BY <1>1, <2>2, FinishedEffect DEF Aborted
    <3>2. kept \in Accounts /\ Lives \subseteq Members(kept)
      BY <1>1, <2>2 DEF LeaseSound
    <3> HIDE DEF kept
    <3> QED
      BY <1>1, <3>1, <3>2
  <2>3. CASE Aborted(Members(account)) /\ handoff.state \in {"aborted", "closed"}
    <3>1. UNCHANGED sqlVars
      BY <2>3, FinishedBefore DEF Aborted
    <3>2. Sources = {} /\ Lives = {}
      BY <2>3 DEF LeaseSound
    <3> QED
      BY <1>1, <2>3, <3>1, <3>2, SameRows DEF sqlVars, TypeOK
  <2> QED
    BY <1>0, <1>1, <2>1, <2>2, <2>3
<1>4. TypeOK' /\ OneCloser'
  BY <1>0, <1>2, <1>3, CreationTypes DEF TypeOK, Steps, renewVars
<1>5. LeaseSound' /\ SourcesSound'
  BY <1>0, <1>1, <1>2, <1>3 DEF LeaseSound, SourcesSound, Members
<1>6. FirstAttempt' /\ Attempting' /\ BetweenAttempts' /\ Ending' /\ RenewalOff'
  BY <1>0, <1>1, <1>2, <1>3
  DEF FirstAttempt, Attempting, BetweenAttempts, Ending, RenewalOff, sessionVars, renewVars
<1> QED
  BY <1>4, <1>5, <1>6

LEMMA DropAccountStep ==
  ASSUME Inv, DropAccount
  PROVE  Inv'
<1> USE DEF Inv
<1>0. /\ pc = "drop_account" /\ pc' = "drop_lease"
      /\ UNCHANGED <<handoff, renewVars, account, joint, excluded, consumed, spoiled, sessionVars>>
  BY DEF DropAccount
<1>1. rows' \in Tables /\ Sources' = Sources \ ({account} \cap Limited) /\ Lives' = Lives
  BY ReleaseSourceEffect DEF DropAccount, TypeOK, Tables
<1>2. TypeOK' /\ OneCloser'
  BY <1>0, <1>1, CreationTypes DEF TypeOK, Steps, renewVars
<1>3. LeaseSound' /\ SourcesSound'
  BY <1>0, <1>1 DEF LeaseSound, SourcesSound, Members
<1>4. FirstAttempt' /\ Attempting' /\ BetweenAttempts' /\ Ending' /\ RenewalOff'
  BY <1>0, <1>1
  DEF FirstAttempt, Attempting, BetweenAttempts, Ending, RenewalOff, OneCloser, sessionVars, renewVars
<1> QED
  BY <1>2, <1>3, <1>4

LEMMA DropLeaseStep ==
  ASSUME Inv, DropLease
  PROVE  Inv'
<1> USE DEF Inv
<1>0. /\ pc = "drop_lease" /\ pc' = "drop_key"
      /\ UNCHANGED <<renewVars, account, joint, excluded, consumed, sessionVars>>
      /\ \/ ReleasedLease(account) /\ UNCHANGED spoiled
         \/ spoiled' = TRUE /\ UNCHANGED sqlVars
  BY DEF DropLease
<1>1. /\ account \in Accounts /\ account # None /\ controller = "none" /\ excluded = {} /\ ~ joint.held
      /\ ~ spoiled => Lives = {}
  BY <1>0, LiveAssumption DEF FirstAttempt, OneCloser, Resources
<1>2. spoiled' \in BOOLEAN /\ (spoiled => spoiled')
  BY <1>0, OnceSpoiled
<1>3. /\ rows' \in Tables
      /\ handoff' \in [state : {"none", "active", "aborted", "closed"}, account : Accounts \cup {None}]
      /\ \/ Sources' = Sources /\ Lives' = Lives /\ handoff' = handoff
         \/ handoff.state = "active" /\ Sources' = {} /\ Lives' = {} /\ handoff'.state = "closed"
  <2>1. CASE UNCHANGED sqlVars
    BY <2>1, SameRows DEF sqlVars, TypeOK, Tables
  <2>2. CASE ReleasedLease(account)
    <3>1. \/ UNCHANGED sqlVars
          \/ /\ handoff.account = account /\ handoff.state \in {"none", "active"}
             /\ rows' \in Tables /\ Sources' = Sources /\ Lives' = Lives \ Members(account)
             /\ handoff' = [state |-> "closed", account |-> account]
      BY <2>2, ReleasedLeaseEffect
    <3> QED
      BY <1>0, <1>1, <2>1, <3>1 DEF LeaseSound, SourcesSound
  <2> QED
    BY <1>0, <2>1, <2>2
<1>4. TypeOK' /\ OneCloser'
  BY <1>0, <1>2, <1>3, CreationTypes DEF TypeOK, Steps, renewVars
<1>5. LeaseSound' /\ SourcesSound'
  BY <1>0, <1>1, <1>2, <1>3 DEF LeaseSound, SourcesSound, Members
<1>6. FirstAttempt' /\ Attempting' /\ BetweenAttempts' /\ Ending' /\ RenewalOff'
  BY <1>0, <1>1, <1>2, <1>3
  DEF FirstAttempt, Attempting, BetweenAttempts, Ending, RenewalOff, sessionVars, renewVars
<1> QED
  BY <1>4, <1>5, <1>6

\* What releasing the reservation does to the key's ordinary slot.
LEMMA ReservationEffect ==
  ASSUME Inv, ReleaseReservation
  PROVE  /\ rows' \in Tables /\ Lives' = Lives
         /\ Sources' \subseteq Sources
         /\ ~ spoiled => Key \notin Sources'
<1>0. rows \in Tables /\ Sources \subseteq Limited
  BY DEF Inv, TypeOK, Tables, SourcesSound
<1>1. CASE consumed
  <2>1. UNCHANGED rows
    BY <1>1 DEF ReleaseReservation
  <2> QED
    BY <1>0, <1>1, <2>1, SameRows DEF Inv, SourcesSound
<1>2. CASE ~ consumed
  <2>1. ReleaseSource({Key})
    BY <1>2 DEF ReleaseReservation
  <2>2. rows' \in Tables /\ Sources' = Sources \ ({Key} \cap Limited) /\ Lives' = Lives
    BY <1>0, <2>1, ReleaseSourceEffect
  <2> QED
    BY <1>0, <2>2
<1> QED
  BY <1>1, <1>2

LEMMA DropKeyStep ==
  ASSUME Inv, DropKey
  PROVE  Inv'
<1> USE DEF Inv
<1>0. /\ pc = "drop_key" /\ pc' = "leave"
      /\ UNCHANGED <<handoff, renewVars, account, joint, excluded, consumed, spoiled, sessionVars>>
  BY DEF DropKey
<1>1. rows' \in Tables /\ Lives' = Lives /\ Sources' \subseteq Sources
  BY ReservationEffect DEF DropKey
<1>2. TypeOK' /\ OneCloser'
  BY <1>0, <1>1, CreationTypes DEF TypeOK, Steps, renewVars
<1>3. LeaseSound' /\ SourcesSound'
  BY <1>0, <1>1 DEF LeaseSound, SourcesSound, Members
<1>4. FirstAttempt' /\ Attempting' /\ BetweenAttempts' /\ Ending' /\ RenewalOff'
  BY <1>0, <1>1
  DEF FirstAttempt, Attempting, BetweenAttempts, Ending, RenewalOff, OneCloser, sessionVars, renewVars
<1> QED
  BY <1>2, <1>3, <1>4

\* What the transaction of a migration does.
LEMMA MigratedEffect ==
  ASSUME Inv, account \in Accounts, Migrated
  PROVE  /\ rows' \in Tables /\ Sources' = Sources \ ({account} \cap Limited)
         /\ Lives' = (Lives \cup ({account} \cap Limited)) \ ({handoff.account} \cap Limited)
         /\ handoff' = [state |-> handoff.state, account |-> account]
<1> DEFINE m == Moved({account} \cap Limited)
<1>1. rows \in Tables /\ {account} \cap Limited \in SUBSET Resources
  BY LiveAssumption DEF Inv, TypeOK, Tables
<1>2. /\ m \in Tables /\ HeldIn(m, "source") = Sources \ ({account} \cap Limited)
      /\ HeldIn(m, "live") = Lives \cup ({account} \cap Limited)
  BY <1>1, MovedRows
<1>3. rows' = Released(m, {handoff.account} \cap Limited, "live")
  BY DEF Migrated, LeftBehind
<1>4. handoff' = [state |-> handoff.state, account |-> account]
  BY DEF Migrated, Inv, TypeOK
<1> HIDE DEF m
<1> QED
  BY <1>2, <1>3, <1>4, ReleasedLive, HeldIsHeldIn

LEMMA MigrateStep ==
  ASSUME Inv, Migrate \/ MigrateInDoubt
  PROVE  Inv'
<1> USE DEF Inv
<1>0. /\ pc = "migrate"
      /\ Migrated \/ (UNCHANGED sqlVars /\ pc' = "abort_migration")
      /\ UNCHANGED <<renewVars, account, excluded, consumed, spoiled, sessionVars>>
      /\ \/ pc' = "dial" /\ joint' = [joint EXCEPT !.account = account]
         \/ pc' = "abort_migration" /\ joint' = joint
  BY DEF Migrate, MigrateInDoubt
<1>1. /\ account \in Accounts /\ joint.held /\ joint \in [held : BOOLEAN, account : Accounts \cup {None}]
      /\ handoff.state = "active" /\ handoff.account \in Accounts /\ joint.account = None
      /\ Taken \subseteq Lives /\ Lives \subseteq Members(handoff.account)
      /\ excluded # {} /\ handoff.account \in excluded /\ account \notin excluded
      /\ Sources \subseteq {account} \cap Limited /\ controller = "none"
      /\ ~ spoiled => Lives \cap Accounts = {}
  BY <1>0 DEF FirstAttempt, LeaseSound, SourcesSound, Attempting, BetweenAttempts, OneCloser, TypeOK
<1>2. /\ rows' \in Tables
      /\ \/ /\ Sources' = {} /\ Lives' = Members(account)
            /\ handoff' = [state |-> "active", account |-> account]
         \/ /\ Sources' = Sources /\ Lives' = Lives /\ handoff' = handoff /\ pc' = "abort_migration"
  <2>1. CASE Migrated
    <3>1. /\ rows' \in Tables /\ Sources' = Sources \ ({account} \cap Limited)
          /\ Lives' = (Lives \cup ({account} \cap Limited)) \ ({handoff.account} \cap Limited)
          /\ handoff' = [state |-> "active", account |-> account]
      BY <1>1, <2>1, MigratedEffect
    <3>2. Lives' = Members(account)
      BY <1>1, <3>1, LiveAssumption DEF Members, Taken
    <3> QED
      BY <1>1, <3>1, <3>2
  <2>2. CASE UNCHANGED sqlVars /\ pc' = "abort_migration"
    BY <2>2, SameRows DEF sqlVars, TypeOK, Tables
  <2> QED
    BY <1>0, <2>1, <2>2
<1>3. /\ joint' \in [held : BOOLEAN, account : Accounts \cup {None}] /\ joint'.held
      /\ pc' = "dial" => joint'.account = account
      /\ pc' = "abort_migration" => joint'.account = None
  <2>1. CASE pc' = "dial" /\ joint' = [joint EXCEPT !.account = account]
    BY <1>1, <2>1
  <2>2. CASE pc' = "abort_migration" /\ joint' = joint
    BY <1>1, <2>2
  <2> QED
    BY <1>0, <2>1, <2>2
<1>4. TypeOK' /\ OneCloser'
  <2>1. handoff' \in [state : {"none", "active", "aborted", "closed"}, account : Accounts \cup {None}]
    BY <1>1, <1>2 DEF TypeOK
  <2> QED
    BY <1>0, <1>2, <1>3, <2>1, CreationTypes DEF TypeOK, Steps, renewVars
<1>5. LeaseSound' /\ SourcesSound'
  BY <1>0, <1>1, <1>2, LiveAssumption DEF LeaseSound, SourcesSound, Members
<1>6. FirstAttempt' /\ Attempting' /\ BetweenAttempts'
  BY <1>0, <1>1, <1>2, <1>3 DEF FirstAttempt, Attempting, BetweenAttempts, Members, Taken
<1>7. Ending' /\ RenewalOff'
  BY <1>0, <1>1, <1>2 DEF Ending, RenewalOff, sessionVars, renewVars
<1> QED
  BY <1>4, <1>5, <1>6, <1>7

LEMMA AbortMigrationStep ==
  ASSUME Inv, AbortMigration
  PROVE  Inv'
<1> USE DEF Inv
<1>0. /\ pc = "abort_migration" /\ pc' = "joint"
      /\ UNCHANGED <<renewVars, account, joint, excluded, consumed, sessionVars>>
      /\ \/ Aborted({account} \cap Limited) /\ UNCHANGED spoiled
         \/ spoiled' = TRUE /\ ReleaseSource({account}) /\ UNCHANGED handoff
  BY DEF AbortMigration
<1>1. /\ account \in Accounts /\ joint.held /\ rows \in Tables
      /\ handoff.state = "active" /\ handoff.account \in Accounts /\ joint.account = None
      /\ Lives \subseteq Members(handoff.account) /\ excluded # {}
      /\ Sources \subseteq {account} \cap Limited /\ controller = "none"
  BY <1>0 DEF FirstAttempt, LeaseSound, SourcesSound, Attempting, BetweenAttempts, OneCloser, TypeOK, Tables
<1>2. spoiled' \in BOOLEAN /\ (spoiled => spoiled')
  BY <1>0, OnceSpoiled
<1>3. /\ rows' \in Tables /\ Sources' = {}
      /\ handoff' \in [state : {"none", "active", "aborted", "closed"}, account : Accounts \cup {None}]
      /\ handoff'.account = handoff.account
      /\ \/ Lives' = {} /\ handoff'.state = "aborted"
         \/ spoiled' /\ Lives' = Lives /\ handoff'.state = "active"
  <2>1. CASE Aborted({account} \cap Limited)
    <3>1. /\ rows' \in Tables /\ Sources' = Sources \ ({account} \cap Limited)
          /\ Lives' = Lives \ Members(handoff.account)
          /\ handoff' = [state |-> "aborted", account |-> handoff.account]
      BY <1>1, <2>1, FinishedEffect DEF Aborted
    <3> QED
      BY <1>1, <3>1
  <2>2. CASE spoiled' = TRUE /\ ReleaseSource({account}) /\ UNCHANGED handoff
    <3>1. rows' \in Tables /\ Sources' = Sources \ ({account} \cap Limited) /\ Lives' = Lives
      BY <1>1, <2>2, ReleaseSourceEffect
    <3> QED
      BY <1>1, <2>2, <3>1 DEF TypeOK
  <2> QED
    BY <1>0, <2>1, <2>2
<1>4. TypeOK' /\ OneCloser'
  BY <1>0, <1>2, <1>3, CreationTypes DEF TypeOK, Steps, renewVars
<1>5. LeaseSound' /\ SourcesSound'
  BY <1>0, <1>1, <1>2, <1>3 DEF LeaseSound, SourcesSound, Members
<1>6. FirstAttempt' /\ Attempting' /\ BetweenAttempts' /\ Ending' /\ RenewalOff'
  BY <1>0, <1>1, <1>2, <1>3
  DEF FirstAttempt, Attempting, BetweenAttempts, Ending, RenewalOff, sessionVars, renewVars
<1> QED
  BY <1>4, <1>5, <1>6

LEMMA MigrateRefusedStep ==
  ASSUME Inv, MigrateRefused
  PROVE  Inv'
<1> USE DEF Inv
<1>0. /\ pc = "migrate" /\ pc' = "joint"
      /\ UNCHANGED <<handoff, renewVars, account, joint, excluded, consumed, spoiled, sessionVars>>
  BY DEF MigrateRefused
<1>1. rows' \in Tables /\ Sources' = Sources \ ({account} \cap Limited) /\ Lives' = Lives
  BY ReleaseSourceEffect DEF MigrateRefused, TypeOK, Tables
<1>2. TypeOK' /\ OneCloser'
  BY <1>0, <1>1, CreationTypes DEF TypeOK, Steps, renewVars
<1>3. LeaseSound' /\ SourcesSound'
  BY <1>0, <1>1 DEF LeaseSound, SourcesSound, Attempting, Members
<1>4. FirstAttempt' /\ Attempting' /\ BetweenAttempts' /\ Ending' /\ RenewalOff'
  BY <1>0, <1>1
  DEF FirstAttempt, Attempting, BetweenAttempts, Ending, RenewalOff, OneCloser, sessionVars, renewVars
<1> QED
  BY <1>2, <1>3, <1>4

LEMMA DialStep ==
  ASSUME Inv, Dial
  PROVE  Inv'
<1> USE DEF Inv
<1>0. /\ pc = "dial" /\ pc' \in {"save", "drop_member"}
      /\ UNCHANGED <<handoff, renewVars, account, joint, excluded, consumed, spoiled, sessionVars>>
  BY DEF Dial
<1>1. rows' \in Tables /\ Sources' = Sources \ ({account} \cap Limited) /\ Lives' = Lives
  BY ReleaseSourceEffect DEF Dial, TypeOK, Tables
<1>2. TypeOK' /\ OneCloser'
  BY <1>0, <1>1, CreationTypes DEF TypeOK, Steps, renewVars
<1>3. LeaseSound' /\ SourcesSound'
  BY <1>0, <1>1 DEF LeaseSound, SourcesSound, Members
<1>4. FirstAttempt' /\ Attempting' /\ BetweenAttempts' /\ Ending' /\ RenewalOff'
  BY <1>0, <1>1
  DEF FirstAttempt, Attempting, BetweenAttempts, Ending, RenewalOff, Members, OneCloser, sessionVars, renewVars
<1> QED
  BY <1>2, <1>3, <1>4

LEMMA DropMemberStep ==
  ASSUME Inv, DropMember
  PROVE  Inv'
<1> USE DEF Inv
<1>0. /\ pc = "drop_member" /\ pc' \in {"joint", "select"}
      /\ joint' = [joint EXCEPT !.account = None] /\ excluded' = excluded \cup {account}
      /\ UNCHANGED <<renewVars, account, consumed, sessionVars>>
      /\ \/ ReleasedMember(account) /\ UNCHANGED spoiled
         \/ spoiled' = TRUE /\ UNCHANGED sqlVars
  BY DEF DropMember
<1>1. /\ account \in Accounts /\ joint.held /\ rows \in Tables
      /\ handoff.state = "active" /\ handoff.account = account /\ Taken \subseteq Lives
      /\ Lives \subseteq Members(account) /\ Sources = {} /\ controller = "none"
  BY <1>0 DEF FirstAttempt, LeaseSound, SourcesSound, Attempting, OneCloser, TypeOK, Tables
<1>2. spoiled' \in BOOLEAN /\ (spoiled => spoiled')
  BY <1>0, OnceSpoiled
<1>3. /\ joint' \in [held : BOOLEAN, account : Accounts \cup {None}]
      /\ joint'.held /\ joint'.account = None
  BY <1>0, <1>1 DEF TypeOK
<1>4. /\ rows' \in Tables /\ Sources' = {} /\ handoff' = handoff
      /\ Taken \subseteq Lives' /\ Lives' \subseteq Lives
      /\ ~ spoiled' => Lives' \cap Accounts = {}
  <2>1. CASE ReleasedMember(account)
    <3>1. rows' = Released(rows, {account} \cap Limited, "live") /\ handoff' = handoff
      BY <1>1, <2>1 DEF ReleasedMember
    <3>2. rows' \in Tables /\ Lives' = Lives \ ({account} \cap Limited) /\ Sources' = Sources
      BY <1>1, <3>1, ReleasedLive, HeldIsHeldIn
    <3> QED
      BY <1>1, <3>1, <3>2, LiveAssumption DEF Members, Taken
  <2>2. CASE spoiled' = TRUE /\ UNCHANGED sqlVars
    BY <1>1, <2>2, SameRows DEF sqlVars
  <2> QED
    BY <1>0, <2>1, <2>2
<1>5. TypeOK' /\ OneCloser'
  BY <1>0, <1>1, <1>2, <1>3, <1>4, CreationTypes DEF TypeOK, Steps, renewVars
<1>6. LeaseSound' /\ SourcesSound'
  BY <1>0, <1>1, <1>2, <1>4 DEF LeaseSound, SourcesSound, Members
<1>7. FirstAttempt' /\ Attempting' /\ BetweenAttempts' /\ Ending' /\ RenewalOff'
  BY <1>0, <1>1, <1>2, <1>3, <1>4
  DEF FirstAttempt, Attempting, BetweenAttempts, Ending, RenewalOff, sessionVars, renewVars
<1> QED
  BY <1>5, <1>6, <1>7

LEMMA ReleaseJointStep ==
  ASSUME Inv, ReleaseJoint
  PROVE  Inv'
<1> USE DEF Inv
<1>0. /\ pc = "joint" /\ pc' = "leave" /\ joint' = [held |-> FALSE, account |-> None]
      /\ UNCHANGED <<renewVars, account, excluded, consumed, sessionVars>>
      /\ \/ /\ IF joint.held THEN ReleasedLease(joint.account) ELSE UNCHANGED sqlVars
            /\ UNCHANGED spoiled
         \/ spoiled' = TRUE /\ UNCHANGED sqlVars
  BY DEF ReleaseJoint
<1>1. spoiled' \in BOOLEAN /\ (spoiled => spoiled')
  BY <1>0, OnceSpoiled
<1>2. /\ controller = "none" /\ Sources \subseteq {Key, User}
      /\ ~ joint.held => handoff.state = "none" /\ excluded = {} /\ Lives = {}
      /\ joint.held => \/ joint.account = handoff.account
                       \/ excluded # {} /\ (~ spoiled => Lives \cap Accounts = {})
  BY <1>0 DEF OneCloser, SourcesSound, FirstAttempt, LeaseSound, BetweenAttempts
<1>3. /\ rows' \in Tables
      /\ handoff' \in [state : {"none", "active", "aborted", "closed"}, account : Accounts \cup {None}]
      /\ \/ Sources' = {} /\ Lives' = {} /\ handoff'.state \in {"closed", "aborted"} /\ handoff.state # "none"
         \/ /\ Sources' = Sources /\ Lives' = Lives /\ handoff' = handoff
            /\ ~ spoiled' => Lives \cap Accounts = {} /\ (excluded = {} => Lives = {})
  <2>1. ASSUME UNCHANGED sqlVars
        PROVE  rows' \in Tables /\ Sources' = Sources /\ Lives' = Lives /\ handoff' = handoff
    BY <2>1, SameRows DEF sqlVars, TypeOK, Tables
  <2>2. CASE spoiled' = TRUE /\ UNCHANGED sqlVars
    BY <2>1, <2>2 DEF TypeOK
  <2>3. CASE ~ joint.held /\ UNCHANGED sqlVars
    BY <1>2, <2>1, <2>3 DEF TypeOK
  <2>4. CASE joint.held /\ ReleasedLease(joint.account) /\ UNCHANGED spoiled
    <3>0. /\ joint.account \in Accounts \cup {None}
          /\ handoff.state \in {"none", "active", "aborted", "closed"}
          /\ handoff \in [state : {"none", "active", "aborted", "closed"}, account : Accounts \cup {None}]
      BY DEF TypeOK
    <3>1. CASE UNCHANGED sqlVars
      <4>1. CASE joint.account = handoff.account
        <5>1. handoff.state \in {"aborted", "closed"}
          BY <2>1, <2>4, <3>0, <3>1, <4>1, FinishedEffect DEF ReleasedLease, TypeOK, Tables
        <5> QED
          BY <2>1, <3>0, <3>1, <5>1 DEF LeaseSound
      <4>2. CASE joint.account # handoff.account
        BY <1>2, <2>1, <2>4, <3>0, <3>1, <4>2
      <4> QED
        BY <4>1, <4>2
    <3>2. CASE /\ handoff.account = joint.account /\ handoff.state \in {"none", "active"}
               /\ rows' \in Tables /\ Sources' = Sources /\ Lives' = Lives \ Members(joint.account)
               /\ handoff' = [state |-> "closed", account |-> joint.account]
      <4>1. handoff.state = "active"
        BY <2>4, <3>2 DEF Attempting
      <4> QED
        BY <1>0, <3>0, <3>2, <4>1 DEF LeaseSound, SourcesSound
    <3> QED
      BY <2>4, <3>1, <3>2, ReleasedLeaseEffect
  <2> QED
    BY <1>0, <2>2, <2>3, <2>4
<1>4. TypeOK' /\ OneCloser'
  BY <1>0, <1>1, <1>3, CreationTypes DEF TypeOK, Steps, renewVars
<1>5. LeaseSound' /\ SourcesSound'
  BY <1>0, <1>1, <1>2, <1>3 DEF LeaseSound, SourcesSound, Members
<1>6. FirstAttempt' /\ Attempting' /\ BetweenAttempts' /\ Ending' /\ RenewalOff'
  BY <1>0, <1>1, <1>2, <1>3
  DEF FirstAttempt, Attempting, BetweenAttempts, Ending, RenewalOff, sessionVars, renewVars
<1> QED
  BY <1>4, <1>5, <1>6

LEMMA SaveStep ==
  ASSUME Inv, NEW g \in Agents, SaveLiveCall(g)
  PROVE  Inv'
<1> USE DEF Inv
<1>0. /\ pc = "save" /\ pc' = "leave" /\ agent[g] = "idle" /\ controller' = "pending"
      /\ agent' = [agent EXCEPT ![g] = "observe"]
      /\ UNCHANGED <<sqlVars, renewVars, account, joint, excluded, consumed, spoiled, owner, expired, logged>>
  BY DEF SaveLiveCall
<1>1. rows' \in Tables /\ Sources' = Sources /\ Lives' = Lives
  BY <1>0, SameRows DEF TypeOK, Tables, sqlVars
<1>2. /\ controller = "none" /\ logged = 0 /\ account \in Accounts /\ handoff.state = "active"
      /\ Members(account) \subseteq Lives /\ Sources = {} /\ \A h \in Agents : agent[h] = "idle"
  BY <1>0 DEF OneCloser, FirstAttempt, Attempting, SourcesSound
<1>3. TypeOK'
  <2>1. agent' \in [Agents -> AgentStates]
    BY <1>0 DEF TypeOK, AgentStates
  <2> QED
    BY <1>0, <1>2, <2>1 DEF TypeOK, Steps, sqlVars, renewVars
<1>4. OneCloser'
  BY <1>0, <1>2 DEF OneCloser, TypeOK
<1>5. LeaseSound' /\ SourcesSound'
  BY <1>0, <1>1, <1>2 DEF LeaseSound, SourcesSound, Members, sqlVars
<1>6. FirstAttempt' /\ Attempting' /\ BetweenAttempts' /\ Ending' /\ RenewalOff'
  BY <1>0, <1>1, <1>2
  DEF FirstAttempt, Attempting, BetweenAttempts, Ending, RenewalOff, Members, renewVars, sqlVars
<1> QED
  BY <1>3, <1>4, <1>5, <1>6

LEMMA SaveFailsStep ==
  ASSUME Inv, SaveFails
  PROVE  Inv'
<1> USE DEF Inv
<1>0. /\ pc = "save" /\ pc' = "joint"
      /\ UNCHANGED <<sqlVars, renewVars, account, joint, excluded, consumed, spoiled, sessionVars>>
  BY DEF SaveFails
<1>1. rows' \in Tables /\ Sources' = Sources /\ Lives' = Lives
  BY <1>0, SameRows DEF TypeOK, Tables, sqlVars
<1>2. TypeOK' /\ OneCloser'
  BY <1>0, <1>1, CreationTypes DEF TypeOK, Steps, renewVars, sqlVars
<1>3. LeaseSound' /\ SourcesSound'
  BY <1>0, <1>1 DEF LeaseSound, SourcesSound, Attempting, Members, sqlVars
<1>4. FirstAttempt' /\ Attempting' /\ BetweenAttempts' /\ Ending' /\ RenewalOff'
  BY <1>0, <1>1
  DEF FirstAttempt, Attempting, BetweenAttempts, Ending, RenewalOff, OneCloser, sessionVars, renewVars, sqlVars
<1> QED
  BY <1>2, <1>3, <1>4

LEMMA LeaveStep ==
  ASSUME Inv, Leave \/ LeaveKey
  PROVE  Inv'
<1> USE DEF Inv
<1>0. /\ \/ pc = "leave" /\ pc' = "leave_key"
         \/ pc = "leave_key" /\ pc' = "gone"
      /\ UNCHANGED <<handoff, renewVars, account, joint, excluded, consumed, spoiled, sessionVars>>
  BY DEF Leave, LeaveKey
<1>1. /\ rows' \in Tables /\ Lives' = Lives /\ Sources' \subseteq Sources
      /\ pc' = "leave_key" => User \notin Sources'
      /\ pc' = "gone" /\ ~ spoiled => Key \notin Sources'
  <2>1. CASE Leave
    <3>1. ReleaseSource({User}) /\ rows \in Tables /\ Sources \subseteq Limited /\ pc' = "leave_key"
      BY <2>1 DEF Leave, TypeOK, Tables, SourcesSound
    <3>2. rows' \in Tables /\ Sources' = Sources \ ({User} \cap Limited) /\ Lives' = Lives
      BY <3>1, ReleaseSourceEffect
    <3> QED
      BY <3>1, <3>2
  <2>2. CASE LeaveKey
    <3>1. pc' = "gone" /\ ReleaseReservation
      BY <2>2 DEF LeaveKey
    <3> QED
      BY <3>1, ReservationEffect
  <2> QED
    BY <2>1, <2>2
<1>2. TypeOK' /\ OneCloser'
  BY <1>0, <1>1, CreationTypes DEF TypeOK, Steps, renewVars
<1>3. LeaseSound' /\ SourcesSound'
  BY <1>0, <1>1 DEF LeaseSound, SourcesSound, Members
<1>4. FirstAttempt' /\ Attempting' /\ BetweenAttempts' /\ Ending' /\ RenewalOff'
  BY <1>0, <1>1
  DEF FirstAttempt, Attempting, BetweenAttempts, Ending, RenewalOff, sessionVars, renewVars
<1> QED
  BY <1>2, <1>3, <1>4

LEMMA StutterStep ==
  ASSUME Inv, UNCHANGED vars
  PROVE  Inv'
<1> USE DEF Inv
<1>0. UNCHANGED <<sqlVars, renewVars, callVars, sessionVars>>
  BY DEF vars
<1>1. Sources' = Sources /\ Lives' = Lives
  BY <1>0, SameRows DEF sqlVars
<1>2. TypeOK' /\ OneCloser' /\ RenewalOff'
  BY <1>0 DEF TypeOK, OneCloser, RenewalOff, sqlVars, renewVars, callVars, creationVars, sessionVars
<1>3. LeaseSound' /\ SourcesSound' /\ FirstAttempt' /\ Attempting' /\ BetweenAttempts' /\ Ending'
  BY <1>0, <1>1
  DEF LeaseSound, SourcesSound, FirstAttempt, Attempting, BetweenAttempts, Ending, Members, sqlVars,
      callVars, creationVars, sessionVars
<1> QED
  BY <1>2, <1>3

LEMMA NextInv == Inv /\ [Next]_vars => Inv'
<1> SUFFICES ASSUME Inv, [Next]_vars PROVE Inv'
  OBVIOUS
<1>1. CASE Renewal
  BY <1>1, RenewalStep
<1>2. CASE Create
  <2>1. CASE ReserveKey \/ AcquireUser \/ SelectFails \/ \E a \in Accounts : SelectAccount(a)
    BY <2>1, ReserveStep, UserStep, SelectStep, SelectFailsStep
  <2>2. CASE Transfer \/ TransferInDoubt \/ TransferRefused \/ AbortTransfer
    BY <2>2, TransferStep, TransferRefusedStep, AbortTransferStep
  <2>3. CASE DropAccount \/ DropLease \/ DropKey
    BY <2>3, DropAccountStep, DropLeaseStep, DropKeyStep
  <2>4. CASE Migrate \/ MigrateInDoubt \/ AbortMigration \/ MigrateRefused
    BY <2>4, MigrateStep, AbortMigrationStep, MigrateRefusedStep
  <2>5. CASE Dial \/ DropMember \/ ReleaseJoint \/ SaveFails \/ \E g \in Agents : SaveLiveCall(g)
    BY <2>5, DialStep, DropMemberStep, ReleaseJointStep, SaveFailsStep, SaveStep
  <2>6. CASE Leave \/ LeaveKey
    BY <2>6, LeaveStep
  <2> QED
    BY <1>2, <2>1, <2>2, <2>3, <2>4, <2>5, <2>6 DEF Create
<1>3. CASE Expire
  BY <1>3, ExpireStep
<1>4. ASSUME NEW g \in Agents, Attend(g) \/ ProxyClaims(g) \/ ProxyClaimFails(g)
      PROVE  Inv'
  BY <1>4, ControlStep, LeavesStep, CloseStep DEF Attend
<1>5. CASE UNCHANGED vars
  BY <1>5, StutterStep
<1> QED
  BY <1>1, <1>2, <1>3, <1>4, <1>5 DEF Next

-----------------------------------------------------------------------------
(* The results. *)

\* The invariant holds in every state of the session.
THEOREM Invariance == Spec => []Inv
<1>1. Init => Inv
  BY InitInv
<1>2. Inv /\ [Next]_vars => Inv'
  BY NextInv
<1> QED
  BY <1>1, <1>2, PTL DEF Spec

\* An established session keeps all its limited slots until it is finalized,
\* for any accounts, controllers and failing calls (moveLiveMember,
\* MigrateLiveLeaseAccount, ReleaseLiveLease).
THEOREM SessionsKeepSlots == Spec => []SessionKeepsSlots
<1>1. Inv => SessionKeepsSlots
  BY DEF Inv, Ending, SessionKeepsSlots, Lives
<1> QED
  BY <1>1, Invariance, PTL

\* A session never counts twice in a dimension unless a clean-up call failed
\* (AcquireLiveLeaseTransferring, MigrateLiveLeaseAccount).
THEOREM SlotsAreCountedOnce == Spec => []OneSlotPerDimension
<1>1. Inv => OneSlotPerDimension
  <2> SUFFICES ASSUME Inv
               PROVE  OneSlotPerDimension
    OBVIOUS
  <2> USE DEF Inv
  <2>0. handoff.state \in {"none", "active", "aborted", "closed"}
    BY DEF TypeOK
  <2>1. Sources \cap Lives = {}
    <3>1. CASE handoff.state # "active" \/ account \notin Sources
      BY <2>0, <3>1 DEF LeaseSound, SourcesSound
    <3>2. CASE handoff.state = "active" /\ account \in Sources
      <4>1. pc \in {"migrate", "abort_migration"} /\ Sources \subseteq {account} /\ account \in Accounts
        BY <3>2 DEF SourcesSound, FirstAttempt
      <4>2. account # handoff.account
        BY <3>2, <4>1 DEF Attempting, BetweenAttempts
      <4>3. account \notin Lives
        BY <3>2, <4>1, <4>2, LiveAssumption DEF LeaseSound, Members
      <4> QED
        BY <4>1, <4>3
    <3> QED
      BY <3>1, <3>2
  <2>2. ASSUME ~ spoiled
        PROVE  \E a : (Sources \cup Lives) \cap Accounts \subseteq {a}
    <3>1. CASE handoff.state # "active"
      BY <2>0, <3>1, LiveAssumption DEF LeaseSound, SourcesSound
    <3>2. CASE handoff.state = "active" /\ account \notin Sources
      <4>1. Sources = {}
        BY <3>2 DEF SourcesSound
      <4>2. Lives \cap Accounts \subseteq {handoff.account}
        BY <3>2, LiveAssumption DEF LeaseSound, Members
      <4> QED
        BY <4>1, <4>2
    <3>3. CASE handoff.state = "active" /\ account \in Sources
      <4>1. pc \in {"migrate", "abort_migration"} /\ Sources \subseteq {account}
        BY <3>3 DEF SourcesSound
      <4>2. Lives \cap Accounts = {}
        BY <2>2, <3>3, <4>1 DEF Attempting, BetweenAttempts
      <4> QED
        BY <4>1, <4>2
    <3> QED
      BY <3>1, <3>2, <3>3
  <2>3. ASSUME NEW S, \E a : S \subseteq {a}
        PROVE  Cardinality(S) <= 1
    <3>1. S = {} \/ \E a : S = {a}
      BY <2>3
    <3>2. CASE S = {}
      BY <3>2, FS_EmptySet
    <3>3. CASE \E a : S = {a}
      <4>1. PICK a : S = {a}
        BY <3>3
      <4>2. Cardinality({a}) = 1
        BY FS_Singleton, Zenon
      <4> QED
        BY <4>1, <4>2
    <3> QED
      BY <3>1, <3>2, <3>3
  <2> QED
    BY <2>1, <2>2, <2>3 DEF OneSlotPerDimension, Sources, Lives
<1> QED
  BY <1>1, Invariance, PTL

\* An aborted or closed lease holds no slot under any of its identities
\* (finishLive), so a transfer in doubt is undone.
THEOREM FencedLeasesHoldNothing == Spec => []FencedHoldsNothing
<1>1. Inv => FencedHoldsNothing
  BY DEF Inv, LeaseSound, FencedHoldsNothing, Sources, Lives
<1> QED
  BY <1>1, Invariance, PTL

\* The watchdog of the key reservation never fires on a slot that was moved
\* (stopRenewal before the transfer).
THEOREM MovedSlotsAreNotLost == Spec => []TransferredNeverLost
<1>1. Inv => TransferredNeverLost
  BY DEF Inv, RenewalOff, TransferredNeverLost
<1> QED
  BY <1>1, Invariance, PTL

\* One finalizer records the usage, for any number of controllers
\* (MarkLiveCallClosed).
THEOREM SessionsAreFinalizedOnce == Spec => []FinalizedOnce
<1>1. Inv => FinalizedOnce
  <2> SUFFICES ASSUME Inv PROVE FinalizedOnce
    OBVIOUS
  <2>1. logged \in Nat /\ (logged # 0 => logged = 1 /\ controller = "closed")
    BY DEF Inv, TypeOK, OneCloser
  <2> QED
    BY <2>1 DEF FinalizedOnce
<1> QED
  BY <1>1, Invariance, PTL

\* A failed creation gives back its account slots, and all of them when no
\* attempt had failed before (releaseJoint and the handler's deferred calls).
THEOREM FailuresLeaveNoAccount == Spec => []FailedLeavesNoAccount
<1>1. Inv => FailedLeavesNoAccount
  BY DEF Inv, SourcesSound, Ending, FailedLeavesNoAccount, Sources, Lives
<1> QED
  BY <1>1, Invariance, PTL
=============================================================================

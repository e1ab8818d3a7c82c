------------------------------ MODULE KeyQueue ------------------------------
(***************************************************************************)
(* The wait queue of ONE API key at ONE site                               *)
(* (backend/internal/repository/regional_queue.go, driven by               *)
(* backend/internal/service/api_key_queue.go).                             *)
(*                                                                         *)
(* A request first asks for a slot of its key.  When there is none it      *)
(* enters a first-come-first-served queue kept in SQL and polls it until   *)
(* it is admitted, its deadline passes, the caller leaves or the policy of *)
(* the key changes; whatever happened, it ends by fencing its ticket.      *)
(* Every queue transaction locks the budget row of the key, so it is one   *)
(* action; answers may be lost, and a command whose caller gave up may     *)
(* still be served later, which is what the permanent tombstones are for.  *)
(*                                                                         *)
(* The slot table is reduced to what RegionalSlots shows of it: a request  *)
(* holds at most one slot, and a released identity never holds one again.  *)
(***************************************************************************)
EXTENDS Integers, FiniteSets

CONSTANTS
  Requests,    \* request IDs (generateRequestID), one attempt each
  Queueless,   \* those of processes whose policy disables queueing
  Limits,      \* limits the key may have; 0 is an unlimited key
  Shares,      \* what other sites take from the primary, or grants give a region
  MaxWaiting,  \* APIKeyQueuePolicy.MaxWaiting of the other processes
  Timeout,     \* APIKeyQueuePolicy.Timeout, in ticks
  OnPrimary,   \* the site is the primary one (c.primary # nil)
  Failures,    \* a process may crash or exhaust its cleanup retries
  Horizon      \* bound on the database clock

ASSUME QueueAssumption ==
  /\ IsFiniteSet(Requests) /\ Queueless \subseteq Requests
  /\ Limits \subseteq Nat /\ Shares \subseteq Nat
  /\ MaxWaiting \in Nat \ {0}
  /\ Timeout \in Nat \ {0}
  /\ OnPrimary \in BOOLEAN /\ Failures \in BOOLEAN
  /\ Horizon \in Nat

VARIABLES
  clock,     \* clock_timestamp() of the site's database
  limit,     \* concurrency limit of the key in force
  cached,    \* the limit the auth cache (L1/L2) shows to the revalidator
  share,     \* primary: slots granted to regions; region: slots its grants give
  rows,      \* regional_key_queue: request -> ticket
  sequence,  \* last value of regional_key_queue.sequence
  slot,      \* the request's slot: "none", "held" or "released" for ever
  proc,      \* the goroutine serving the request
  late       \* the command a caller gave up on while it was still unserved

vars == <<clock, limit, cached, share, rows, sequence, slot, proc, late>>
siteVars == <<clock, limit, cached, share>>

Ticket == [state: {"none", "waiting", "timeout", "acquired", "aborted"},
           deadline: Nat, limit: Nat, seq: Nat]

Stage == {"idle", "first", "loop", "advance", "confirmed", "switch", "release",
          "fence", "forward", "tracked", "done", "crashed"}

Answer == {"none", "busy", "acquired", "waiting", "timeout", "aborted",
           "ticket_lost", "policy_changed", "queue_full"}

Process == [stage: Stage, limit: Nat, mode: {"enter", "poll"}, deadline: Nat,
            answer: Answer,
            fenced: BOOLEAN,     \* the deferred abort of waitAPIKeyQueue is due
            remove: BOOLEAN,     \* removeRegularOnExit
            next: {"forward", "tracked", "done"},  \* what the caller is told
            residue: BOOLEAN]    \* a bounded cleanup was given up

\* The types of the state; the line never grows beyond the policy, although the
\* requests that enter it count the tickets of each other (AdvanceAPIKeyQueue).
TypeOK ==
  /\ clock \in Nat
  /\ limit \in Limits /\ cached \in Limits
  /\ share \in Shares
  /\ rows \in [Requests -> Ticket]
  /\ sequence \in Nat
  /\ slot \in [Requests -> {"none", "held", "released"}]
  /\ proc \in [Requests -> Process]
  /\ late \in [Requests -> {"none", "first", "advance"}]
  /\ Cardinality({r \in Requests : rows[r].state = "waiting"}) <= MaxWaiting

NoTicket == [state |-> "none", deadline |-> 0, limit |-> 0, seq |-> 0]

Init ==
  /\ clock = 0
  /\ limit \in Limits /\ cached = limit
  /\ share \in Shares /\ (OnPrimary => share <= limit)
  /\ rows = [r \in Requests |-> NoTicket]
  /\ sequence = 0
  /\ slot = [r \in Requests |-> "none"]
  /\ proc = [r \in Requests |->
       [stage |-> "idle", limit |-> 0, mode |-> "enter", deadline |-> 0,
        answer |-> "none", fenced |-> FALSE, remove |-> TRUE, next |-> "done",
        residue |-> FALSE]]
  /\ late = [r \in Requests |-> "none"]

-----------------------------------------------------------------------------
(* The slot table and the queue table, inside one transaction *)

Held == {r \in Requests : slot[r] = "held"}

\* Whether one more slot fits: primary_used + granted < limit on the primary,
\* some grant with used < slots in a region.
Room ==
  IF OnPrimary THEN Cardinality(Held) + share < limit
               ELSE Cardinality(Held) < share

\* acquireTx: a request that holds a slot keeps it, a released one is refused.
Obtains(r) == slot[r] = "held" \/ (slot[r] = "none" /\ Room)

\* The waiting tickets of the table t.
Waiting(t) == {r \in Requests : t[r].state = "waiting"}

\* queueTx: every queue transaction first times out the tickets past their
\* deadline.
Expired ==
  [r \in Requests |->
     IF r \in Waiting(rows) /\ rows[r].deadline <= clock
       THEN [rows[r] EXCEPT !.state = "timeout"] ELSE rows[r]]

\* Mutant: the ticket with the latest sequence is served.
IsLast(t, r) == \A q \in Waiting(t) : t[q].seq <= t[r].seq

\* r is the ticket that "ORDER BY sequence LIMIT 1" selects.
IsFirst(t, r) == \A q \in Waiting(t) : t[r].seq <= t[q].seq

\* What a transaction leaves behind and tells its caller.
Result(t, s, n, a) == [rows |-> t, slot |-> s, sequence |-> n, answer |-> a]

\* Without a queue the line is not looked at.
AcquireAPIKeySlot(r) ==
  IF Obtains(r)
    THEN Result(rows, [slot EXCEPT ![r] = "held"], sequence, "acquired")
    ELSE Result(rows, slot, sequence, "busy")

\* Mutant: waiting tickets do not hold back a direct admission.
OvertakingAcquire(r) ==
  IF Obtains(r)
    THEN Result(Expired, [slot EXCEPT ![r] = "held"], sequence, "acquired")
    ELSE Result(Expired, slot, sequence, "busy")

\* A direct admission is refused while anybody waits.
AcquireAPIKeySlotWithTime(r) ==
  IF Waiting(Expired) = {} /\ Obtains(r)
    THEN Result(Expired, [slot EXCEPT ![r] = "held"], sequence, "acquired")
    ELSE Result(Expired, slot, sequence, "busy")

\* The ticket r enters the table t with.
Entered(t, r) ==
  [t EXCEPT ![r] = [state |-> "waiting", deadline |-> proc[r].deadline,
                    limit |-> proc[r].limit, seq |-> sequence + 1]]

\* Mutant: the count is compared after the ticket is counted in.
FullAfterInsert(t) == Cardinality(Waiting(t)) > MaxWaiting

Full(t) == Cardinality(Waiting(t)) >= MaxWaiting

\* r waits in t: the head of the line is admitted when a slot is free.
Served(t, r, n) ==
  IF IsFirst(t, r) /\ Obtains(r)
    THEN Result([t EXCEPT ![r].state = "acquired"],
                [slot EXCEPT ![r] = "held"], n, "acquired")
    ELSE Result(t, slot, n, "waiting")

\* The stored ticket carries another deadline or limit than the call.
TicketDiffers(t, r) ==
  t[r].deadline # proc[r].deadline \/ t[r].limit # proc[r].limit

\* One ENTER or POLL step.  The limit in force is known on the primary only.
AdvanceAPIKeyQueue(r) ==
  LET t == Expired
      refuse(a) == Result(t, slot, sequence, a)
  IN IF OnPrimary /\ limit # proc[r].limit THEN refuse("policy_changed")
     ELSE IF t[r].state = "aborted" THEN refuse("aborted")
     ELSE IF t[r].state # "none" THEN
            IF TicketDiffers(t, r) THEN refuse("policy_changed")
            ELSE IF t[r].state = "waiting" THEN Served(t, r, sequence)
            ELSE refuse(t[r].state)
     ELSE IF proc[r].mode = "poll" THEN refuse("ticket_lost")
     ELSE IF proc[r].deadline <= clock THEN refuse("timeout")
     ELSE IF Full(t) THEN refuse("queue_full")
     ELSE Served(Entered(t, r), r, sequence + 1)

\* Mutant: a ticket that was never written leaves no tombstone.
AbortKnown(r, remove) ==
  Result([Expired EXCEPT ![r].state =
            IF @ = "none" \/ (@ = "acquired" /\ ~remove) THEN @ ELSE "aborted"],
         IF remove /\ slot[r] = "held" THEN [slot EXCEPT ![r] = "released"]
                                       ELSE slot,
         sequence, "none")

\* The ticket t of r after its attempt was fenced.  A confirmed ticket survives
\* unless its slot is to be removed with it; a missing one is written as aborted.
Tombstone(t, r, remove) ==
  IF t.state = "none"
    THEN [NoTicket EXCEPT !.state = "aborted", !.deadline = proc[r].deadline]
    ELSE [t EXCEPT !.state = IF t.state = "acquired" /\ ~remove THEN "acquired" ELSE "aborted"]

AbortAPIKeyQueueAttempt(r, remove) ==
  Result([Expired EXCEPT ![r] = Tombstone(Expired[r], r, remove)],
         IF remove THEN [slot EXCEPT ![r] = "released"] ELSE slot,
         sequence, "none")

\* The transaction whose result is x commits.
Commit(x) ==
  /\ rows' = x.rows
  /\ slot' = x.slot
  /\ sequence' = x.sequence

\* The answer of the command the request's goroutine waits for.
Serve(r, call) ==
  IF call = "advance" THEN AdvanceAPIKeyQueue(r)
  ELSE IF r \in Queueless THEN AcquireAPIKeySlot(r)
  ELSE AcquireAPIKeySlotWithTime(r)

-----------------------------------------------------------------------------
(* The goroutine of a request: ReserveAPIKeySlotWithWait *)

At(r, stage) == proc[r].stage = stage

\* A key without a limit is only tracked for statistics; otherwise the
\* revalidated limit goes with the first attempt.
Begin(r) ==
  /\ At(r, "idle")
  /\ proc' = [proc EXCEPT ![r].stage = IF cached = 0 THEN "tracked" ELSE "first",
                          ![r].limit = cached]
  /\ UNCHANGED <<siteVars, rows, sequence, slot, late>>

\* The database serves the call in flight; its answer is under way.
ServeCall(r) ==
  /\ proc[r].stage \in {"first", "advance"} /\ proc[r].answer = "none"
  /\ LET x == Serve(r, proc[r].stage) IN
       /\ Commit(x)
       /\ proc' = [proc EXCEPT ![r].answer = x.answer]
  /\ UNCHANGED <<siteVars, late>>

\* A command its caller gave up on is served after all: nobody reads the answer.
ServeLate(r) ==
  /\ late[r] # "none"
  /\ Commit(Serve(r, late[r]))
  /\ late' = [late EXCEPT ![r] = "none"]
  /\ UNCHANGED <<siteVars, proc>>

\* The first attempt got its slot at once.
FirstAcquired(r) ==
  /\ At(r, "first") /\ proc[r].answer = "acquired"
  /\ proc' = [proc EXCEPT ![r].stage = "confirmed", ![r].answer = "none"]
  /\ UNCHANGED <<siteVars, rows, sequence, slot, late>>

\* It was busy: without a queue the caller keeps its 429, with one the deadline
\* is fixed from the database time, unless the budget is spent already.
FirstBusy(r) ==
  /\ At(r, "first") /\ proc[r].answer = "busy"
  /\ \/ /\ r \in Queueless
        /\ proc' = [proc EXCEPT ![r].stage = "done", ![r].answer = "none"]
     \/ /\ r \notin Queueless
        /\ \E d \in 1..Timeout :
             /\ clock + d <= Horizon
             /\ proc' = [proc EXCEPT ![r].stage = "loop", ![r].answer = "none",
                                     ![r].deadline = clock + d, ![r].fenced = TRUE]
     \/ /\ r \notin Queueless
        /\ proc' = [proc EXCEPT ![r].stage = "fence", ![r].answer = "none"]
  /\ UNCHANGED <<siteVars, rows, sequence, slot, late>>

\* The call in flight fails for its caller, whether or not it is served.  A
\* failed first attempt is released, a failed queue step is fenced.
CallFails(r) ==
  /\ proc[r].stage \in {"first", "advance"}
  /\ late' = IF proc[r].answer = "none"
               THEN [late EXCEPT ![r] = proc[r].stage] ELSE late
  /\ proc' = [proc EXCEPT ![r].answer = "none",
                          ![r].stage = IF At(r, "first") THEN "release" ELSE "fence"]
  /\ UNCHANGED <<siteVars, rows, sequence, slot>>

-----------------------------------------------------------------------------
(* waitAPIKeyQueue *)

\* The limit is re-read before every step; a key that became unlimited leaves
\* the queue.
Revalidate(r) ==
  /\ At(r, "loop")
  /\ proc' = [proc EXCEPT ![r].stage = IF cached = 0 THEN "switch" ELSE "advance",
                          ![r].limit = IF cached = 0 THEN @ ELSE cached]
  /\ UNCHANGED <<siteVars, rows, sequence, slot, late>>

\* Mutant: once there is a ticket, the deadline is left to the database.
TimeoutBeforeTicket(r) ==
  /\ At(r, "loop") /\ proc[r].mode = "enter" /\ proc[r].deadline <= clock
  /\ proc' = [proc EXCEPT ![r].stage = "fence"]
  /\ UNCHANGED <<siteVars, rows, sequence, slot, late>>

\* The local deadline passed (apiKeyQueueWaitError, a spent backoff budget).
LocalTimeout(r) ==
  /\ At(r, "loop") /\ proc[r].deadline <= clock
  /\ proc' = [proc EXCEPT ![r].stage = "fence"]
  /\ UNCHANGED <<siteVars, rows, sequence, slot, late>>

\* The caller is gone, the service stops, or the key is no longer valid: before
\* the first attempt nothing is to be undone.
Leave(r) ==
  /\ proc[r].stage \in {"idle", "loop"}
  /\ proc' = [proc EXCEPT ![r].stage = IF @ = "idle" THEN "done" ELSE "fence"]
  /\ UNCHANGED <<siteVars, rows, sequence, slot, late>>

\* Mutant: the slot of a confirmed ticket is removed by the deferred fence.
ConfirmedKeepsRemove(r) ==
  /\ proc[r].answer = "acquired"
  /\ proc' = [proc EXCEPT ![r].stage = "confirmed", ![r].answer = "none"]

\* A confirmed ticket is the reservation: the deferred fence must not remove it.
Confirmed(r) ==
  /\ proc[r].answer = "acquired"
  /\ proc' = [proc EXCEPT ![r].stage = "confirmed", ![r].answer = "none",
                          ![r].remove = FALSE]

\* A waiting ticket polls from now on; a changed policy is read again.
Again(r) ==
  \/ /\ proc[r].answer = "waiting"
     /\ proc' = [proc EXCEPT ![r].stage = "loop", ![r].answer = "none",
                             ![r].mode = "poll"]
  \/ /\ proc[r].answer = "policy_changed"
     /\ proc' = [proc EXCEPT ![r].stage = IF cached = 0 THEN "switch" ELSE "loop",
                             ![r].answer = "none",
                             ![r].limit = IF cached = 0 THEN @ ELSE cached]

\* Every other answer ends the wait.
Refused(r) ==
  /\ proc[r].answer \in {"timeout", "aborted", "ticket_lost", "queue_full"}
  /\ proc' = [proc EXCEPT ![r].stage = "fence", ![r].answer = "none"]

HandleAnswer(r) ==
  /\ At(r, "advance")
  /\ Confirmed(r) \/ Again(r) \/ Refused(r)
  /\ UNCHANGED <<siteVars, rows, sequence, slot, late>>

\* adoptAPIKeyGrantOrRelease: the reservation is handed over, after the deferred
\* fence of a queued request; a queued request is revalidated a last time.
Adopt(r) ==
  /\ At(r, "confirmed")
  /\ proc[r].fenced => cached # 0
  /\ proc' = [proc EXCEPT ![r].stage = IF proc[r].fenced THEN "fence" ELSE "forward",
                          ![r].next = "forward"]
  /\ UNCHANGED <<siteVars, rows, sequence, slot, late>>

\* A confirmed slot is released instead of handed over: the caller is gone, the
\* service stops or the key was revoked ("done"), or it became unlimited.
Decline(r) ==
  /\ At(r, "confirmed")
  /\ \E next \in {"done", "tracked"} :
       /\ next = "tracked" => proc[r].fenced /\ cached = 0
       /\ proc' = [proc EXCEPT ![r].stage = "release", ![r].next = next]
  /\ UNCHANGED <<siteVars, rows, sequence, slot, late>>

\* The forwarding owner is finished and releases its reservation.
Finish(r) ==
  /\ At(r, "forward")
  /\ proc' = [proc EXCEPT ![r].stage = "release", ![r].next = "done"]
  /\ UNCHANGED <<siteVars, rows, sequence, slot, late>>

-----------------------------------------------------------------------------
(* Cleanups: bounded retries of an idempotent transaction *)

\* The stage after the release of a slot.
AfterRelease(r) == IF proc[r].fenced THEN "fence" ELSE proc[r].next

\* Mutant: only a slot that is held is released.
ReleaseHeld(r) ==
  /\ At(r, "release")
  /\ slot' = [slot EXCEPT ![r] = IF @ = "held" THEN "released" ELSE @]
  /\ proc' = [proc EXCEPT ![r].stage = AfterRelease(r)]
  /\ UNCHANGED <<siteVars, rows, sequence, late>>

\* releaseAPIKeySlot: the identity is retired whether or not it holds a slot.
Release(r) ==
  /\ At(r, "release")
  /\ slot' = [slot EXCEPT ![r] = "released"]
  /\ proc' = [proc EXCEPT ![r].stage = AfterRelease(r)]
  /\ UNCHANGED <<siteVars, rows, sequence, late>>

\* abortAPIKeyQueueAttempt on the way out of the queue.
Fence(r) ==
  /\ At(r, "fence")
  /\ Commit(AbortAPIKeyQueueAttempt(r, proc[r].remove))
  /\ proc' = [proc EXCEPT ![r].stage = proc[r].next, ![r].fenced = FALSE]
  /\ UNCHANGED <<siteVars, late>>

\* switchAPIKeyQueueToUnlimited: the attempt is closed before statistics-only
\* tracking starts.
SwitchToUnlimited(r) ==
  /\ At(r, "switch")
  /\ Commit(AbortAPIKeyQueueAttempt(r, TRUE))
  /\ proc' = [proc EXCEPT ![r].stage = "fence", ![r].remove = FALSE,
                          ![r].next = "tracked"]
  /\ UNCHANGED <<siteVars, late>>

\* Mutant: the request is tracked although its attempt is still open.
SwitchIgnored(r) ==
  /\ Failures /\ At(r, "switch")
  /\ proc' = [proc EXCEPT ![r].stage = "fence", ![r].next = "tracked"]
  /\ UNCHANGED <<siteVars, rows, sequence, slot, late>>

\* A failed close is an error: the two states must not run side by side.
SwitchFails(r) ==
  /\ Failures /\ At(r, "switch")
  /\ proc' = [proc EXCEPT ![r].stage = "fence"]
  /\ UNCHANGED <<siteVars, rows, sequence, slot, late>>

\* The retries of a cleanup are exhausted: a warning is logged.
CleanupFails(r) ==
  /\ Failures
  /\ proc[r].stage \in {"release", "fence"}
  /\ proc' = [proc EXCEPT
       ![r].stage = IF @ = "release" THEN AfterRelease(r) ELSE proc[r].next,
       ![r].fenced = (proc[r].stage = "release") /\ @,
       ![r].residue = TRUE]
  /\ UNCHANGED <<siteVars, rows, sequence, slot, late>>

\* The process dies; the database keeps what it committed.
Crash(r) ==
  /\ Failures
  /\ proc[r].stage \notin {"idle", "tracked", "done", "crashed"}
  /\ late' = IF proc[r].stage \in {"first", "advance"} /\ proc[r].answer = "none"
               THEN [late EXCEPT ![r] = proc[r].stage] ELSE late
  /\ proc' = [proc EXCEPT ![r].stage = "crashed"]
  /\ UNCHANGED <<siteVars, rows, sequence, slot>>

-----------------------------------------------------------------------------
(* The site around the queue *)

\* An administrator moves the limit of the key.
SetLimit ==
  /\ limit' \in Limits \ {limit}
  /\ UNCHANGED <<clock, cached, share, rows, sequence, slot, proc, late>>

\* The auth cache catches up.
RefreshCache ==
  /\ cached # limit /\ cached' = limit
  /\ UNCHANGED <<clock, limit, share, rows, sequence, slot, proc, late>>

\* The share of the other sites, or of the region's grants, moves.  The primary
\* grants no more than the limit leaves (Primary.Issue).
MoveShare ==
  /\ share' \in Shares \ {share}
  /\ OnPrimary /\ share' > share => Cardinality(Held) + share' <= limit
  /\ UNCHANGED <<clock, limit, cached, rows, sequence, slot, proc, late>>

Tick ==
  /\ clock < Horizon /\ clock' = clock + 1
  /\ UNCHANGED <<limit, cached, share, rows, sequence, slot, proc, late>>

\* What the goroutine of r does as long as it runs.
Step(r) ==
  \/ Begin(r) \/ ServeCall(r) \/ FirstAcquired(r) \/ FirstBusy(r)
  \/ Revalidate(r) \/ LocalTimeout(r) \/ HandleAnswer(r)
  \/ Adopt(r) \/ Decline(r) \/ Release(r) \/ Fence(r) \/ SwitchToUnlimited(r)

Next ==
  \/ \E r \in Requests :
       \/ Step(r) \/ CallFails(r) \/ Leave(r) \/ Finish(r)
       \/ ServeLate(r) \/ SwitchFails(r) \/ CleanupFails(r) \/ Crash(r)
  \/ SetLimit \/ RefreshCache \/ MoveShare \/ Tick

Spec == Init /\ [][Next]_vars

-----------------------------------------------------------------------------
(* Safety *)

\* A slot always has an owner that will return it: when the attempt is over, or
\* in the queue, its request holds none, however late its commands were served
\* and whichever answer was lost.  Only exhausted cleanup retries leave one.
NoLeakedSlot ==
  \A r \in Requests :
    /\ slot[r] = "held"
    /\ proc[r].stage \in {"idle", "loop", "switch", "tracked", "done"}
    => proc[r].residue

\* A request is forwarded only with its slot, and its own fence, which runs after
\* the slot was confirmed, does not take it away (removeRegularOnExit).
ForwardHoldsSlot ==
  \A r \in Requests :
    At(r, "forward") \/ (At(r, "fence") /\ proc[r].next = "forward")
      => slot[r] = "held"

\* A request that went on as unlimited left no ticket in the line: it would hold
\* up everybody behind it (switchAPIKeyQueueToUnlimited).
UnlimitedLeavesLine ==
  \A r \in Requests : At(r, "tracked") => rows[r].state # "waiting"

\* q waits and its deadline has not passed.
LiveWaiter(q) == q \in Waiting(rows) /\ rows[q].deadline > clock

\* Nobody is admitted past a request that waits: a slot goes to the oldest live
\* ticket, and a direct admission happens only when nobody waits.  A process that
\* queues nobody does not look at the line.
NoOvertaking ==
  [][\A r \in Requests \ Queueless : slot[r] # "held" /\ slot'[r] = "held" =>
       \A q \in Requests \ {r} :
         LiveWaiter(q) => LiveWaiter(r) /\ rows[r].seq < rows[q].seq]_vars

-----------------------------------------------------------------------------
(* Liveness *)

\* Database calls return or fail, the goroutine runs on, and time passes; every
\* turn of the loop looks at the local clock, so a turn finds the deadline passed.
Fairness ==
  /\ WF_vars(Tick)
  /\ \A r \in Requests : WF_vars(Step(r)) /\ SF_vars(LocalTimeout(r))

FairSpec == Spec /\ Fairness

\* Every attempt ends: the caller gets its slot, is told that it has none, or its
\* process dies, whatever the policy and the other tickets do.
AttemptEnds ==
  \A r \in Requests :
    At(r, "first") ~> proc[r].stage \in {"forward", "tracked", "done", "crashed"}
=============================================================================

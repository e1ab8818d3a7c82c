--------------------------- MODULE KeyQueueProofs ---------------------------
(* Proofs about KeyQueue for any number of requests, any limits and shares,  *)
(* any policy of the queue, at the primary and in a region, with failures.   *)
EXTENDS KeyQueue, FiniteSetTheorems, TLAPS

-----------------------------------------------------------------------------
(* The inductive invariant. *)

\* a request in stage and with the record p may have the slot s, a ticket in
\* state t and the unserved command l
SoundAt(p, s, t, l) ==
  /\ p.stage \in {"idle", "first"} =>
       t = "none" /\ l = "none" /\ ~ p.fenced /\ p.remove /\ p.next = "done"
  /\ p.stage = "idle" => s = "none" /\ p.answer = "none"
  /\ p.stage = "first" =>
       p.answer \in {"none", "busy", "acquired"} /\ s = IF p.answer = "acquired" THEN "held" ELSE "none"
  /\ p.stage \in {"loop", "advance", "switch"} =>
       /\ l = "none" /\ p.fenced /\ p.remove /\ p.next = "done"
       /\ s = IF p.answer = "acquired" THEN "held" ELSE "none"
       /\ t \in IF p.answer = "acquired" THEN {"acquired"} ELSE {"none", "waiting", "timeout"}
  /\ p.stage \in {"loop", "switch"} => p.answer = "none"
  /\ p.stage = "confirmed" =>
       /\ s = "held" /\ l = "none" /\ p.next = "done"
       /\ p.fenced => ~ p.remove /\ t = "acquired"
  /\ p.stage = "release" =>
       /\ p.next \in {"done", "tracked"}
       /\ p.next = "tracked" => p.fenced
       /\ p.fenced => ~ p.remove /\ t = "acquired" /\ l = "none"
  /\ p.stage = "fence" =>
       /\ p.next = "forward" => s = "held" /\ ~ p.remove
       /\ p.next = "tracked" => ~ p.remove /\ t \in {"acquired", "aborted"}
       /\ p.next # "forward" /\ ~ p.remove => s = "released" \/ p.residue
       /\ l # "none" => p.next = "done" /\ p.remove
  /\ p.stage = "forward" => s = "held" /\ ~ p.fenced /\ l = "none"
  /\ p.stage = "tracked" => l = "none" /\ t # "waiting" /\ (s = "held" => p.residue)
  /\ p.stage = "done" =>
       /\ s = "held" => p.residue
       /\ l # "none" => s = "released" \/ p.residue
  /\ l = "first" => p.stage \in {"release", "done", "crashed"}
  /\ l = "advance" => p.stage \in {"fence", "done", "crashed"}

Sound == \A r \in Requests : SoundAt(proc[r], slot[r], rows[r].state, late[r])

\* the tickets in the line t carry different numbers, none above the last
LineSound(t, n) ==
  /\ \A q \in Waiting(t) : t[q].seq <= n
  /\ \A p, q \in Waiting(t) : t[p].seq = t[q].seq => p = q

Inv == TypeOK /\ Sound /\ LineSound(rows, sequence)

-----------------------------------------------------------------------------
(* What a transaction of the database does. *)

\* a transaction on behalf of r that leaves the tickets t, the slots s and the
\* number n: other requests at most see their ticket time out
TransactionSound(r, t, s, n) ==
  /\ t \in [Requests -> Ticket] /\ s \in [Requests -> {"none", "held", "released"}] /\ n \in Nat
  /\ LineSound(t, n) /\ Cardinality(Waiting(t)) <= MaxWaiting
  /\ \A q \in Requests \ {r} :
       /\ s[q] = slot[q]
       /\ \/ t[q].state = rows[q].state
          \/ rows[q].state = "waiting" /\ t[q].state = "timeout"

LEMMA RowFacts ==
  ASSUME Inv, NEW q \in Requests
  PROVE  /\ rows[q] \in Ticket /\ rows[q].seq \in Nat /\ rows[q].deadline \in Nat /\ rows[q].limit \in Nat
         /\ rows[q].state \in {"none", "waiting", "timeout", "acquired", "aborted"}
         /\ slot[q] \in {"none", "held", "released"} /\ sequence \in Nat /\ clock \in Nat
BY DEF Inv, TypeOK, Ticket

LEMMA ProcFacts ==
  ASSUME Inv, NEW q \in Requests
  PROVE  /\ proc[q] \in Process /\ proc[q].deadline \in Nat /\ proc[q].limit \in Nat
         /\ proc[q].stage \in Stage /\ proc[q].answer \in Answer
         /\ proc[q].next \in {"forward", "tracked", "done"}
         /\ late[q] \in {"none", "first", "advance"}
BY DEF Inv, TypeOK, Process

LEMMA WaitingSmall ==
  ASSUME NEW t, NEW u, Waiting(t) \subseteq Waiting(u), Cardinality(Waiting(u)) <= MaxWaiting
  PROVE  Cardinality(Waiting(t)) <= MaxWaiting
<1>1. IsFiniteSet(Waiting(u))
  BY QueueAssumption, FS_Subset DEF Waiting
<1>2. Cardinality(Waiting(t)) \in Nat /\ Cardinality(Waiting(u)) \in Nat
      /\ Cardinality(Waiting(t)) <= Cardinality(Waiting(u))
  BY <1>1, FS_Subset, FS_CardinalityType
<1> QED
  BY <1>2, QueueAssumption

LEMMA ExpiredFacts ==
  ASSUME Inv
  PROVE  /\ Expired \in [Requests -> Ticket]
         /\ \A q \in Requests :
              /\ Expired[q].seq = rows[q].seq
              /\ \/ Expired[q] = rows[q] /\ (rows[q].state # "waiting" \/ rows[q].deadline > clock)
                 \/ rows[q].state = "waiting" /\ Expired[q].state = "timeout" /\ rows[q].deadline <= clock
         /\ Waiting(Expired) \subseteq Waiting(rows)
         /\ LineSound(Expired, sequence) /\ Cardinality(Waiting(Expired)) <= MaxWaiting
<1>1. ASSUME NEW q \in Requests
      PROVE  /\ Expired[q] \in Ticket /\ Expired[q].seq = rows[q].seq
             /\ \/ Expired[q] = rows[q] /\ (rows[q].state # "waiting" \/ rows[q].deadline > clock)
                \/ rows[q].state = "waiting" /\ Expired[q].state = "timeout" /\ rows[q].deadline <= clock
  <2>1. CASE q \in Waiting(rows) /\ rows[q].deadline <= clock
    <3>1. Expired[q] = [rows[q] EXCEPT !.state = "timeout"]
      BY <2>1 DEF Expired
    <3> QED
      BY <2>1, <3>1, RowFacts DEF Ticket, Waiting
  <2>2. CASE ~ (q \in Waiting(rows) /\ rows[q].deadline <= clock)
    BY <2>2, RowFacts DEF Expired, Waiting
  <2> QED
    BY <2>1, <2>2
<1>2. Expired \in [Requests -> Ticket]
  <2>1. Expired = [q \in Requests |-> Expired[q]]
    BY DEF Expired
  <2> QED
    BY <1>1, <2>1
<1>3. Waiting(Expired) \subseteq Waiting(rows)
  BY <1>1 DEF Waiting
<1>4. LineSound(Expired, sequence)
  BY <1>1, <1>3 DEF Inv, LineSound, Waiting
<1>5. Cardinality(Waiting(rows)) <= MaxWaiting
  BY DEF Inv, TypeOK, Waiting
<1> QED
  BY <1>1, <1>2, <1>3, <1>4, <1>5, WaitingSmall

\* The table with the expired tickets timed out, and any slots.
LEMMA ExpiredSound ==
  ASSUME Inv, NEW r \in Requests, NEW s \in [Requests -> {"none", "held", "released"}],
         \A q \in Requests \ {r} : s[q] = slot[q]
  PROVE  TransactionSound(r, Expired, s, sequence)
BY ExpiredFacts, RowFacts DEF TransactionSound

LEMMA UntouchedSound ==
  ASSUME Inv, NEW r \in Requests, NEW s \in [Requests -> {"none", "held", "released"}],
         \A q \in Requests \ {r} : s[q] = slot[q]
  PROVE  TransactionSound(r, rows, s, sequence)
BY DEF TransactionSound, Inv, TypeOK, Waiting

\* The row of r changes to x, which does not wait.
LEMMA LeftSound ==
  ASSUME Inv, NEW r \in Requests, NEW s \in [Requests -> {"none", "held", "released"}],
         \A q \in Requests \ {r} : s[q] = slot[q],
         NEW u, NEW n, TransactionSound(r, u, s, n), NEW x \in Ticket, x.state # "waiting"
  PROVE  TransactionSound(r, [u EXCEPT ![r] = x], s, n)
<1> DEFINE t == [u EXCEPT ![r] = x]
<1>1. t \in [Requests -> Ticket] /\ t[r] = x /\ \A q \in Requests \ {r} : t[q] = u[q]
  BY DEF TransactionSound
<1> HIDE DEF t
<1>2. Waiting(t) \subseteq Waiting(u) /\ \A q \in Waiting(t) : t[q] = u[q]
  BY <1>1 DEF Waiting
<1>3. LineSound(t, n)
  BY <1>2 DEF LineSound, TransactionSound
<1>4. Cardinality(Waiting(t)) <= MaxWaiting
  BY <1>2, WaitingSmall DEF TransactionSound
<1>5. TransactionSound(r, t, s, n)
  BY <1>1, <1>3, <1>4 DEF TransactionSound
<1> QED
  BY <1>5 DEF t

\* AbortAPIKeyQueueAttempt takes the request out of the line for good.
LEMMA AbortSound ==
  ASSUME Inv, NEW r \in Requests, NEW rem \in BOOLEAN, Commit(AbortAPIKeyQueueAttempt(r, rem))
  PROVE  /\ TransactionSound(r, rows', slot', sequence')
         /\ slot'[r] = IF rem THEN "released" ELSE slot[r]
         /\ rows'[r].state = IF rows[r].state = "acquired" /\ ~ rem THEN "acquired" ELSE "aborted"
<1> DEFINE x == Tombstone(Expired[r], r, rem)
<1>1. /\ rows' = [Expired EXCEPT ![r] = x] /\ sequence' = sequence
      /\ slot' = IF rem THEN [slot EXCEPT ![r] = "released"] ELSE slot
  BY DEF Commit, AbortAPIKeyQueueAttempt, Result
<1>2. Expired[r] \in Ticket /\ proc[r].deadline \in Nat
  BY ExpiredFacts, ProcFacts
<1>3. Expired[r].state = "acquired" <=> rows[r].state = "acquired"
  BY ExpiredFacts
<1>4. x \in Ticket /\ x.state = IF rows[r].state = "acquired" /\ ~ rem THEN "acquired" ELSE "aborted"
  <2>1. CASE Expired[r].state = "none"
    <3>1. x = [NoTicket EXCEPT !.state = "aborted", !.deadline = proc[r].deadline]
      BY <2>1 DEF Tombstone
    <3>2. NoTicket \in Ticket
      BY DEF Ticket, NoTicket
    <3>3. x \in Ticket /\ x.state = "aborted"
      BY <1>2, <3>1, <3>2 DEF Ticket
    <3> QED
      BY <1>3, <2>1, <3>3
  <2>2. CASE Expired[r].state # "none" /\ rows[r].state = "acquired" /\ ~ rem
    <3>1. x = [Expired[r] EXCEPT !.state = "acquired"]
      BY <1>3, <2>2 DEF Tombstone
    <3> QED
      BY <1>2, <2>2, <3>1 DEF Ticket
  <2>3. CASE Expired[r].state # "none" /\ ~ (rows[r].state = "acquired" /\ ~ rem)
    <3>1. x = [Expired[r] EXCEPT !.state = "aborted"]
      BY <1>3, <2>3 DEF Tombstone
    <3> QED
      BY <1>2, <2>3, <3>1 DEF Ticket
  <2> QED
    BY <2>1, <2>2, <2>3
<1> HIDE DEF x
<1>5. /\ slot' \in [Requests -> {"none", "held", "released"}] /\ \A q \in Requests \ {r} : slot'[q] = slot[q]
      /\ slot'[r] = IF rem THEN "released" ELSE slot[r]
  BY <1>1 DEF Inv, TypeOK
<1>6. TransactionSound(r, Expired, slot', sequence)
  BY <1>5, ExpiredSound
<1>7. TransactionSound(r, rows', slot', sequence')
  BY <1>1, <1>4, <1>5, <1>6, LeftSound
<1>8. rows'[r] = x
  BY <1>1, ExpiredFacts
<1> QED
  BY <1>4, <1>5, <1>7, <1>8

\* the slots after r got one
Holding(r) == [slot EXCEPT ![r] = "held"]

LEMMA HoldingFacts ==
  ASSUME Inv, NEW r \in Requests
  PROVE  /\ Holding(r) \in [Requests -> {"none", "held", "released"}] /\ Holding(r)[r] = "held"
         /\ \A q \in Requests \ {r} : Holding(r)[q] = slot[q]
         /\ slot \in [Requests -> {"none", "held", "released"}]
BY DEF Inv, TypeOK, Holding

\* A direct admission.
LEMMA DirectSound ==
  ASSUME Inv, NEW r \in Requests, NEW x, x = Serve(r, "first")
  PROVE  /\ TransactionSound(r, x.rows, x.slot, x.sequence)
         /\ \/ x.answer = "acquired" /\ slot[r] # "released" /\ x.slot[r] = "held"
            \/ x.answer = "busy" /\ x.slot[r] = slot[r]
         /\ rows[r].state # "waiting" => x.rows[r].state = rows[r].state
         /\ r \notin Queueless /\ x.answer = "acquired" => Waiting(Expired) = {}
<1>1. ASSUME NEW t \in {rows, Expired}, NEW s \in {slot, Holding(r)}, NEW a,
             x = [rows |-> t, slot |-> s, sequence |-> sequence, answer |-> a],
             \/ a = "acquired" /\ slot[r] # "released" /\ s = Holding(r)
             \/ a = "busy" /\ s = slot
      PROVE  /\ TransactionSound(r, x.rows, x.slot, x.sequence)
             /\ \/ x.answer = "acquired" /\ slot[r] # "released" /\ x.slot[r] = "held"
                \/ x.answer = "busy" /\ x.slot[r] = slot[r]
             /\ rows[r].state # "waiting" => x.rows[r].state = rows[r].state
  <2>1. x.rows = t /\ x.slot = s /\ x.sequence = sequence /\ x.answer = a
    BY <1>1
  <2>2. TransactionSound(r, t, s, sequence)
    BY HoldingFacts, ExpiredSound, UntouchedSound
  <2>3. rows[r].state # "waiting" => t[r].state = rows[r].state
    BY ExpiredFacts
  <2> QED
    BY <1>1, <2>1, <2>2, <2>3, HoldingFacts
<1>2. CASE r \in Queueless
  <2>1. x = AcquireAPIKeySlot(r)
    BY <1>2 DEF Serve
  <2>2. CASE Obtains(r)
    BY <1>1, <1>2, <2>1, <2>2 DEF AcquireAPIKeySlot, Result, Holding, Obtains
  <2>3. CASE ~ Obtains(r)
    BY <1>1, <1>2, <2>1, <2>3 DEF AcquireAPIKeySlot, Result
  <2> QED
    BY <2>2, <2>3
<1>3. CASE r \notin Queueless
  <2>1. x = AcquireAPIKeySlotWithTime(r)
    BY <1>3 DEF Serve
  <2>2. CASE Waiting(Expired) = {} /\ Obtains(r)
    BY <1>1, <1>3, <2>1, <2>2 DEF AcquireAPIKeySlotWithTime, Result, Holding, Obtains
  <2>3. CASE ~ (Waiting(Expired) = {} /\ Obtains(r))
    <3>1. x = [rows |-> Expired, slot |-> slot, sequence |-> sequence, answer |-> "busy"]
      BY <2>1, <2>3 DEF AcquireAPIKeySlotWithTime, Result
    <3>2. x.answer # "acquired"
      BY <3>1
    <3> QED
      BY <1>1, <3>1, <3>2
  <2> QED
    BY <2>2, <2>3
<1> QED
  BY <1>2, <1>3

\* what one step in the queue may answer and leave for r
QueueAnswer(r, x) ==
  \/ /\ x.answer = "acquired" /\ x.rows[r].state = "acquired"
     /\ x.slot[r] = slot[r] /\ rows[r].state = "acquired"
  \/ /\ x.answer = "acquired" /\ x.rows[r].state = "acquired"
     /\ x.slot[r] = "held" /\ slot[r] # "released"
  \/ /\ x.answer \in {"waiting", "timeout", "aborted", "ticket_lost", "policy_changed", "queue_full"}
     /\ x.slot[r] = slot[r]
     /\ \/ x.rows[r].state = rows[r].state
        \/ rows[r].state \in {"none", "waiting"} /\ x.rows[r].state \in {"waiting", "timeout"}

\* who is admitted from the line is the first of those who wait
AdmittedFirst(r, x) ==
  slot[r] # "held" /\ x.slot[r] = "held" =>
    \A q \in Waiting(Expired) \ {r} : r \in Waiting(Expired) /\ rows[r].seq < rows[q].seq

\* r waits in t, and is served when it is the first.
LEMMA ServedSound ==
  ASSUME Inv, NEW r \in Requests, NEW t, NEW n, TransactionSound(r, t, slot, n),
         t[r].state = "waiting", rows[r].state \in {"none", "waiting"},
         IsFirst(t, r) => \A q \in Waiting(Expired) \ {r} : r \in Waiting(Expired) /\ rows[r].seq < rows[q].seq,
         NEW x, x = Served(t, r, n)
  PROVE  /\ TransactionSound(r, x.rows, x.slot, x.sequence)
         /\ QueueAnswer(r, x) /\ AdmittedFirst(r, x)
<1>1. CASE IsFirst(t, r) /\ Obtains(r)
  <2> DEFINE y == [t[r] EXCEPT !.state = "acquired"]
  <2>1. x = [rows |-> [t EXCEPT ![r] = y], slot |-> Holding(r), sequence |-> n, answer |-> "acquired"]
    <3>1. x = Result([t EXCEPT ![r].state = "acquired"], Holding(r), n, "acquired")
      BY <1>1 DEF Served, Holding
    <3>2. [t EXCEPT ![r].state = "acquired"] = [t EXCEPT ![r] = y]
      OBVIOUS
    <3> HIDE DEF y
    <3> QED
      BY <3>1, <3>2 DEF Result
  <2>2. y \in Ticket /\ y.state = "acquired" /\ t \in [Requests -> Ticket]
    BY DEF TransactionSound, Ticket
  <2> HIDE DEF y
  <2>3. x.rows = [t EXCEPT ![r] = y] /\ x.slot = Holding(r) /\ x.sequence = n /\ x.answer = "acquired"
    BY <2>1
  <2>4. x.rows[r] = y /\ x.slot[r] = "held" /\ slot[r] # "released"
    BY <1>1, <2>2, <2>3, HoldingFacts DEF Obtains
  <2>5. TransactionSound(r, t, Holding(r), n)
    BY HoldingFacts DEF TransactionSound
  <2>6. TransactionSound(r, x.rows, x.slot, x.sequence)
    <3>1. Holding(r) \in [Requests -> {"none", "held", "released"}] /\ \A q \in Requests \ {r} : Holding(r)[q] = slot[q]
      BY HoldingFacts
    <3>2. y.state # "waiting"
      BY <2>2
    <3>3. TransactionSound(r, [t EXCEPT ![r] = y], Holding(r), n)
      BY <2>2, <2>5, <3>1, <3>2, LeftSound
    <3> QED
      BY <2>3, <3>3
  <2> QED
    BY <1>1, <2>2, <2>3, <2>4, <2>6 DEF QueueAnswer, AdmittedFirst
<1>2. CASE ~ (IsFirst(t, r) /\ Obtains(r))
  <2>1. x = [rows |-> t, slot |-> slot, sequence |-> n, answer |-> "waiting"]
    BY <1>2 DEF Served, Result
  <2>2. x.rows = t /\ x.slot = slot /\ x.sequence = n /\ x.answer = "waiting"
    BY <2>1
  <2> QED
    BY <2>2 DEF QueueAnswer, AdmittedFirst
<1> QED
  BY <1>1, <1>2

LEMMA EnteredSound ==
  ASSUME Inv, NEW r \in Requests, Expired[r].state = "none", ~ Full(Expired)
  PROVE  /\ TransactionSound(r, Entered(Expired, r), slot, sequence + 1)
         /\ Entered(Expired, r)[r].state = "waiting"
         /\ IsFirst(Entered(Expired, r), r) => Waiting(Expired) = {}
<1> DEFINE y == [state |-> "waiting", deadline |-> proc[r].deadline, limit |-> proc[r].limit,
                 seq |-> sequence + 1]
           t == Entered(Expired, r)
<1>1. y \in Ticket /\ y.state = "waiting" /\ y.seq = sequence + 1
  BY ProcFacts, RowFacts DEF Ticket
<1>2. t = [Expired EXCEPT ![r] = y]
  BY DEF Entered
<1> HIDE DEF y, t
<1>3. /\ t \in [Requests -> Ticket] /\ t[r] = y
      /\ \A q \in Requests \ {r} : t[q] = Expired[q]
  BY <1>1, <1>2, ExpiredFacts
<1>4. /\ Waiting(t) = Waiting(Expired) \cup {r} /\ r \notin Waiting(Expired)
      /\ \A q \in Waiting(Expired) : t[q] = Expired[q]
  BY <1>1, <1>3 DEF Waiting
<1>5. sequence \in Nat /\ \A q \in Waiting(Expired) : Expired[q].seq \in Nat /\ Expired[q].seq <= sequence
  BY ExpiredFacts, RowFacts DEF LineSound, Waiting, Ticket
<1>6. LineSound(t, sequence + 1)
  <2>1. \A q \in Waiting(t) : t[q].seq <= sequence + 1
    BY <1>1, <1>3, <1>4, <1>5
  <2>2. \A p, q \in Waiting(t) : t[p].seq = t[q].seq => p = q
    <3>1. LineSound(Expired, sequence)
      BY ExpiredFacts
    <3> QED
      BY <1>1, <1>3, <1>4, <1>5, <3>1 DEF LineSound
  <2> QED
    BY <2>1, <2>2 DEF LineSound
<1>7. Cardinality(Waiting(t)) <= MaxWaiting
  <2>1. IsFiniteSet(Waiting(Expired))
    BY QueueAssumption, FS_Subset DEF Waiting
  <2>2. Cardinality(Waiting(t)) = Cardinality(Waiting(Expired)) + 1 /\ Cardinality(Waiting(Expired)) \in Nat
    BY <1>4, <2>1, FS_AddElement, FS_CardinalityType
  <2>3. ~ (Cardinality(Waiting(Expired)) >= MaxWaiting) /\ MaxWaiting \in Nat
    BY QueueAssumption DEF Full
  <2> QED
    BY <2>2, <2>3
<1>8. TransactionSound(r, t, slot, sequence + 1)
  <2>1. sequence + 1 \in Nat
    BY <1>5
  <2>2. \A q \in Requests \ {r} :
          t[q].state = rows[q].state \/ (rows[q].state = "waiting" /\ t[q].state = "timeout")
    BY <1>3, ExpiredFacts
  <2> QED
    BY <1>3, <1>6, <1>7, <2>1, <2>2, HoldingFacts DEF TransactionSound
<1>9. IsFirst(t, r) => Waiting(Expired) = {}
  <2> SUFFICES ASSUME IsFirst(t, r), NEW q \in Waiting(Expired) PROVE FALSE
    OBVIOUS
  <2>1. t[r].seq = sequence + 1 /\ t[q].seq = Expired[q].seq /\ t[r].seq <= t[q].seq
    BY <1>1, <1>3, <1>4 DEF IsFirst
  <2> QED
    BY <1>5, <2>1
<1> QED
  BY <1>1, <1>3, <1>8, <1>9 DEF t

LEMMA AdvanceSound ==
  ASSUME Inv, NEW r \in Requests, NEW x, x = AdvanceAPIKeyQueue(r)
  PROVE  /\ TransactionSound(r, x.rows, x.slot, x.sequence)
         /\ QueueAnswer(r, x) /\ AdmittedFirst(r, x)
<1>1. ASSUME NEW a, x = Result(Expired, slot, sequence, a),
             \/ a \in {"timeout", "aborted", "ticket_lost", "policy_changed", "queue_full"}
             \/ a = Expired[r].state /\ a \in {"timeout", "acquired"}
      PROVE  /\ TransactionSound(r, x.rows, x.slot, x.sequence)
             /\ QueueAnswer(r, x) /\ AdmittedFirst(r, x)
  <2>1. x.rows = Expired /\ x.slot = slot /\ x.sequence = sequence /\ x.answer = a
    BY <1>1 DEF Result
  <2>2. TransactionSound(r, x.rows, x.slot, x.sequence)
    BY <2>1, ExpiredSound, HoldingFacts
  <2> QED
    BY <1>1, <2>1, <2>2, ExpiredFacts, RowFacts DEF QueueAnswer, AdmittedFirst
<1>2. CASE Expired[r].state = "waiting" /\ x = Served(Expired, r, sequence)
  <2>1. rows[r].state = "waiting" /\ r \in Waiting(Expired)
    BY <1>2, ExpiredFacts DEF Waiting
  <2>2. TransactionSound(r, Expired, slot, sequence)
    BY ExpiredSound, HoldingFacts
  <2>3. ASSUME IsFirst(Expired, r), NEW q \in Waiting(Expired) \ {r}
        PROVE  rows[r].seq < rows[q].seq
    <3>1. q \in Requests /\ Expired[r].seq <= Expired[q].seq /\ Expired[r].seq # Expired[q].seq
      BY <2>1, <2>3, ExpiredFacts DEF IsFirst, LineSound, Waiting
    <3>2. rows[r].seq <= rows[q].seq /\ rows[r].seq # rows[q].seq
      BY <3>1, ExpiredFacts
    <3> QED
      BY <3>1, <3>2, RowFacts
  <2> QED
    BY <1>2, <2>1, <2>2, <2>3, ServedSound
<1>3. CASE /\ Expired[r].state = "none" /\ ~ Full(Expired)
           /\ x = Served(Entered(Expired, r), r, sequence + 1)
  <2>1. rows[r].state = "none"
    BY <1>3, ExpiredFacts
  <2> QED
    BY <1>3, <2>1, EnteredSound, ServedSound
<1>4. Expired[r].state \in {"none", "waiting", "timeout", "acquired", "aborted"}
  BY ExpiredFacts DEF Ticket
<1>5. \/ \E a \in {"timeout", "aborted", "ticket_lost", "policy_changed", "queue_full"} :
           x = Result(Expired, slot, sequence, a)
      \/ x = Result(Expired, slot, sequence, Expired[r].state) /\ Expired[r].state \in {"timeout", "acquired"}
      \/ Expired[r].state = "waiting" /\ x = Served(Expired, r, sequence)
      \/ /\ Expired[r].state = "none" /\ ~ Full(Expired)
         /\ x = Served(Entered(Expired, r), r, sequence + 1)
  BY <1>4 DEF AdvanceAPIKeyQueue
<1> QED
  BY <1>1, <1>2, <1>3, <1>5

-----------------------------------------------------------------------------
(* Steps of one request. *)

LEMMA Ages ==
  ASSUME NEW p, NEW s, NEW l, SoundAt(p, s, "waiting", l)
  PROVE  SoundAt(p, s, "timeout", l)
BY DEF SoundAt

LEMMA RequestMoves ==
  ASSUME Inv, NEW r \in Requests, NEW y \in Process, proc' = [proc EXCEPT ![r] = y],
         NEW l \in {"none", "first", "advance"}, late' = [late EXCEPT ![r] = l],
         UNCHANGED siteVars, TransactionSound(r, rows', slot', sequence'),
         SoundAt(y, slot'[r], rows'[r].state, l)
  PROVE  Inv'
<1>1. /\ proc' \in [Requests -> Process] /\ proc'[r] = y
      /\ \A q \in Requests \ {r} : proc'[q] = proc[q] /\ late'[q] = late[q]
      /\ late' \in [Requests -> {"none", "first", "advance"}] /\ late'[r] = l
  BY DEF Inv, TypeOK
<1>2. TypeOK'
  BY <1>1 DEF Inv, TypeOK, TransactionSound, siteVars, Waiting
<1>3. LineSound(rows, sequence)'
  BY DEF TransactionSound, LineSound, Waiting
<1>4. ASSUME NEW q \in Requests
      PROVE  SoundAt(proc'[q], slot'[q], rows'[q].state, late'[q])
  <2>1. CASE q = r
    BY <1>1, <2>1
  <2>2. CASE q # r
    <3>1. SoundAt(proc[q], slot[q], rows[q].state, late[q])
      BY DEF Inv, Sound
    <3>2. /\ slot'[q] = slot[q] /\ proc'[q] = proc[q] /\ late'[q] = late[q]
          /\ \/ rows'[q].state = rows[q].state
             \/ rows[q].state = "waiting" /\ rows'[q].state = "timeout"
      BY <1>1, <2>2 DEF TransactionSound
    <3> QED
      BY <3>1, <3>2, Ages
  <2> QED
    BY <2>1, <2>2
<1>5. Sound'
  BY <1>4 DEF Sound
<1> QED
  BY <1>2, <1>3, <1>5 DEF Inv

LEMMA LateSame ==
  ASSUME Inv, NEW r \in Requests, UNCHANGED late
  PROVE  late' = [late EXCEPT ![r] = late[r]] /\ late[r] \in {"none", "first", "advance"}
BY DEF Inv, TypeOK

\* A step that concerns nothing but the goroutine of r.
LEMMA ProcMoves ==
  ASSUME Inv, NEW r \in Requests, NEW y \in Process, proc' = [proc EXCEPT ![r] = y],
         UNCHANGED <<siteVars, rows, sequence, slot, late>>,
         SoundAt(y, slot[r], rows[r].state, late[r])
  PROVE  Inv'
<1>1. TransactionSound(r, rows', slot', sequence')
  BY UntouchedSound, HoldingFacts
<1> QED
  BY <1>1, LateSame, RequestMoves

LEMMA SoundHere ==
  ASSUME Inv, NEW r \in Requests
  PROVE  SoundAt(proc[r], slot[r], rows[r].state, late[r])
BY DEF Inv, Sound

LEMMA Names ==
  /\ {"idle", "first", "loop", "advance", "confirmed", "switch", "release", "fence", "forward",
      "tracked", "done", "crashed"} \subseteq Stage
  /\ {"none", "busy", "acquired"} \subseteq Answer
BY DEF Stage, Answer

LEMMA BeginStep ==
  ASSUME Inv, NEW r \in Requests, Begin(r)
  PROVE  Inv'
<1> DEFINE st == IF cached = 0 THEN "tracked" ELSE "first"
           y == [proc[r] EXCEPT !.stage = st, !.limit = cached]
<1>1. proc' = [proc EXCEPT ![r] = y] /\ UNCHANGED <<siteVars, rows, sequence, slot, late>> /\ proc[r].stage = "idle"
  BY DEF Begin, At
<1>2. cached \in Nat /\ st \in {"tracked", "first"}
  BY QueueAssumption DEF Inv, TypeOK
<1> HIDE DEF st
<1>3. /\ y \in Process /\ y.stage = st /\ y.answer = proc[r].answer /\ y.next = proc[r].next
      /\ y.fenced = proc[r].fenced /\ y.remove = proc[r].remove
  <2>1. proc[r] \in Process /\ st \in Stage
    BY <1>2, ProcFacts DEF Stage
  <2> QED
    BY <1>2, <2>1 DEF Process
<1> HIDE DEF y
<1>4. SoundAt(y, slot[r], rows[r].state, late[r])
  BY <1>1, <1>2, <1>3, SoundHere DEF SoundAt
<1> QED
  BY <1>1, <1>3, <1>4, ProcMoves

LEMMA FirstStep ==
  ASSUME Inv, NEW r \in Requests, FirstAcquired(r) \/ FirstBusy(r)
  PROVE  Inv'
<1>0. UNCHANGED <<siteVars, rows, sequence, slot, late>> /\ proc[r].stage = "first"
  BY DEF FirstAcquired, FirstBusy, At
<1>1. ASSUME NEW st \in {"confirmed", "done", "fence"},
             proc' = [proc EXCEPT ![r].stage = st, ![r].answer = "none"],
             st = "confirmed" <=> proc[r].answer = "acquired",
             proc[r].answer \in {"acquired", "busy"}
      PROVE  Inv'
  <2> DEFINE y == [proc[r] EXCEPT !.stage = st, !.answer = "none"]
  <2>1. proc' = [proc EXCEPT ![r] = y]
    BY <1>1
  <2>2. /\ y \in Process /\ y.stage = st /\ y.answer = "none" /\ y.next = proc[r].next
        /\ y.fenced = proc[r].fenced /\ y.remove = proc[r].remove
    <3>1. st \in Stage /\ "none" \in Answer /\ proc[r] \in Process
      BY Names, ProcFacts
    <3> QED
      BY <3>1 DEF Process
  <2> HIDE DEF y
  <2>3. SoundAt(y, slot[r], rows[r].state, late[r])
    BY <1>0, <1>1, <2>2, SoundHere DEF SoundAt
  <2> QED
    BY <1>0, <2>1, <2>2, <2>3, ProcMoves
<1>2. ASSUME NEW d \in 1 .. Timeout, proc[r].answer = "busy",
             proc' = [proc EXCEPT ![r].stage = "loop", ![r].answer = "none",
                                  ![r].deadline = clock + d, ![r].fenced = TRUE]
      PROVE  Inv'
  <2> DEFINE y == [proc[r] EXCEPT !.stage = "loop", !.answer = "none", !.deadline = clock + d, !.fenced = TRUE]
  <2>1. proc' = [proc EXCEPT ![r] = y]
    BY <1>2
  <2>2. clock + d \in Nat
    BY RowFacts, QueueAssumption
  <2>3. /\ y \in Process /\ y.stage = "loop" /\ y.answer = "none" /\ y.next = proc[r].next
        /\ y.fenced = TRUE /\ y.remove = proc[r].remove
    <3>1. "loop" \in Stage /\ "none" \in Answer /\ proc[r] \in Process
      BY Names, ProcFacts
    <3> QED
      BY <2>2, <3>1 DEF Process
  <2> HIDE DEF y
  <2>4. SoundAt(y, slot[r], rows[r].state, late[r])
    BY <1>0, <1>2, <2>3, SoundHere DEF SoundAt
  <2> QED
    BY <1>0, <2>1, <2>3, <2>4, ProcMoves
<1>3. CASE FirstAcquired(r)
  BY <1>1, <1>3 DEF FirstAcquired
<1>4. CASE FirstBusy(r)
  BY <1>1, <1>2, <1>4 DEF FirstBusy
<1> QED
  BY <1>3, <1>4

\* The goroutine goes from one stage to the next and remembers at most a limit.
LEMMA StageMoves ==
  ASSUME Inv, NEW r \in Requests, UNCHANGED <<siteVars, rows, sequence, slot, late>>,
         NEW st \in Stage, NEW n \in Nat, proc' = [proc EXCEPT ![r].stage = st, ![r].limit = n],
         \/ proc[r].stage = "loop" /\ st \in {"switch", "advance", "fence"}
         \/ proc[r].stage = "idle" /\ st = "done"
         \/ proc[r].stage = "switch" /\ st = "fence"
  PROVE  Inv'
<1> DEFINE y == [proc[r] EXCEPT !.stage = st, !.limit = n]
<1>1. proc' = [proc EXCEPT ![r] = y]
  OBVIOUS
<1>2. /\ y \in Process /\ y.stage = st /\ y.answer = proc[r].answer /\ y.next = proc[r].next
      /\ y.fenced = proc[r].fenced /\ y.remove = proc[r].remove
  BY ProcFacts DEF Process
<1> HIDE DEF y
<1>3. SoundAt(y, slot[r], rows[r].state, late[r])
  BY <1>2, SoundHere DEF SoundAt
<1> QED
  BY <1>1, <1>2, <1>3, ProcMoves

LEMMA LoopStep ==
  ASSUME Inv, NEW r \in Requests, Revalidate(r) \/ LocalTimeout(r) \/ Leave(r) \/ SwitchFails(r)
  PROVE  Inv'
<1>0. UNCHANGED <<siteVars, rows, sequence, slot, late>> /\ cached \in Nat /\ proc[r].limit \in Nat
  BY ProcFacts, QueueAssumption DEF Revalidate, LocalTimeout, Leave, SwitchFails, Inv, TypeOK
<1>1. ASSUME NEW st, proc' = [proc EXCEPT ![r].stage = st]
      PROVE  proc' = [proc EXCEPT ![r].stage = st, ![r].limit = proc[r].limit]
  BY <1>1, ProcFacts DEF Inv, TypeOK, Process
<1>2. CASE Revalidate(r)
  <2>1. CASE cached = 0
    BY <1>0, <1>2, <2>1, StageMoves DEF Revalidate, At, Stage
  <2>2. CASE cached # 0
    BY <1>0, <1>2, <2>2, StageMoves DEF Revalidate, At, Stage
  <2> QED
    BY <2>1, <2>2
<1>3. CASE LocalTimeout(r)
  <2>1. proc[r].stage = "loop" /\ proc' = [proc EXCEPT ![r].stage = "fence", ![r].limit = proc[r].limit]
    BY <1>1, <1>3 DEF LocalTimeout, At
  <2> QED
    BY <1>0, <2>1, StageMoves DEF Stage
<1>4. CASE Leave(r)
  <2> DEFINE st == IF proc[r].stage = "idle" THEN "done" ELSE "fence"
  <2>1. proc[r].stage \in {"idle", "loop"} /\ proc' = [proc EXCEPT ![r].stage = st]
    BY <1>4 DEF Leave
  <2>2. \/ proc[r].stage = "loop" /\ st = "fence"
        \/ proc[r].stage = "idle" /\ st = "done"
    BY <2>1
  <2> HIDE DEF st
  <2>3. proc' = [proc EXCEPT ![r].stage = st, ![r].limit = proc[r].limit]
    BY <1>1, <2>1
  <2> QED
    BY <1>0, <2>2, <2>3, StageMoves DEF Stage
<1>5. CASE SwitchFails(r)
  <2>1. proc[r].stage = "switch" /\ proc' = [proc EXCEPT ![r].stage = "fence", ![r].limit = proc[r].limit]
    BY <1>1, <1>5 DEF SwitchFails, At
  <2> QED
    BY <1>0, <2>1, StageMoves DEF Stage
<1> QED
  BY <1>2, <1>3, <1>4, <1>5

LEMMA HandleStep ==
  ASSUME Inv, NEW r \in Requests, HandleAnswer(r)
  PROVE  Inv'
<1>0. /\ UNCHANGED <<siteVars, rows, sequence, slot, late>> /\ proc[r].stage = "advance"
      /\ cached \in Nat /\ proc[r].limit \in Nat /\ proc[r] \in Process /\ "none" \in Answer
  BY ProcFacts, QueueAssumption, Names DEF HandleAnswer, At, Inv, TypeOK
<1>1. CASE Confirmed(r)
  <2> DEFINE y == [proc[r] EXCEPT !.stage = "confirmed", !.answer = "none", !.remove = FALSE]
  <2>1. proc' = [proc EXCEPT ![r] = y] /\ proc[r].answer = "acquired"
    BY <1>1 DEF Confirmed
  <2>2. /\ y \in Process /\ y.stage = "confirmed" /\ y.answer = "none" /\ y.next = proc[r].next
        /\ y.fenced = proc[r].fenced /\ y.remove = FALSE
    BY <1>0, Names DEF Process
  <2> HIDE DEF y
  <2>3. SoundAt(y, slot[r], rows[r].state, late[r])
    BY <1>0, <2>1, <2>2, SoundHere DEF SoundAt
  <2> QED
    BY <1>0, <2>1, <2>2, <2>3, ProcMoves
<1>2. CASE proc[r].answer = "waiting" /\ proc' = [proc EXCEPT ![r].stage = "loop", ![r].answer = "none", ![r].mode = "poll"]
  <2> DEFINE y == [proc[r] EXCEPT !.stage = "loop", !.answer = "none", !.mode = "poll"]
  <2>1. proc' = [proc EXCEPT ![r] = y] /\ proc[r].answer = "waiting"
    BY <1>2
  <2>2. /\ y \in Process /\ y.stage = "loop" /\ y.answer = "none" /\ y.next = proc[r].next
        /\ y.fenced = proc[r].fenced /\ y.remove = proc[r].remove
    BY <1>0, Names DEF Process
  <2> HIDE DEF y
  <2>3. SoundAt(y, slot[r], rows[r].state, late[r])
    BY <1>0, <2>1, <2>2, SoundHere DEF SoundAt
  <2> QED
    BY <1>0, <2>1, <2>2, <2>3, ProcMoves
<1>3. CASE /\ proc[r].answer = "policy_changed"
           /\ proc' = [proc EXCEPT ![r].stage = IF cached = 0 THEN "switch" ELSE "loop",
                                   ![r].answer = "none", ![r].limit = IF cached = 0 THEN @ ELSE cached]
  <2> DEFINE st == IF cached = 0 THEN "switch" ELSE "loop"
             n == IF cached = 0 THEN proc[r].limit ELSE cached
             y == [proc[r] EXCEPT !.stage = st, !.answer = "none", !.limit = n]
  <2>1. proc' = [proc EXCEPT ![r].stage = st, ![r].answer = "none", ![r].limit = n]
    <3>1. CASE cached = 0
      BY <1>3, <3>1
    <3>2. CASE cached # 0
      BY <1>3, <3>2
    <3> QED
      BY <3>1, <3>2
  <2>2. st \in {"switch", "loop"} /\ n \in Nat
    BY <1>0
  <2> HIDE DEF st, n
  <2>3. proc' = [proc EXCEPT ![r] = y]
    BY <2>1
  <2>4. /\ y \in Process /\ y.stage = st /\ y.answer = "none" /\ y.next = proc[r].next
        /\ y.fenced = proc[r].fenced /\ y.remove = proc[r].remove
    <3>1. st \in Stage
      BY <2>2, Names
    <3> QED
      BY <1>0, <2>2, <3>1 DEF Process
  <2> HIDE DEF y
  <2>5. SoundAt(y, slot[r], rows[r].state, late[r])
    BY <1>0, <1>3, <2>2, <2>4, SoundHere DEF SoundAt
  <2> QED
    BY <1>0, <2>3, <2>4, <2>5, ProcMoves
<1>4. CASE Refused(r)
  <2> DEFINE y == [proc[r] EXCEPT !.stage = "fence", !.answer = "none"]
  <2>1. /\ proc' = [proc EXCEPT ![r] = y]
        /\ proc[r].answer \in {"timeout", "aborted", "ticket_lost", "queue_full"}
    BY <1>4 DEF Refused
  <2>2. /\ y \in Process /\ y.stage = "fence" /\ y.answer = "none" /\ y.next = proc[r].next
        /\ y.fenced = proc[r].fenced /\ y.remove = proc[r].remove
    BY <1>0, Names DEF Process
  <2> HIDE DEF y
  <2>3. SoundAt(y, slot[r], rows[r].state, late[r])
    BY <1>0, <2>1, <2>2, SoundHere DEF SoundAt
  <2> QED
    BY <1>0, <2>1, <2>2, <2>3, ProcMoves
<1> QED
  BY <1>1, <1>2, <1>3, <1>4 DEF HandleAnswer, Again

\* The reservation is handed over, declined or finished.
LEMMA HandOverStep ==
  ASSUME Inv, NEW r \in Requests, Adopt(r) \/ Decline(r) \/ Finish(r)
  PROVE  Inv'
<1>0. UNCHANGED <<siteVars, rows, sequence, slot, late>> /\ proc[r] \in Process
  BY ProcFacts DEF Adopt, Decline, Finish
<1>1. ASSUME NEW st \in {"fence", "forward", "release"}, NEW nx \in {"forward", "done", "tracked"},
             proc' = [proc EXCEPT ![r].stage = st, ![r].next = nx],
             \/ /\ proc[r].stage = "confirmed" /\ nx = "forward"
                /\ st = IF proc[r].fenced THEN "fence" ELSE "forward"
             \/ /\ proc[r].stage = "confirmed" /\ st = "release" /\ nx # "forward"
                /\ nx = "tracked" => proc[r].fenced
             \/ proc[r].stage = "forward" /\ st = "release" /\ nx = "done"
      PROVE  Inv'
  <2> DEFINE y == [proc[r] EXCEPT !.stage = st, !.next = nx]
  <2>1. proc' = [proc EXCEPT ![r] = y]
    BY <1>1
  <2>2. /\ y \in Process /\ y.stage = st /\ y.answer = proc[r].answer /\ y.next = nx
        /\ y.fenced = proc[r].fenced /\ y.remove = proc[r].remove
    <3>1. st \in Stage
      BY Names
    <3> QED
      BY <1>0, <3>1 DEF Process
  <2> HIDE DEF y
  <2>3. SoundAt(y, slot[r], rows[r].state, late[r])
    BY <1>1, <2>2, SoundHere DEF SoundAt
  <2> QED
    BY <1>0, <2>1, <2>2, <2>3, ProcMoves
<1>2. CASE Adopt(r)
  <2>1. CASE proc[r].fenced
    BY <1>1, <1>2, <2>1 DEF Adopt, At
  <2>2. CASE ~ proc[r].fenced
    BY <1>1, <1>2, <2>2 DEF Adopt, At
  <2> QED
    BY <2>1, <2>2
<1>3. CASE Decline(r)
  BY <1>1, <1>3 DEF Decline, At
<1>4. CASE Finish(r)
  BY <1>1, <1>4 DEF Finish, At
<1> QED
  BY <1>2, <1>3, <1>4

LEMMA CallFailsStep ==
  ASSUME Inv, NEW r \in Requests, CallFails(r)
  PROVE  Inv'
<1> DEFINE st == IF proc[r].stage = "first" THEN "release" ELSE "fence"
           l == IF proc[r].answer = "none" THEN proc[r].stage ELSE late[r]
           y == [proc[r] EXCEPT !.answer = "none", !.stage = st]
<1>1. /\ UNCHANGED <<siteVars, rows, sequence, slot>> /\ proc[r].stage \in {"first", "advance"}
      /\ proc' = [proc EXCEPT ![r].answer = "none", ![r].stage = st]
  BY DEF CallFails, At
<1>2. l \in {"none", "first", "advance"} /\ late' = [late EXCEPT ![r] = l]
  <2>1. CASE proc[r].answer = "none"
    BY <1>1, <2>1 DEF CallFails
  <2>2. CASE proc[r].answer # "none"
    BY <2>2, ProcFacts DEF CallFails, Inv, TypeOK
  <2> QED
    BY <2>1, <2>2
<1>3. \/ proc[r].stage = "first" /\ st = "release" /\ l \in {late[r], "first"}
      \/ proc[r].stage = "advance" /\ st = "fence" /\ l \in {late[r], "advance"}
  BY <1>1
<1> HIDE DEF st, l
<1>4. proc' = [proc EXCEPT ![r] = y]
  BY <1>1
<1>5. /\ y \in Process /\ y.stage = st /\ y.answer = "none" /\ y.next = proc[r].next
      /\ y.fenced = proc[r].fenced /\ y.remove = proc[r].remove
  <2>1. st \in Stage /\ "none" \in Answer /\ proc[r] \in Process
    BY <1>3, Names, ProcFacts
  <2> QED
    BY <2>1 DEF Process
<1> HIDE DEF y
<1>6. SoundAt(y, slot[r], rows[r].state, l)
  BY <1>3, <1>5, SoundHere DEF SoundAt
<1>7. TransactionSound(r, rows', slot', sequence')
  BY <1>1, UntouchedSound, HoldingFacts
<1> QED
  BY <1>1, <1>2, <1>4, <1>5, <1>6, <1>7, RequestMoves

LEMMA CrashStep ==
  ASSUME Inv, NEW r \in Requests, Crash(r)
  PROVE  Inv'
<1> DEFINE l == IF proc[r].stage \in {"first", "advance"} /\ proc[r].answer = "none" THEN proc[r].stage ELSE late[r]
           y == [proc[r] EXCEPT !.stage = "crashed"]
<1>1. UNCHANGED <<siteVars, rows, sequence, slot>> /\ proc' = [proc EXCEPT ![r] = y]
  BY DEF Crash
<1>2. l \in {"none", "first", "advance"} /\ late' = [late EXCEPT ![r] = l]
  <2>1. CASE proc[r].stage \in {"first", "advance"} /\ proc[r].answer = "none"
    BY <2>1 DEF Crash
  <2>2. CASE ~ (proc[r].stage \in {"first", "advance"} /\ proc[r].answer = "none")
    BY <2>2, ProcFacts DEF Crash, Inv, TypeOK
  <2> QED
    BY <2>1, <2>2
<1>3. y \in Process /\ y.stage = "crashed"
  BY Names, ProcFacts DEF Process
<1> HIDE DEF l, y
<1>4. SoundAt(y, slot[r], rows[r].state, l)
  BY <1>3 DEF SoundAt
<1>5. TransactionSound(r, rows', slot', sequence')
  BY <1>1, UntouchedSound, HoldingFacts
<1> QED
  BY <1>1, <1>2, <1>3, <1>4, <1>5, RequestMoves

LEMMA ServeCallStep ==
  ASSUME Inv, NEW r \in Requests, ServeCall(r)
  PROVE  Inv'
<1> DEFINE x == Serve(r, proc[r].stage)
           y == [proc[r] EXCEPT !.answer = x.answer]
<1>1. /\ proc[r].stage \in {"first", "advance"} /\ proc[r].answer = "none"
      /\ rows' = x.rows /\ slot' = x.slot /\ sequence' = x.sequence
      /\ UNCHANGED <<siteVars, late>>
  BY DEF ServeCall, Commit
<1>2. proc' = [proc EXCEPT ![r] = y]
  BY DEF ServeCall
<1> HIDE DEF x
<1>3. ASSUME x.answer \in Answer
      PROVE  /\ y \in Process /\ y.stage = proc[r].stage /\ y.answer = x.answer /\ y.next = proc[r].next
             /\ y.fenced = proc[r].fenced /\ y.remove = proc[r].remove
  BY <1>3, ProcFacts DEF Process
<1> HIDE DEF y
<1>4. /\ x.answer \in Answer /\ TransactionSound(r, x.rows, x.slot, x.sequence)
      /\ x.answer \in Answer => SoundAt(y, x.slot[r], x.rows[r].state, late[r])
  <2>1. CASE proc[r].stage = "first"
    <3>1. x = Serve(r, "first")
      BY <2>1 DEF x
    <3>2. /\ TransactionSound(r, x.rows, x.slot, x.sequence)
          /\ \/ x.answer = "acquired" /\ slot[r] # "released" /\ x.slot[r] = "held"
             \/ x.answer = "busy" /\ x.slot[r] = slot[r]
          /\ rows[r].state # "waiting" => x.rows[r].state = rows[r].state
      BY <3>1, DirectSound
    <3>3. x.answer \in Answer
      BY <3>2, Names
    <3>4. SoundAt(y, x.slot[r], x.rows[r].state, late[r])
      BY <1>1, <1>3, <2>1, <3>2, <3>3, SoundHere DEF SoundAt
    <3> QED
      BY <3>2, <3>3, <3>4
  <2>2. CASE proc[r].stage = "advance"
    <3>1. x = AdvanceAPIKeyQueue(r)
      BY <2>2 DEF x, Serve
    <3>2. TransactionSound(r, x.rows, x.slot, x.sequence) /\ QueueAnswer(r, x)
      BY <3>1, AdvanceSound
    <3>3. x.answer \in Answer
      BY <3>2 DEF QueueAnswer, Answer
    <3>4. slot[r] = "none" /\ rows[r].state \in {"none", "waiting", "timeout"}
      BY <1>1, <2>2, SoundHere DEF SoundAt
    <3>5. \/ x.answer = "acquired" /\ x.rows[r].state = "acquired" /\ x.slot[r] = "held"
          \/ x.answer # "acquired" /\ x.slot[r] = "none" /\ x.rows[r].state \in {"none", "waiting", "timeout"}
      BY <3>2, <3>4 DEF QueueAnswer
    <3>6. SoundAt(y, x.slot[r], x.rows[r].state, late[r])
      BY <1>1, <1>3, <2>2, <3>3, <3>5, SoundHere DEF SoundAt
    <3> QED
      BY <3>2, <3>3, <3>6
  <2> QED
    BY <1>1, <2>1, <2>2
<1> QED
  BY <1>1, <1>2, <1>3, <1>4, LateSame, RequestMoves

LEMMA ServeLateStep ==
  ASSUME Inv, NEW r \in Requests, ServeLate(r)
  PROVE  Inv'
<1> DEFINE x == Serve(r, late[r])
<1>1. /\ late[r] # "none" /\ rows' = x.rows /\ slot' = x.slot /\ sequence' = x.sequence
      /\ UNCHANGED <<siteVars, proc>> /\ late' = [late EXCEPT ![r] = "none"]
  BY DEF ServeLate, Commit
<1>2. /\ TransactionSound(r, x.rows, x.slot, x.sequence)
      /\ slot[r] = "released" => x.slot[r] = "released"
  <2>1. CASE late[r] = "first"
    BY <2>1, DirectSound
  <2>2. CASE late[r] = "advance"
    <3>1. x = AdvanceAPIKeyQueue(r)
      BY <2>2 DEF Serve
    <3> HIDE DEF x
    <3> QED
      BY <3>1, AdvanceSound DEF QueueAnswer
  <2> QED
    BY <1>1, <2>1, <2>2, ProcFacts
<1> HIDE DEF x
<1>3. proc' = [proc EXCEPT ![r] = proc[r]] /\ proc[r] \in Process
  BY <1>1, ProcFacts DEF Inv, TypeOK
<1>4. \/ proc[r].stage = "release" /\ late[r] = "first"
      \/ proc[r].stage = "fence" /\ late[r] = "advance"
      \/ proc[r].stage \in {"done", "crashed"}
  BY <1>1, SoundHere, ProcFacts DEF SoundAt
<1>5. SoundAt(proc[r], x.slot[r], x.rows[r].state, "none")
  <2>1. CASE proc[r].stage = "release"
    BY <1>1, <2>1, SoundHere DEF SoundAt
  <2>2. CASE proc[r].stage = "fence"
    BY <1>1, <2>2, SoundHere DEF SoundAt
  <2>3. CASE proc[r].stage = "done"
    BY <1>1, <1>2, <2>3, SoundHere DEF SoundAt
  <2>4. CASE proc[r].stage = "crashed"
    BY <2>4 DEF SoundAt
  <2> QED
    BY <1>4, <2>1, <2>2, <2>3, <2>4
<1> QED
  BY <1>1, <1>2, <1>3, <1>5, RequestMoves

\* The slot is returned, and its identity is retired.
LEMMA ReleaseStep ==
  ASSUME Inv, NEW r \in Requests, Release(r)
  PROVE  Inv'
<1> DEFINE st == AfterRelease(r)
           y == [proc[r] EXCEPT !.stage = st]
<1>1. /\ UNCHANGED <<siteVars, rows, sequence, late>> /\ proc[r].stage = "release"
      /\ slot' = [slot EXCEPT ![r] = "released"] /\ proc' = [proc EXCEPT ![r] = y]
  BY DEF Release, At
<1>2. \/ proc[r].fenced /\ st = "fence"
      \/ ~ proc[r].fenced /\ st = proc[r].next
  BY DEF AfterRelease
<1>3. proc[r].next \in {"done", "tracked"}
  BY <1>1, SoundHere DEF SoundAt
<1>4. st \in Stage /\ proc[r] \in Process
  BY <1>2, <1>3, Names, ProcFacts
<1> HIDE DEF st
<1>5. /\ y \in Process /\ y.stage = st /\ y.next = proc[r].next
      /\ y.fenced = proc[r].fenced /\ y.remove = proc[r].remove
  BY <1>4 DEF Process
<1> HIDE DEF y
<1>6. SoundAt(y, "released", rows[r].state, late[r])
  BY <1>1, <1>2, <1>3, <1>5, SoundHere DEF SoundAt
<1>7. slot' \in [Requests -> {"none", "held", "released"}] /\ slot'[r] = "released"
      /\ \A q \in Requests \ {r} : slot'[q] = slot[q]
  BY <1>1 DEF Inv, TypeOK
<1>8. TransactionSound(r, rows', slot', sequence')
  BY <1>1, <1>7, UntouchedSound
<1>9. UNCHANGED siteVars /\ late' = [late EXCEPT ![r] = late[r]] /\ late[r] \in {"none", "first", "advance"}
  BY <1>1, LateSame
<1> QED
  BY <1>1, <1>5, <1>6, <1>7, <1>8, <1>9, RequestMoves

\* The deferred fence of a queued request.
LEMMA FenceStep ==
  ASSUME Inv, NEW r \in Requests, Fence(r)
  PROVE  Inv'
<1> DEFINE st == proc[r].next
           y == [proc[r] EXCEPT !.stage = st, !.fenced = FALSE]
<1>1. /\ UNCHANGED <<siteVars, late>> /\ proc[r].stage = "fence"
      /\ Commit(AbortAPIKeyQueueAttempt(r, proc[r].remove)) /\ proc' = [proc EXCEPT ![r] = y]
  BY DEF Fence, At
<1>2. st \in {"forward", "tracked", "done"} /\ st \in Stage /\ proc[r] \in Process
  BY Names, ProcFacts
<1>3. proc[r].remove \in BOOLEAN
  BY <1>2 DEF Process
<1>4. /\ TransactionSound(r, rows', slot', sequence')
      /\ slot'[r] = IF proc[r].remove THEN "released" ELSE slot[r]
      /\ rows'[r].state = IF rows[r].state = "acquired" /\ ~ proc[r].remove THEN "acquired" ELSE "aborted"
  BY <1>1, <1>3, AbortSound
<1> HIDE DEF st
<1>5. /\ y \in Process /\ y.stage = st /\ y.next = proc[r].next
      /\ y.fenced = FALSE /\ y.remove = proc[r].remove /\ y.residue = proc[r].residue
  BY <1>2 DEF Process
<1> HIDE DEF y
<1>6. SoundAt(y, slot'[r], rows'[r].state, late[r])
  <2>1. CASE st = "forward"
    BY <1>1, <1>4, <1>5, <2>1, SoundHere DEF SoundAt, st
  <2>2. CASE st = "tracked"
    BY <1>1, <1>4, <1>5, <2>2, SoundHere DEF SoundAt, st
  <2>3. CASE st = "done" /\ proc[r].remove
    BY <1>1, <1>4, <1>5, <2>3, SoundHere DEF SoundAt, st
  <2>4. CASE st = "done" /\ ~ proc[r].remove
    BY <1>1, <1>4, <1>5, <2>4, SoundHere DEF SoundAt, st
  <2> QED
    BY <1>2, <2>1, <2>2, <2>3, <2>4
<1>7. UNCHANGED siteVars /\ late' = [late EXCEPT ![r] = late[r]] /\ late[r] \in {"none", "first", "advance"}
  BY <1>1, LateSame
<1> QED
  BY <1>1, <1>4, <1>5, <1>6, <1>7, RequestMoves

\* The attempt is closed before statistics-only tracking starts.
LEMMA SwitchStep ==
  ASSUME Inv, NEW r \in Requests, SwitchToUnlimited(r)
  PROVE  Inv'
<1> DEFINE y == [proc[r] EXCEPT !.stage = "fence", !.remove = FALSE, !.next = "tracked"]
<1>1. /\ UNCHANGED <<siteVars, late>> /\ proc[r].stage = "switch"
      /\ Commit(AbortAPIKeyQueueAttempt(r, TRUE)) /\ proc' = [proc EXCEPT ![r] = y]
  BY DEF SwitchToUnlimited, At
<1>2. TransactionSound(r, rows', slot', sequence') /\ slot'[r] = "released" /\ rows'[r].state = "aborted"
  BY <1>1, AbortSound
<1>3. y \in Process /\ y.stage = "fence" /\ y.next = "tracked" /\ ~ y.remove
  BY Names, ProcFacts DEF Process
<1> HIDE DEF y
<1>4. SoundAt(y, slot'[r], rows'[r].state, late[r])
  BY <1>1, <1>2, <1>3, SoundHere DEF SoundAt
<1>5. UNCHANGED siteVars /\ late' = [late EXCEPT ![r] = late[r]] /\ late[r] \in {"none", "first", "advance"}
  BY <1>1, LateSame
<1> QED
  BY <1>1, <1>2, <1>3, <1>4, <1>5, RequestMoves

\* A cleanup is given up.
LEMMA CleanupFailsStep ==
  ASSUME Inv, NEW r \in Requests, CleanupFails(r)
  PROVE  Inv'
<1> DEFINE st == IF proc[r].stage = "release" THEN AfterRelease(r) ELSE proc[r].next
           f == (proc[r].stage = "release") /\ proc[r].fenced
           y == [proc[r] EXCEPT !.stage = st, !.fenced = f, !.residue = TRUE]
<1>1. /\ UNCHANGED <<siteVars, rows, sequence, slot, late>> /\ proc[r].stage \in {"release", "fence"}
      /\ proc' = [proc EXCEPT ![r].stage = st, ![r].fenced = f, ![r].residue = TRUE]
  BY DEF CleanupFails
<1>2. proc[r] \in Process /\ proc[r].next \in {"forward", "done", "tracked"} /\ proc[r].fenced \in BOOLEAN
  BY ProcFacts DEF Process
<1>3. /\ \/ proc[r].stage = "release" /\ proc[r].fenced /\ st = "fence"
         \/ proc[r].stage = "release" /\ ~ proc[r].fenced /\ st = proc[r].next
         \/ proc[r].stage = "fence" /\ st = proc[r].next
      /\ f \in BOOLEAN
      /\ proc[r].stage = "release" => f = proc[r].fenced
      /\ proc[r].stage = "fence" => f = FALSE
  BY <1>1, <1>2 DEF AfterRelease
<1>4. st \in Stage
  BY <1>2, <1>3, Names
<1> HIDE DEF st, f
<1>5. proc' = [proc EXCEPT ![r] = y]
  BY <1>1
<1>6. /\ y \in Process /\ y.stage = st /\ y.next = proc[r].next
      /\ y.fenced = f /\ y.remove = proc[r].remove /\ y.residue = TRUE
  BY <1>2, <1>3, <1>4 DEF Process
<1> HIDE DEF y
<1>7. SoundAt(y, slot[r], rows[r].state, late[r])
  <2>1. CASE proc[r].stage = "release"
    BY <1>2, <1>3, <1>6, <2>1, SoundHere DEF SoundAt
  <2>2. CASE proc[r].stage = "fence"
    BY <1>2, <1>3, <1>6, <2>2, SoundHere DEF SoundAt
  <2> QED
    BY <1>1, <2>1, <2>2
<1> QED
  BY <1>1, <1>5, <1>6, <1>7, ProcMoves

-----------------------------------------------------------------------------
(* The site around the queue, and the whole. *)

LEMMA SiteStep ==
  ASSUME Inv, SetLimit \/ RefreshCache \/ MoveShare \/ Tick \/ UNCHANGED vars
  PROVE  Inv'
<1>1. UNCHANGED <<rows, sequence, slot, proc, late>>
  BY DEF SetLimit, RefreshCache, MoveShare, Tick, vars
<1>2. clock' \in Nat /\ limit' \in Limits /\ cached' \in Limits /\ share' \in Shares
  BY DEF Inv, TypeOK, SetLimit, RefreshCache, MoveShare, Tick, vars
<1>3. TypeOK'
  BY <1>1, <1>2 DEF Inv, TypeOK
<1>4. Sound' /\ LineSound(rows, sequence)'
  BY <1>1 DEF Inv, Sound, LineSound, Waiting
<1> QED
  BY <1>3, <1>4 DEF Inv

LEMMA InitInv ==
  ASSUME Init
  PROVE  Inv
<1>1. \A r \in Requests : rows[r] = NoTicket /\ rows[r].state = "none" /\ slot[r] = "none" /\ late[r] = "none"
  BY DEF Init, NoTicket
<1>2. NoTicket \in Ticket
  BY DEF Ticket, NoTicket
<1>3. Waiting(rows) = {}
  BY <1>1 DEF Waiting
<1>4. \A r \in Requests :
        /\ proc[r].stage = "idle" /\ proc[r].answer = "none" /\ proc[r].next = "done"
        /\ ~ proc[r].fenced /\ proc[r].remove /\ proc[r] \in Process
  BY DEF Init, Process, Stage, Answer
<1>5. proc \in [Requests -> Process]
  <2>1. proc = [r \in Requests |-> proc[r]]
    BY DEF Init
  <2> QED
    BY <1>4, <2>1
<1>6. Cardinality({r \in Requests : rows[r].state = "waiting"}) <= MaxWaiting
  <2>1. {r \in Requests : rows[r].state = "waiting"} = {}
    BY <1>1
  <2>2. Cardinality({}) = 0 /\ MaxWaiting \in Nat
    BY FS_EmptySet, QueueAssumption
  <2> QED
    BY <2>1, <2>2
<1>7. TypeOK
  BY <1>2, <1>5, <1>6 DEF Init, TypeOK
<1>8. Sound
  BY <1>1, <1>4 DEF Sound, SoundAt
<1>9. LineSound(rows, sequence)
  BY <1>3 DEF LineSound
<1> QED
  BY <1>7, <1>8, <1>9 DEF Inv

LEMMA NextInv ==
  ASSUME Inv, [Next]_vars
  PROVE  Inv'
<1>1. ASSUME NEW r \in Requests, Step(r)
      PROVE  Inv'
  BY <1>1, BeginStep, ServeCallStep, FirstStep, LoopStep, HandleStep, HandOverStep,
     ReleaseStep, FenceStep, SwitchStep DEF Step
<1>2. ASSUME NEW r \in Requests,
             CallFails(r) \/ Leave(r) \/ Finish(r) \/ ServeLate(r) \/ SwitchFails(r) \/ CleanupFails(r) \/ Crash(r)
      PROVE  Inv'
  BY <1>2, CallFailsStep, LoopStep, HandOverStep, ServeLateStep, CleanupFailsStep, CrashStep
<1> QED
  BY <1>1, <1>2, SiteStep DEF Next

\* The invariant holds for every set of requests, at the primary and in a region,
\* whatever crashes, is lost or is served late.
THEOREM Invariance == Spec => []Inv
<1>1. Init => Inv
  BY InitInv
<1>2. Inv /\ [Next]_vars => Inv'
  BY NextInv
<1> QED
  BY <1>1, <1>2, PTL DEF Spec

\* The state keeps its types, and no more than MaxWaiting tickets ever wait: the
\* count and the insertion of AdvanceAPIKeyQueue are one transaction.
THEOREM LineIsBounded == Spec => []TypeOK
<1>1. Inv => TypeOK
  BY DEF Inv
<1> QED
  BY <1>1, Invariance, PTL

\* No attempt that is over, and none that waits, keeps a slot behind: the fence and
\* the release retire the identity, so a command that is served late gets nothing.
THEOREM NoSlotLeaks == Spec => []NoLeakedSlot
<1>1. Inv => NoLeakedSlot
  <2> SUFFICES ASSUME Inv, NEW r \in Requests, slot[r] = "held",
                      proc[r].stage \in {"idle", "loop", "switch", "tracked", "done"}
               PROVE  proc[r].residue
    BY DEF NoLeakedSlot
  <2> QED
    BY SoundHere DEF SoundAt
<1> QED
  BY <1>1, Invariance, PTL

\* A forwarded request holds its slot; its own deferred fence spares it.
THEOREM ForwardsHoldSlots == Spec => []ForwardHoldsSlot
<1>1. Inv => ForwardHoldsSlot
  <2> SUFFICES ASSUME Inv, NEW r \in Requests, At(r, "forward") \/ (At(r, "fence") /\ proc[r].next = "forward")
               PROVE  slot[r] = "held"
    BY DEF ForwardHoldsSlot
  <2> QED
    BY SoundHere DEF SoundAt, At
<1> QED
  BY <1>1, Invariance, PTL

\* A request that goes on as unlimited has left the line.
THEOREM UnlimitedRequestsLeave == Spec => []UnlimitedLeavesLine
<1>1. Inv => UnlimitedLeavesLine
  BY SoundHere DEF SoundAt, At, UnlimitedLeavesLine
<1> QED
  BY <1>1, Invariance, PTL

\* A slot is never granted past a live ticket that is older, by a direct admission
\* or out of order, whether the command is answered or served late.
THEOREM NobodyOvertakes == Spec => NoOvertaking
<1> DEFINE Fair == \A r \in Requests \ Queueless : slot[r] # "held" /\ slot'[r] = "held" =>
                     \A q \in Requests \ {r} : LiveWaiter(q) => LiveWaiter(r) /\ rows[r].seq < rows[q].seq
<1>1. ASSUME Inv, NEW q \in Requests
      PROVE  q \in Waiting(Expired) <=> LiveWaiter(q)
  BY <1>1, ExpiredFacts, RowFacts DEF LiveWaiter, Waiting
<1>2. ASSUME Inv, NEW r \in Requests, NEW call \in {"first", "advance"}, slot' = Serve(r, call).slot
      PROVE  Fair
  <2> DEFINE x == Serve(r, call)
  <2> SUFFICES ASSUME NEW u \in Requests \ Queueless, slot[u] # "held", slot'[u] = "held",
                      NEW q \in Requests \ {u}, LiveWaiter(q)
               PROVE  LiveWaiter(u) /\ rows[u].seq < rows[q].seq
    OBVIOUS
  <2>1. q \in Waiting(Expired)
    BY <1>1, <1>2
  <2>2. CASE call = "first"
    <3> HIDE DEF x
    <3>1. x = Serve(r, "first") /\ slot' = x.slot
      BY <1>2, <2>2 DEF x
    <3>2. u = r
      BY <1>2, <3>1, DirectSound DEF TransactionSound
    <3>3. x.answer = "acquired"
      BY <1>2, <3>1, <3>2, DirectSound
    <3>4. Waiting(Expired) = {}
      BY <1>2, <3>1, <3>2, <3>3, DirectSound
    <3> QED
      BY <2>1, <3>4
  <2>3. CASE call = "advance"
    <3>1. x = AdvanceAPIKeyQueue(r) /\ slot' = x.slot
      BY <1>2, <2>3 DEF Serve
    <3> HIDE DEF x
    <3>2. u = r
      BY <1>2, <3>1, AdvanceSound DEF TransactionSound
    <3>3. r \in Waiting(Expired) /\ rows[r].seq < rows[q].seq
      BY <1>2, <2>1, <3>1, <3>2, AdvanceSound DEF AdmittedFirst
    <3> QED
      BY <1>1, <1>2, <3>2, <3>3
  <2> QED
    BY <1>2, <2>2, <2>3
<1>3. Inv /\ [Next]_vars => [Fair]_vars
  <2> SUFFICES ASSUME Inv, Next
               PROVE  Fair
    BY DEF Fair
  <2>1. ASSUME NEW r \in Requests, Release(r) \/ Fence(r) \/ SwitchToUnlimited(r)
        PROVE  \A u \in Requests : slot'[u] = "held" => slot[u] = "held"
    <3>1. CASE Release(r)
      BY <3>1 DEF Release, Inv, TypeOK
    <3>2. CASE Fence(r)
      BY <3>2 DEF Fence, Commit, AbortAPIKeyQueueAttempt, Result, Inv, TypeOK
    <3>3. CASE SwitchToUnlimited(r)
      BY <3>3 DEF SwitchToUnlimited, Commit, AbortAPIKeyQueueAttempt, Result, Inv, TypeOK
    <3> QED
      BY <2>1, <3>1, <3>2, <3>3
  <2>2. ASSUME NEW r \in Requests, ServeCall(r)
        PROVE  Fair
    BY <1>2, <2>2 DEF ServeCall, Commit
  <2>3. ASSUME NEW r \in Requests, ServeLate(r)
        PROVE  Fair
    <3>1. late[r] \in {"first", "advance"}
      BY <2>3, ProcFacts DEF ServeLate
    <3> QED
      BY <1>2, <2>3, <3>1 DEF ServeLate, Commit
  <2>4. \/ slot' = slot
        \/ \E r \in Requests :
             ServeCall(r) \/ ServeLate(r) \/ Release(r) \/ Fence(r) \/ SwitchToUnlimited(r)
    BY DEF Next, Step, Begin, FirstAcquired, FirstBusy, Revalidate, LocalTimeout, HandleAnswer,
           Adopt, Decline, CallFails, Leave, Finish, SwitchFails, CleanupFails, Crash,
           SetLimit, RefreshCache, MoveShare, Tick
  <2> QED
    BY <2>1, <2>2, <2>3, <2>4
<1> QED
  BY <1>3, Invariance, PTL DEF Spec, NoOvertaking
=============================================================================

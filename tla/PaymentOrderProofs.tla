------------------------- MODULE PaymentOrderProofs -------------------------
(* Proofs about PaymentOrder for any number of workers and administrators,   *)
(* any amount and deposit, and any number of faults.                         *)
EXTENDS PaymentOrder, TLAPS

-----------------------------------------------------------------------------
(* The inductive invariant. *)

\* one credit per used code, one rebate per claim, both before completion
CodeSound ==
  /\ credits = IF code = "used" THEN 1 ELSE 0
  /\ rebates = IF "REBATE" \in audits THEN 1 ELSE 0
  /\ status \in Fulfilled => code = "used" /\ "REBATE" \in audits

\* what a worker has seen still holds when it acts on it
WorkerSound(w) ==
  /\ At(w, "query") \/ At(w, "trade") => worker[w].kind # "webhook"
  /\ At(w, "close") \/ At(w, "cancel") => worker[w].kind \in {"CANCELLED", "EXPIRED"}
  /\ At(w, "processed") => status \notin {"PENDING", "CANCELLED"}
  /\ At(w, "rebate") => code = "used"
  /\ At(w, "complete") => code = "used" /\ "REBATE" \in audits

WorkersSound == \A w \in Workers : WorkerSound(w)

\* the steps of a refund that has locked the row
Owning == {"deduct", "call", "rollback", "restore", "failed", "ok", "pend"}
\* those between the deduction and its outcome
Holding == {"call", "rollback", "ok", "pend"}
Finalizing == {"query", "final ok", "final fail", "final mark"}

\* one refund at a time owns the row, and only of a fulfilled order
RefundSound(d) ==
  /\ ~ In(d, "idle") => status \in Fulfilled
  /\ refund[d].pc \in Owning =>
       status = "REFUNDING" \/ (refund[d].pc = "pend" /\ status = "REFUNDED")
  /\ refund[d].pc \in Finalizing => refund[d].amount = held /\ "REFUND_PENDING" \in audits

RefundsSound ==
  /\ \A d \in Admins : RefundSound(d)
  /\ \A d, e \in Admins : refund[d].pc \in Owning /\ refund[e].pc \in Owning => d = e
  /\ status = "REFUND_PENDING" => "REFUND_PENDING" \in audits

\* what refunds have taken from the balance and not returned, as the code knows it
Credited == IF code = "used" THEN Amount ELSE 0
Debt == (Deposit + Credited) - (balance + spent + unseen)

\* what is to be returned has been taken
Backed ==
  /\ Debt >= 0
  /\ status \notin Fulfilled => Debt = 0
  /\ \A d \in Admins : refund[d].pc \in Holding => refund[d].amount <= Debt
  /\ status = "REFUND_PENDING" => held <= Debt

\* as long as no failed rollback is on record, what is taken is what the row
\* or the refund that owns it says
OnRecord ==
  ~ swallowed =>
    /\ Debt <= Amount
    /\ "ROLLBACK_FAILED" \notin audits =>
         /\ status \in Refundable => Debt = 0
         /\ status = "REFUND_PENDING" => Debt = held
         /\ \A d \in Admins :
              /\ refund[d].pc \in {"deduct", "restore"} => Debt = 0
              /\ refund[d].pc \in Holding => Debt = refund[d].amount
              /\ refund[d].pc # "failed"

Inv ==
  /\ TypeOK /\ CodeSound /\ WorkersSound /\ AckedIsCredited
  /\ RefundsSound /\ Backed /\ OnRecord

-----------------------------------------------------------------------------
(* What steps of workers have in common. *)

\* worker w comes to p on behalf of k; the others at most lose a lease
Moved(w, p, k) ==
  /\ worker' \in [Workers -> WorkerStates]
  /\ worker'[w].pc = p /\ worker'[w].kind = k
  /\ \A v \in Workers \ {w} : worker'[v].pc = worker[v].pc /\ worker'[v].kind = worker[v].kind

WorkerPcs == {"idle", "query", "close", "cancel", "trade", "confirm", "processed", "fulfil",
              "claim", "reload", "lookup", "create", "redeem", "rebate", "complete", "fail"}

LEMMA WorkerFacts ==
  ASSUME Inv, NEW w \in Workers
  PROVE  /\ worker[w] \in WorkerStates /\ worker[w].pc \in WorkerPcs
         /\ worker[w].kind \in {"webhook", "internal", "CANCELLED", "EXPIRED"}
         /\ worker[w].lease \in {"none", "held", "lost"}
         /\ Idle \in WorkerStates /\ Idle.pc = "idle" /\ Idle.kind = "webhook"
BY DEF Inv, TypeOK, WorkerStates, WorkerPcs, Idle

LEMMA SetMoves ==
  ASSUME Inv, NEW w \in Workers, NEW x \in WorkerStates, worker' = [worker EXCEPT ![w] = x]
  PROVE  Moved(w, x.pc, x.kind)
BY DEF Inv, TypeOK, Moved

LEMMA GotoMoves ==
  ASSUME Inv, NEW w \in Workers, NEW p \in WorkerPcs, Goto(w, p)
  PROVE  Moved(w, p, worker[w].kind)
<1>1. [worker[w] EXCEPT !.pc = p] \in WorkerStates
  BY WorkerFacts DEF WorkerStates, WorkerPcs
<1>2. worker' = [worker EXCEPT ![w] = [worker[w] EXCEPT !.pc = p]]
  BY DEF Goto
<1>3. [worker[w] EXCEPT !.pc = p].pc = p /\ [worker[w] EXCEPT !.pc = p].kind = worker[w].kind
  BY WorkerFacts DEF WorkerStates
<1> QED
  BY <1>1, <1>2, <1>3, SetMoves

LEMMA UpdateMoves ==
  ASSUME Inv, NEW w \in Workers, NEW x \in WorkerStates, NEW s, Update(s, w, x)
  PROVE  Moved(w, x.pc, x.kind) /\ status' = s /\ aged' \in BOOLEAN
<1>1. worker' = [v \in Workers |-> IF v = w THEN x ELSE Losing(worker[v])]
  BY DEF Update
<1>2. ASSUME NEW v \in Workers
      PROVE  /\ Losing(worker[v]) \in WorkerStates
             /\ Losing(worker[v]).pc = worker[v].pc /\ Losing(worker[v]).kind = worker[v].kind
  BY WorkerFacts DEF Losing, WorkerStates
<1> QED
  BY <1>1, <1>2 DEF Moved, Update

LEMMA ReturnsMoves ==
  ASSUME Inv, NEW w \in Workers, NEW ok, Returns(w, ok)
  PROVE  /\ Moved(w, "idle", "webhook")
         /\ \/ acked' = acked
            \/ /\ ok /\ worker[w].kind = "webhook"
               /\ acked' = IF status = "EXPIRED" THEN "late" ELSE "yes"
<1>1. Moved(w, "idle", "webhook")
  BY WorkerFacts, SetMoves DEF Returns
<1> QED
  BY <1>1 DEF Returns, Answers

\* how a worker's step may change the order
StatusMoves ==
  \/ status' = status
  \/ status = "PENDING" /\ status' \in {"CANCELLED", "EXPIRED"}
  \/ status \in Unpaid \cup Fulfillable /\ status' \in Fulfillable
  \/ status \in Fulfillable /\ status' = "COMPLETED" /\ code = "used" /\ "REBATE" \in audits

\* what a worker needs to have seen to be at p
Arrives(p, k) ==
  /\ p \in {"query", "trade"} => k # "webhook"
  /\ p \in {"close", "cancel"} => k \in {"CANCELLED", "EXPIRED"}
  /\ p = "processed" => status' \notin {"PENDING", "CANCELLED"}
  /\ p = "rebate" => code' = "used"
  /\ p = "complete" => code' = "used" /\ "REBATE" \in audits'

LEMMA OthersSound ==
  ASSUME Inv, NEW w \in Workers, NEW p, NEW k, Moved(w, p, k), Arrives(p, k), StatusMoves,
         code = "used" => code' = "used", audits \subseteq audits'
  PROVE  WorkersSound'
<1> SUFFICES ASSUME NEW v \in Workers
             PROVE  WorkerSound(v)'
  BY DEF WorkersSound
<1>1. CASE v = w
  BY <1>1 DEF Moved, Arrives, WorkerSound, At
<1>2. CASE v # w
  <2>1. worker'[v].pc = worker[v].pc /\ worker'[v].kind = worker[v].kind
    BY <1>2 DEF Moved
  <2>2. WorkerSound(v)
    BY DEF Inv, WorkersSound
  <2> QED
    BY <2>1, <2>2 DEF WorkerSound, At, StatusMoves, Unpaid, Fulfillable
<1> QED
  BY <1>1, <1>2

\* The refunds under way do not see what workers do.
LEMMA RefundsUnmoved ==
  ASSUME Inv, StatusMoves, UNCHANGED <<refund, held>>, Debt' = Debt,
         audits \subseteq audits', audits' \subseteq audits \cup {"REBATE"}, swallowed => swallowed'
  PROVE  RefundsSound' /\ Backed' /\ OnRecord'
<1> USE DEF Inv
<1>0. \/ status' = status
      \/ status \notin Fulfilled /\ status' \notin Fulfilled
      \/ status \notin Fulfilled /\ status' = "COMPLETED"
  BY DEF StatusMoves, Unpaid, Fulfillable, Fulfilled, RefundStatus
<1>1. ASSUME status' # status
      PROVE  \A d \in Admins : refund[d].pc = "idle"
  BY <1>0, <1>1 DEF RefundsSound, RefundSound, In
<1>2. RefundsSound'
  BY <1>0, <1>1 DEF RefundsSound, RefundSound, In, Owning, Finalizing, Fulfilled, RefundStatus
<1>3. Backed'
  BY <1>0 DEF Backed, Fulfilled, RefundStatus
<1>4. OnRecord'
  BY <1>0 DEF OnRecord, Backed, Fulfilled, RefundStatus, Refundable
<1> QED
  BY <1>2, <1>3, <1>4

\* A step of a worker that moves no money.
LEMMA PlainStep ==
  ASSUME Inv, NEW w \in Workers, NEW p, NEW k, Moved(w, p, k), Arrives(p, k), StatusMoves,
         UNCHANGED <<moneyVars, audits, held, refund>>,
         faults' \in 0 .. MaxFaults, swallowed' \in BOOLEAN, swallowed => swallowed',
         aged' \in BOOLEAN, charge' \in {"open", "closed", "paid"},
         gateway' \in {"none", "pending", "refunded", "failed"}, acked' \in {"no", "yes", "late", "unresolved"},
         acked' = "yes" => acked = "yes" \/ status' \in Fulfilled \/ swallowed'
  PROVE  Inv'
<1> USE DEF Inv
<1>1. TypeOK'
  BY DEF TypeOK, Moved, StatusMoves, Unpaid, Fulfillable, Fulfilled, moneyVars
<1>2. CodeSound'
  BY DEF CodeSound, StatusMoves, Unpaid, Fulfillable, Fulfilled, RefundStatus, moneyVars
<1>3. WorkersSound'
  BY OthersSound DEF moneyVars
<1>4. AckedIsCredited'
  BY DEF AckedIsCredited, StatusMoves, Unpaid, Fulfillable, Fulfilled, RefundStatus
<1>5. Debt' = Debt
  BY DEF Debt, Credited, moneyVars
<1>6. RefundsSound' /\ Backed' /\ OnRecord'
  BY <1>5, RefundsUnmoved
<1> QED
  BY <1>1, <1>2, <1>3, <1>4, <1>6

LEMMA FaultCounted ==
  ASSUME Inv, Fault \/ NoFault
  PROVE  faults' \in 0 .. MaxFaults
BY OrderAssumption DEF Inv, TypeOK, Fault, NoFault

LEMMA InitInv == Init => Inv
<1> SUFFICES ASSUME Init PROVE Inv
  OBVIOUS
<1> USE OrderAssumption DEF Init
<1>1. worker \in [Workers -> WorkerStates] /\ refund \in [Admins -> RefundStates]
  <2>1. Idle \in WorkerStates
    BY DEF Idle, WorkerStates
  <2>2. NoRefund \in RefundStates
    BY DEF NoRefund, RefundStates
  <2> QED
    BY <2>1, <2>2
<1>2. aged \in BOOLEAN /\ swallowed \in BOOLEAN
  OBVIOUS
<1>3. TypeOK
  <2>1. /\ status = "PENDING" /\ charge = "open" /\ acked = "no" /\ code = "none" /\ balance = Deposit
        /\ audits = {} /\ held = 0 /\ gateway = "none" /\ faults = 0
        /\ credits = 0 /\ rebates = 0 /\ spent = 0 /\ unseen = 0
    OBVIOUS
  <2> HIDE DEF Init
  <2> QED
    BY <1>1, <1>2, <2>1 DEF TypeOK, Unpaid
<1>4. \A w \in Workers : worker[w].pc = "idle"
  BY DEF Idle
<1>5. \A d \in Admins : refund[d].pc = "idle"
  BY DEF NoRefund
<1>6. CodeSound /\ WorkersSound /\ AckedIsCredited
  <2>1. CodeSound
    BY DEF CodeSound, Fulfilled, RefundStatus
  <2>2. WorkersSound
    BY <1>4 DEF WorkersSound, WorkerSound, At
  <2>3. AckedIsCredited
    BY DEF AckedIsCredited
  <2> QED
    BY <2>1, <2>2, <2>3
<1>7. RefundsSound /\ Backed /\ OnRecord
  <2>1. Debt = 0
    BY DEF Debt, Credited
  <2>2. RefundsSound
    BY <1>5 DEF RefundsSound, RefundSound, In, Owning, Finalizing
  <2>3. Backed /\ OnRecord
    BY <1>5, <2>1 DEF Holding, Backed, OnRecord
  <2> QED
    BY <2>2, <2>3
<1> QED
  BY <1>3, <1>6, <1>7 DEF Inv

-----------------------------------------------------------------------------
(* The steps that concern neither balance nor refund. *)

\* workers set out, and die
LEMMA SettingOut ==
  ASSUME Inv, NEW w \in Workers,
         \/ \E kind \in {"CANCELLED", "EXPIRED", "internal"} : StartCheck(w, kind)
         \/ Notify(w) \/ Retry(w) \/ WorkerDies(w)
  PROVE  Inv' /\ StatusMoves
<1>1. /\ UNCHANGED <<orderVars, charge, moneyVars, restOfWorker, swallowed>>
      /\ Fault \/ NoFault
      /\ acked' = acked \/ acked' = "unresolved"
  BY DEF StartCheck, Notify, Retry, WorkerDies, NoFault
<1>0. CASE UNCHANGED worker
  <2>1. Moved(w, worker[w].pc, worker[w].kind) /\ StatusMoves
    BY <1>0, <1>1 DEF Moved, StatusMoves, orderVars, Inv, TypeOK
  <2>2. Arrives(worker[w].pc, worker[w].kind)
    BY <1>1 DEF Arrives, Inv, WorkersSound, WorkerSound, At, orderVars, moneyVars, restOfWorker
  <2> QED
    BY <1>1, <2>1, <2>2, PlainStep, FaultCounted DEF Inv, TypeOK, orderVars, restOfWorker
<1>2. UNCHANGED worker \/ \E x \in WorkerStates :
        /\ worker' = [worker EXCEPT ![w] = x] /\ x.pc \in {"idle", "query", "confirm", "fulfil"}
        /\ x.pc = "query" => x.kind # "webhook"
  <2>1. CASE \E kind \in {"CANCELLED", "EXPIRED", "internal"} : StartCheck(w, kind)
    <3>1. PICK kind \in {"CANCELLED", "EXPIRED", "internal"} : StartCheck(w, kind)
      BY <2>1
    <3> DEFINE x == [pc |-> "query", kind |-> kind, lease |-> "none"]
    <3>2. x \in WorkerStates /\ x.pc = "query" /\ x.kind # "webhook"
      BY DEF WorkerStates
    <3>3. worker' = [worker EXCEPT ![w] = x]
      BY <3>1 DEF StartCheck
    <3> HIDE DEF x
    <3> QED
      BY <3>2, <3>3
  <2>2. CASE Notify(w)
    <3> DEFINE x == [pc |-> "confirm", kind |-> "webhook", lease |-> "none"]
    <3>1. x \in WorkerStates /\ x.pc = "confirm"
      BY DEF WorkerStates
    <3>2. UNCHANGED worker \/ worker' = [worker EXCEPT ![w] = x]
      BY <2>2 DEF Notify
    <3> HIDE DEF x
    <3> QED
      BY <3>1, <3>2
  <2>3. CASE Retry(w)
    <3> DEFINE x == [pc |-> "fulfil", kind |-> "internal", lease |-> "none"]
    <3>1. x \in WorkerStates /\ x.pc = "fulfil"
      BY DEF WorkerStates
    <3>2. worker' = [worker EXCEPT ![w] = x]
      BY <2>3 DEF Retry
    <3> HIDE DEF x
    <3> QED
      BY <3>1, <3>2
  <2>4. CASE WorkerDies(w)
    BY <2>4, WorkerFacts DEF WorkerDies
  <2> QED
    BY <2>1, <2>2, <2>3, <2>4
<1>3. ASSUME NEW x \in WorkerStates, worker' = [worker EXCEPT ![w] = x],
             x.pc \in {"idle", "query", "confirm", "fulfil"}, x.pc = "query" => x.kind # "webhook"
      PROVE  Inv' /\ StatusMoves
  <2>1. Moved(w, x.pc, x.kind) /\ Arrives(x.pc, x.kind) /\ StatusMoves
    BY <1>1, <1>3, SetMoves DEF Arrives, StatusMoves, orderVars
  <2> QED
    BY <1>1, <2>1, PlainStep, FaultCounted DEF Inv, TypeOK, orderVars, restOfWorker
<1> QED
  BY <1>0, <1>2, <1>3

\* the clock, the payer and the gateway
LEMMA OutsideStep ==
  ASSUME Inv, Age \/ Pay \/ Settle
  PROVE  Inv' /\ StatusMoves
<1> USE DEF Inv
<1>1. /\ UNCHANGED <<status, acked, moneyVars, audits, held, worker, refund, faults, swallowed>>
      /\ aged' \in BOOLEAN /\ charge' \in {"open", "closed", "paid"}
      /\ gateway' \in {"none", "pending", "refunded", "failed"}
  <2>1. UNCHANGED <<status, acked, moneyVars, audits, held, worker, refund, faults, swallowed>>
    BY DEF Age, Pay, Settle, orderVars
  <2>2. aged' \in BOOLEAN
    BY DEF Age, Pay, Settle, orderVars, TypeOK
  <2>3. charge' \in {"open", "closed", "paid"} /\ gateway' \in {"none", "pending", "refunded", "failed"}
    BY DEF Age, Pay, Settle, TypeOK
  <2> QED
    BY <2>1, <2>2, <2>3
<1>2. StatusMoves /\ Debt' = Debt
  BY <1>1 DEF StatusMoves, Debt, Credited, moneyVars
<1>3. TypeOK'
  BY <1>1 DEF TypeOK, moneyVars
<1>4. CodeSound' /\ WorkersSound' /\ AckedIsCredited'
  BY <1>1 DEF CodeSound, WorkersSound, WorkerSound, At, AckedIsCredited, moneyVars
<1>5. RefundsSound' /\ Backed' /\ OnRecord'
  BY <1>1, <1>2, RefundsUnmoved
<1> QED
  BY <1>2, <1>3, <1>4, <1>5

LEMMA SpendStep ==
  ASSUME Inv, Spend
  PROVE  Inv' /\ StatusMoves
<1> USE DEF Inv
<1>1. /\ UNCHANGED <<orderVars, charge, acked, code, credits, rebates, unseen, audits, held, worker,
                     refund, gateway, faults, swallowed>>
      /\ balance' = balance - 1 /\ spent' = spent + 1
      /\ balance \in Int /\ spent \in Nat /\ unseen \in Nat
  BY DEF Spend, TypeOK
<1>2. StatusMoves
  BY <1>1 DEF StatusMoves, orderVars
<1>3. Debt' = Debt
  BY <1>1, OrderAssumption DEF Debt, Credited
<1>4. TypeOK'
  BY <1>1 DEF TypeOK, orderVars
<1>5. CodeSound' /\ WorkersSound' /\ AckedIsCredited'
  BY <1>1 DEF CodeSound, WorkersSound, WorkerSound, At, AckedIsCredited, orderVars
<1>6. RefundsSound' /\ Backed' /\ OnRecord'
  BY <1>1, <1>2, <1>3, RefundsUnmoved
<1> QED
  BY <1>2, <1>4, <1>5, <1>6

LEMMA QueryStep ==
  ASSUME Inv, NEW w \in Workers, Query(w) \/ Close(w)
  PROVE  Inv' /\ StatusMoves
<1>1. /\ UNCHANGED <<orderVars, moneyVars, restOfWorker, swallowed>> /\ (Fault \/ NoFault)
      /\ charge' \in {"open", "closed", "paid"}
  BY DEF Query, Close, NoFault, Inv, TypeOK
<1>2. \E p, k : Moved(w, p, k) /\ Arrives(p, k) /\ acked' = acked
  <2>0. WorkerSound(w)
    BY DEF Inv, WorkersSound
  <2>1. CASE At(w, "query") /\ Goto(w, "trade") /\ UNCHANGED acked
    <3>1. Moved(w, "trade", worker[w].kind) /\ Arrives("trade", worker[w].kind)
      BY <2>0, <2>1, GotoMoves DEF WorkerPcs, Arrives, WorkerSound
    <3> QED
      BY <2>1, <3>1
  <2>2. CASE At(w, "query") /\ \E p \in {"close", "cancel"} : Unconfirmed(w, p)
    <3>1. CASE worker[w].kind = "internal"
      <4>1. Returns(w, TRUE)
        BY <2>2, <3>1 DEF Unconfirmed
      <4>2. Moved(w, "idle", "webhook") /\ acked' = acked
        BY <3>1, <4>1, ReturnsMoves
      <4> QED
        BY <4>2 DEF Arrives
    <3>2. CASE worker[w].kind # "internal"
      <4>1. PICK p \in {"close", "cancel"} : Goto(w, p) /\ UNCHANGED acked
        BY <2>2, <3>2 DEF Unconfirmed
      <4>2. Moved(w, p, worker[w].kind)
        BY <4>1, GotoMoves DEF WorkerPcs
      <4>3. worker[w].kind \in {"CANCELLED", "EXPIRED"}
        BY <2>0, <2>2, <3>2, WorkerFacts DEF WorkerSound
      <4> QED
        BY <4>1, <4>2, <4>3 DEF Arrives
    <3> QED
      BY <3>1, <3>2
  <2>3. CASE Close(w)
    <3>1. Moved(w, "cancel", worker[w].kind) /\ Arrives("cancel", worker[w].kind) /\ acked' = acked
      BY <2>0, <2>3, GotoMoves DEF Close, WorkerPcs, Arrives, WorkerSound
    <3> QED
      BY <3>1
  <2> QED
    BY <2>1, <2>2, <2>3 DEF Query
<1>3. PICK p, k : Moved(w, p, k) /\ Arrives(p, k) /\ acked' = acked
  BY <1>2
<1>4. StatusMoves
  BY <1>1 DEF StatusMoves, orderVars
<1> QED
  BY <1>1, <1>3, <1>4, PlainStep, FaultCounted DEF Inv, TypeOK, orderVars, restOfWorker

LEMMA CancelStep ==
  ASSUME Inv, NEW w \in Workers, CancelCore(w)
  PROVE  Inv' /\ StatusMoves
<1>0. /\ At(w, "cancel") /\ UNCHANGED <<charge, moneyVars, restOfWorker, faults, swallowed>>
      /\ worker[w].kind \in {"CANCELLED", "EXPIRED"}
  BY DEF CancelCore, Inv, WorkersSound, WorkerSound
<1>1. Moved(w, "idle", "webhook") /\ acked' = acked /\ StatusMoves /\ aged' \in BOOLEAN
  <2>1. CASE StillPending
    <3>1. Update(worker[w].kind, w, Idle) /\ acked' = acked /\ status = "PENDING"
      BY <2>1 DEF CancelCore, StillPending
    <3>2. Moved(w, "idle", "webhook") /\ status' = worker[w].kind /\ aged' \in BOOLEAN
      BY <3>1, UpdateMoves, WorkerFacts
    <3> QED
      BY <1>0, <3>1, <3>2 DEF StatusMoves
  <2>2. CASE ~ StillPending
    <3>1. Returns(w, TRUE) /\ UNCHANGED orderVars
      BY <2>2 DEF CancelCore
    <3>2. Moved(w, "idle", "webhook") /\ acked' = acked
      BY <1>0, <3>1, ReturnsMoves
    <3> QED
      BY <3>1, <3>2 DEF StatusMoves, orderVars, Inv, TypeOK
  <2> QED
    BY <2>1, <2>2
<1>2. Arrives("idle", "webhook")
  BY DEF Arrives
<1> QED
  BY <1>0, <1>1, <1>2, PlainStep DEF Inv, TypeOK, restOfWorker

LEMMA TradeStep ==
  ASSUME Inv, NEW w \in Workers, PersistTradeNo(w)
  PROVE  Inv' /\ StatusMoves
<1> DEFINE x == [worker[w] EXCEPT !.pc = "confirm", !.kind = "internal"]
<1>0. UNCHANGED <<charge, acked, moneyVars, restOfWorker, faults, swallowed>>
  BY DEF PersistTradeNo
<1>1. x \in WorkerStates /\ x.pc = "confirm" /\ x.kind = "internal"
  BY WorkerFacts DEF WorkerStates
<1>2. \/ Update(status, w, x)
      \/ worker' = [worker EXCEPT ![w] = x] /\ UNCHANGED orderVars
  BY DEF PersistTradeNo
<1> HIDE DEF x
<1>3. Moved(w, "confirm", "internal") /\ status' = status /\ aged' \in BOOLEAN
  <2>1. CASE Update(status, w, x)
    BY <1>1, <2>1, UpdateMoves
  <2>2. CASE worker' = [worker EXCEPT ![w] = x] /\ UNCHANGED orderVars
    BY <1>1, <2>2, SetMoves DEF orderVars, Inv, TypeOK
  <2> QED
    BY <1>2, <2>1, <2>2
<1>4. Arrives("confirm", "internal") /\ StatusMoves
  BY <1>3 DEF Arrives, StatusMoves
<1> QED
  BY <1>0, <1>3, <1>4, PlainStep DEF Inv, TypeOK, restOfWorker

LEMMA ToPaidStep ==
  ASSUME Inv, NEW w \in Workers, ToPaid(w)
  PROVE  Inv' /\ StatusMoves
<1>0. UNCHANGED <<charge, moneyVars, restOfWorker>> /\ At(w, "confirm") /\ (Fault \/ NoFault)
  BY DEF ToPaid, Swallow
<1>1. CASE /\ Payable /\ Update("PAID", w, [worker[w] EXCEPT !.pc = "fulfil"])
           /\ UNCHANGED <<acked, swallowed>>
  <2> DEFINE x == [worker[w] EXCEPT !.pc = "fulfil"]
  <2>1. x \in WorkerStates /\ x.pc = "fulfil" /\ x.kind = worker[w].kind
    BY WorkerFacts DEF WorkerStates
  <2>2. Update("PAID", w, x)
    BY <1>1
  <2> HIDE DEF x
  <2>3. Moved(w, "fulfil", worker[w].kind) /\ status' = "PAID" /\ aged' \in BOOLEAN
    BY <2>1, <2>2, UpdateMoves
  <2>4. Arrives("fulfil", worker[w].kind) /\ StatusMoves
    BY <1>1, <2>3 DEF Arrives, StatusMoves, Payable, Unpaid, Fulfillable
  <2> QED
    BY <1>0, <1>1, <2>3, <2>4, PlainStep, FaultCounted DEF Inv, TypeOK, restOfWorker
<1>2. CASE ~ Payable /\ Goto(w, "processed") /\ UNCHANGED <<orderVars, acked, swallowed>>
  <2>1. Moved(w, "processed", worker[w].kind)
    BY <1>2, GotoMoves DEF WorkerPcs
  <2>2. Arrives("processed", worker[w].kind) /\ StatusMoves
    BY <1>2 DEF Arrives, StatusMoves, Payable, orderVars
  <2> QED
    BY <1>0, <1>2, <2>1, <2>2, PlainStep, FaultCounted DEF Inv, TypeOK, restOfWorker, orderVars
<1>3. CASE /\ UNCHANGED orderVars
           /\ \/ Swallow /\ Returns(w, TRUE)
              \/ Returns(w, FALSE) /\ UNCHANGED swallowed
  <2>1. /\ Moved(w, "idle", "webhook") /\ acked' \in {acked, "late", "yes"}
        /\ acked' # acked => swallowed'
        /\ swallowed' \in BOOLEAN /\ (swallowed => swallowed')
    <3>1. CASE Swallow /\ Returns(w, TRUE)
      <4>1. swallowed' = TRUE
        BY <3>1 DEF Swallow
      <4> QED
        BY <3>1, <4>1, ReturnsMoves
    <3>2. CASE Returns(w, FALSE) /\ UNCHANGED swallowed
      BY <3>2, ReturnsMoves DEF Inv, TypeOK
    <3> QED
      BY <1>3, <3>1, <3>2
  <2>2. Arrives("idle", "webhook") /\ StatusMoves
    BY <1>3 DEF Arrives, StatusMoves, orderVars
  <2> QED
    BY <1>0, <1>3, <2>1, <2>2, PlainStep, FaultCounted DEF Inv, TypeOK, restOfWorker, orderVars
<1> QED
  BY <1>1, <1>2, <1>3 DEF ToPaid

LEMMA ProcessedStep ==
  ASSUME Inv, NEW w \in Workers, AlreadyProcessed(w)
  PROVE  Inv' /\ StatusMoves
<1>0. /\ UNCHANGED <<orderVars, charge, moneyVars, restOfWorker>> /\ At(w, "processed") /\ (Fault \/ NoFault)
      /\ status \in Unpaid \cup Fulfillable \cup Fulfilled /\ StatusMoves
      /\ status \notin {"PENDING", "CANCELLED"}
  BY DEF AlreadyProcessed, Swallow, Inv, TypeOK, StatusMoves, orderVars, WorkersSound, WorkerSound
<1>1. CASE Goto(w, "fulfil") /\ UNCHANGED <<acked, swallowed>>
  <2>1. Moved(w, "fulfil", worker[w].kind) /\ Arrives("fulfil", worker[w].kind)
    BY <1>1, GotoMoves DEF WorkerPcs, Arrives
  <2> QED
    BY <1>0, <1>1, <2>1, PlainStep, FaultCounted DEF Inv, TypeOK, restOfWorker, orderVars
<1>2. CASE status \notin ToBeFulfilled /\ Returns(w, TRUE) /\ UNCHANGED swallowed
  <2>1. /\ Moved(w, "idle", "webhook")
        /\ acked' = acked \/ acked' = IF status = "EXPIRED" THEN "late" ELSE "yes"
    BY <1>2, ReturnsMoves
  <2>2. Arrives("idle", "webhook") /\ (status # "EXPIRED" => status \in Fulfilled)
    BY <1>0, <1>2 DEF Arrives, ToBeFulfilled, Unpaid
  <2> QED
    BY <1>0, <1>2, <2>1, <2>2, PlainStep, FaultCounted DEF Inv, TypeOK, restOfWorker, orderVars
<1>3. CASE Swallow /\ Returns(w, TRUE)
  <2>1. swallowed' = TRUE
    BY <1>3 DEF Swallow
  <2>2. Moved(w, "idle", "webhook") /\ acked' \in {acked, "late", "yes"}
    BY <1>3, ReturnsMoves
  <2>3. Arrives("idle", "webhook")
    BY DEF Arrives
  <2>4. swallowed' \in BOOLEAN /\ swallowed'
    BY <2>1
  <2> QED
    BY <1>0, <2>2, <2>3, <2>4, PlainStep, FaultCounted DEF Inv, TypeOK, restOfWorker, orderVars
<1> QED
  BY <1>1, <1>2, <1>3 DEF AlreadyProcessed

\* before the money: the claim, the lease, the look at the code
LEMMA ClaimStep ==
  ASSUME Inv, NEW w \in Workers, Fulfil(w) \/ AcquireLease(w) \/ ReloadLease(w) \/ LookupCode(w)
  PROVE  Inv' /\ StatusMoves
<1>0. /\ UNCHANGED <<charge, moneyVars, restOfWorker, swallowed>> /\ (Fault \/ NoFault)
      /\ code \in {"none", "unused", "used"}
  BY DEF Fulfil, AcquireLease, ReloadLease, LookupCode, NoFault, Inv, TypeOK
<1>1. ASSUME UNCHANGED orderVars, NEW p \in WorkerPcs \ {"query", "trade", "close", "cancel", "processed", "complete"},
             Goto(w, p), UNCHANGED acked, p = "rebate" => code = "used"
      PROVE  Inv' /\ StatusMoves
  <2>1. Moved(w, p, worker[w].kind) /\ Arrives(p, worker[w].kind)
    BY <1>0, <1>1, GotoMoves DEF Arrives, moneyVars
  <2>2. StatusMoves
    BY <1>1 DEF StatusMoves, orderVars
  <2> QED
    BY <1>0, <1>1, <2>1, <2>2, PlainStep, FaultCounted DEF Inv, TypeOK, restOfWorker, orderVars
<1>2. ASSUME UNCHANGED orderVars, NEW ok, Returns(w, ok), ok => status = "COMPLETED"
      PROVE  Inv' /\ StatusMoves
  <2>1. Moved(w, "idle", "webhook") /\ (acked' = acked \/ (acked' = "yes" /\ status \in Fulfilled))
    BY <1>2, ReturnsMoves DEF Fulfilled
  <2>2. Arrives("idle", "webhook") /\ StatusMoves
    BY <1>2 DEF Arrives, StatusMoves, orderVars
  <2> QED
    BY <1>0, <1>2, <2>1, <2>2, PlainStep, FaultCounted DEF Inv, TypeOK, restOfWorker, orderVars
<1>3. CASE Fulfil(w)
  <2>1. CASE status \in Fulfillable
    BY <1>1, <1>3, <2>1 DEF Fulfil, WorkerPcs
  <2>2. CASE status \notin Fulfillable
    BY <1>2, <1>3, <2>2 DEF Fulfil
  <2> QED
    BY <2>1, <2>2
<1>4. CASE AcquireLease(w)
  <2>1. CASE Claimable
    <3> DEFINE x == [worker[w] EXCEPT !.pc = "reload"]
    <3>1. x \in WorkerStates /\ x.pc = "reload" /\ x.kind = worker[w].kind
      BY WorkerFacts DEF WorkerStates
    <3>2. Update("RECHARGING", w, x) /\ UNCHANGED acked
      BY <1>4, <2>1 DEF AcquireLease
    <3> HIDE DEF x
    <3>3. Moved(w, "reload", worker[w].kind) /\ status' = "RECHARGING" /\ aged' \in BOOLEAN
      BY <3>1, <3>2, UpdateMoves
    <3>4. Arrives("reload", worker[w].kind) /\ StatusMoves
      BY <2>1, <3>3 DEF Arrives, StatusMoves, Claimable, Fulfillable
    <3> QED
      BY <1>0, <3>2, <3>3, <3>4, PlainStep, FaultCounted DEF Inv, TypeOK, restOfWorker
  <2>2. CASE ~ Claimable
    BY <1>2, <1>4, <2>2 DEF AcquireLease
  <2> QED
    BY <2>1, <2>2
<1>5. CASE ReloadLease(w)
  <2>1. CASE status = "RECHARGING"
    <3> DEFINE x == [worker[w] EXCEPT !.pc = "lookup", !.lease = "held"]
    <3>1. x \in WorkerStates /\ x.pc = "lookup" /\ x.kind = worker[w].kind
      BY WorkerFacts DEF WorkerStates
    <3>2. worker' = [worker EXCEPT ![w] = x] /\ UNCHANGED acked /\ UNCHANGED orderVars
      BY <1>5, <2>1 DEF ReloadLease
    <3> HIDE DEF x
    <3>3. Moved(w, "lookup", worker[w].kind)
      BY <3>1, <3>2, SetMoves
    <3>4. Arrives("lookup", worker[w].kind) /\ StatusMoves
      BY <3>2 DEF Arrives, StatusMoves, orderVars
    <3> QED
      BY <1>0, <3>2, <3>3, <3>4, PlainStep, FaultCounted DEF Inv, TypeOK, restOfWorker, orderVars
  <2>2. CASE status # "RECHARGING"
    BY <1>2, <1>5, <2>2 DEF ReloadLease
  <2> QED
    BY <2>1, <2>2
<1>6. CASE LookupCode(w)
  <2>1. \E p \in {"create", "redeem", "rebate", "fail"} : Goto(w, p) /\ (p = "rebate" => code = "used")
    BY <1>0, <1>6 DEF LookupCode, AfterLookup
  <2>2. UNCHANGED <<orderVars, acked>>
    BY <1>6 DEF LookupCode
  <2> QED
    BY <1>1, <2>1, <2>2 DEF WorkerPcs
<1> QED
  BY <1>3, <1>4, <1>5, <1>6

\* A step of a worker that moves money or claims the rebate.
LEMMA MoneyStep ==
  ASSUME Inv, NEW w \in Workers, NEW p, NEW k, Moved(w, p, k), Arrives(p, k),
         UNCHANGED <<orderVars, charge, acked, spent, unseen, held, refund, gateway, swallowed>>,
         faults' \in 0 .. MaxFaults, code' \in {"none", "unused", "used"}, balance' \in Int,
         credits' \in Nat, rebates' \in Nat,
         code = "used" => code' = "used", audits \subseteq audits', audits' \subseteq audits \cup {"REBATE"},
         CodeSound', Debt' = Debt
  PROVE  Inv' /\ StatusMoves
<1> USE DEF Inv
<1>1. TypeOK'
  BY DEF TypeOK, Moved, orderVars
<1>2. StatusMoves
  BY DEF StatusMoves, orderVars
<1>3. WorkersSound'
  BY <1>2, OthersSound
<1>4. AckedIsCredited'
  BY DEF AckedIsCredited, orderVars
<1>5. RefundsSound' /\ Backed' /\ OnRecord'
  BY <1>2, RefundsUnmoved
<1> QED
  BY <1>1, <1>2, <1>3, <1>4, <1>5

LEMMA CreateStep ==
  ASSUME Inv, NEW w \in Workers, CreateCode(w)
  PROVE  Inv' /\ StatusMoves
<1>0. /\ UNCHANGED <<orderVars, charge, acked, balance, credits, rebates, spent, unseen, restOfWorker,
                     swallowed>>
      /\ Fault \/ NoFault
      /\ code' = code \/ (code = "none" /\ code' = "unused")
      /\ Goto(w, "redeem") \/ Goto(w, "fail")
  BY DEF CreateCode
<1>1. PICK p \in {"redeem", "fail"} : Moved(w, p, worker[w].kind)
  BY <1>0, GotoMoves DEF WorkerPcs
<1>2. Arrives(p, worker[w].kind)
  BY DEF Arrives
<1>3. CodeSound' /\ Debt' = Debt
  BY <1>0 DEF Inv, CodeSound, Debt, Credited, orderVars, restOfWorker
<1> QED
  BY <1>0, <1>1, <1>2, <1>3, MoneyStep, FaultCounted DEF Inv, TypeOK, restOfWorker

LEMMA RedeemStep ==
  ASSUME Inv, NEW w \in Workers, RedeemCode(w)
  PROVE  Inv' /\ StatusMoves
<1>0. /\ UNCHANGED <<orderVars, charge, acked, rebates, spent, unseen, restOfWorker, swallowed>>
      /\ Fault \/ NoFault
      /\ \/ /\ code = "unused" /\ code' = "used" /\ balance' = balance + Amount /\ credits' = credits + 1
            /\ Goto(w, "rebate") \/ Goto(w, "fail")
         \/ UNCHANGED <<code, balance, credits>> /\ Goto(w, "fail")
  BY DEF RedeemCode, Usable, Credit
<1>1. PICK p \in {"rebate", "fail"} : Moved(w, p, worker[w].kind) /\ (p = "rebate" => code' = "used")
  BY <1>0, GotoMoves DEF WorkerPcs
<1>2. Arrives(p, worker[w].kind)
  BY <1>1 DEF Arrives
<1>3. /\ balance \in Int /\ spent \in Nat /\ unseen \in Nat
      /\ credits \in Nat /\ credits' \in Nat /\ balance' \in Int
      /\ code' \in {"none", "unused", "used"} /\ CodeSound
  BY <1>0, OrderAssumption DEF Inv, TypeOK
<1>4. CodeSound' /\ Debt' = Debt
  <2>1. CodeSound'
    BY <1>0, <1>3 DEF CodeSound, orderVars, restOfWorker
  <2>2. Debt' = Debt
    <3>1. /\ spent' = spent /\ unseen' = unseen /\ spent \in Nat /\ unseen \in Nat
          /\ balance \in Int /\ Amount \in Nat /\ Deposit \in Nat
      BY <1>0, <1>3, OrderAssumption
    <3>2. CASE code = "unused" /\ code' = "used" /\ balance' = balance + Amount
      <4>1. Credited = 0 /\ Credited' = Amount
        BY <3>2 DEF Credited
      <4>2. /\ Debt = (Deposit + 0) - (balance + spent + unseen)
            /\ Debt' = (Deposit + Amount) - ((balance + Amount) + spent + unseen)
        BY <3>1, <3>2, <4>1 DEF Debt
      <4> QED
        BY <3>1, <4>2
    <3>3. CASE UNCHANGED <<code, balance>>
      BY <3>1, <3>3 DEF Debt, Credited
    <3> QED
      BY <1>0, <3>2, <3>3
  <2> QED
    BY <2>1, <2>2
<1> QED
  BY <1>0, <1>1, <1>2, <1>3, <1>4, MoneyStep, FaultCounted DEF Inv, TypeOK, restOfWorker

LEMMA RebateStep ==
  ASSUME Inv, NEW w \in Workers, ApplyRebate(w)
  PROVE  Inv' /\ StatusMoves
<1>0. /\ UNCHANGED <<orderVars, charge, acked, code, balance, credits, spent, unseen, held, refund, gateway,
                     swallowed>>
      /\ Fault \/ NoFault
      /\ \/ /\ "REBATE" \notin audits /\ rebates' = rebates + 1 /\ audits' = audits \cup {"REBATE"}
            /\ Goto(w, "complete") \/ Goto(w, "fail")
         \/ /\ UNCHANGED <<rebates, audits>>
            /\ (Goto(w, "complete") /\ "REBATE" \in audits) \/ Goto(w, "fail")
      /\ code = "used"
  BY DEF ApplyRebate, Accrue, RebateUnclaimed, Inv, WorkersSound, WorkerSound
<1>1. PICK p \in {"complete", "fail"} : Moved(w, p, worker[w].kind) /\ (p = "complete" => "REBATE" \in audits')
  BY <1>0, GotoMoves DEF WorkerPcs
<1>2. Arrives(p, worker[w].kind)
  BY <1>0, <1>1 DEF Arrives
<1>3. rebates \in Nat /\ rebates' \in Nat
  BY <1>0 DEF Inv, TypeOK
<1>4. CodeSound' /\ Debt' = Debt
  BY <1>0, <1>3 DEF Inv, CodeSound, Debt, Credited, orderVars
<1> QED
  BY <1>0, <1>1, <1>2, <1>3, <1>4, MoneyStep, FaultCounted DEF Inv, TypeOK

LEMMA MarkStep ==
  ASSUME Inv, NEW w \in Workers, MarkCompleted(w) \/ MarkFailed(w)
  PROVE  Inv' /\ StatusMoves
<1>0. UNCHANGED <<charge, moneyVars, restOfWorker, swallowed>> /\ (Fault \/ NoFault)
  BY DEF MarkCompleted, MarkFailed
<1>1. ASSUME NEW s \in {"COMPLETED", "FAILED"}, Update(s, w, Idle), status = "RECHARGING",
             s = "COMPLETED" => code = "used" /\ "REBATE" \in audits,
             acked' \in {acked, "yes"}, s = "FAILED" => acked' = acked
      PROVE  Inv' /\ StatusMoves
  <2>1. Moved(w, "idle", "webhook") /\ status' = s /\ aged' \in BOOLEAN
    BY <1>1, UpdateMoves, WorkerFacts
  <2>2. Arrives("idle", "webhook") /\ StatusMoves
    BY <1>1, <2>1 DEF Arrives, StatusMoves, Fulfillable
  <2> QED
    BY <1>0, <1>1, <2>1, <2>2, PlainStep, FaultCounted DEF Inv, TypeOK, restOfWorker, Fulfilled
<1>2. ASSUME UNCHANGED orderVars, NEW ok, Returns(w, ok), ok => status = "COMPLETED"
      PROVE  Inv' /\ StatusMoves
  <2>1. Moved(w, "idle", "webhook") /\ (acked' = acked \/ (acked' = "yes" /\ status \in Fulfilled))
    BY <1>2, ReturnsMoves DEF Fulfilled
  <2>2. Arrives("idle", "webhook") /\ StatusMoves
    BY <1>2 DEF Arrives, StatusMoves, orderVars
  <2> QED
    BY <1>0, <1>2, <2>1, <2>2, PlainStep, FaultCounted DEF Inv, TypeOK, restOfWorker, orderVars
<1>3. ASSUME UNCHANGED orderVars, UNCHANGED acked, Goto(w, "fail")
      PROVE  Inv' /\ StatusMoves
  <2>1. Moved(w, "fail", worker[w].kind) /\ Arrives("fail", worker[w].kind) /\ StatusMoves
    BY <1>3, GotoMoves DEF WorkerPcs, Arrives, StatusMoves, orderVars
  <2> QED
    BY <1>0, <1>3, <2>1, PlainStep, FaultCounted DEF Inv, TypeOK, restOfWorker, orderVars
<1>4. CASE MarkCompleted(w)
  <2>1. code = "used" /\ "REBATE" \in audits
    BY <1>4 DEF MarkCompleted, Inv, WorkersSound, WorkerSound
  <2>2. CASE OwnsLease(w) /\ Update("COMPLETED", w, Idle) /\ Answers(w, TRUE)
    <3>1. acked' \in {acked, "yes"} /\ status = "RECHARGING"
      BY <2>2 DEF Answers, OwnsLease
    <3> QED
      BY <1>1, <2>1, <2>2, <3>1
  <2>3. CASE /\ OwnsLease(w) /\ UNCHANGED acked
             /\ Update("COMPLETED", w, [worker[w] EXCEPT !.pc = "fail", !.lease = "lost"])
    <3> DEFINE x == [worker[w] EXCEPT !.pc = "fail", !.lease = "lost"]
    <3>1. x \in WorkerStates /\ x.pc = "fail" /\ x.kind = worker[w].kind
      BY WorkerFacts DEF WorkerStates
    <3>2. Update("COMPLETED", w, x)
      BY <2>3
    <3> HIDE DEF x
    <3>3. Moved(w, "fail", worker[w].kind) /\ status' = "COMPLETED" /\ aged' \in BOOLEAN
      BY <3>1, <3>2, UpdateMoves
    <3>4. Arrives("fail", worker[w].kind) /\ StatusMoves
      BY <2>1, <2>3, <3>3 DEF Arrives, StatusMoves, Fulfillable, OwnsLease
    <3> QED
      BY <1>0, <2>3, <3>3, <3>4, PlainStep, FaultCounted DEF Inv, TypeOK, restOfWorker, Fulfilled
  <2> QED
    BY <1>2, <1>3, <1>4, <2>2, <2>3 DEF MarkCompleted
<1>5. CASE MarkFailed(w)
  <2>1. CASE OwnsLease(w) /\ Update("FAILED", w, Idle) /\ Answers(w, FALSE)
    <3>1. acked' = acked /\ status = "RECHARGING"
      BY <2>1 DEF Answers, OwnsLease
    <3> QED
      BY <1>1, <2>1, <3>1
  <2> QED
    BY <1>2, <1>5, <2>1 DEF MarkFailed
<1> QED
  BY <1>4, <1>5

-----------------------------------------------------------------------------
(* Refunds. *)

\* a refund's step leaves the workers alone and the order fulfilled
LEMMA RefundFrame ==
  ASSUME Inv, UNCHANGED restOfDeduct, unseen' \in Nat, status \in Fulfilled, status' \in Fulfilled,
         audits \subseteq audits', "REBATE" \in audits' => "REBATE" \in audits,
         audits' \subseteq {"REBATE", "REFUND_PENDING", "REFUND_FAILED", "ROLLBACK_FAILED", "REFUND_SUCCESS"},
         balance' \in Int, held' \in 0 .. Amount, refund' \in [Admins -> RefundStates],
         gateway' \in {"none", "pending", "refunded", "failed"},
         faults' \in 0 .. MaxFaults, swallowed' \in BOOLEAN, swallowed => swallowed'
  PROVE  TypeOK' /\ CodeSound' /\ WorkersSound' /\ AckedIsCredited'
<1> USE DEF Inv
<1>1. TypeOK'
  BY DEF TypeOK, restOfDeduct
<1>2. CodeSound'
  BY DEF CodeSound, restOfDeduct
<1>3. WorkersSound'
  BY DEF WorkersSound, WorkerSound, At, restOfDeduct, Fulfilled, RefundStatus
<1>4. AckedIsCredited'
  BY DEF AckedIsCredited, restOfDeduct
<1> QED
  BY <1>1, <1>2, <1>3, <1>4

\* refund d comes to p with amount a
RefundMoved(d, p, a) ==
  /\ refund' \in [Admins -> RefundStates]
  /\ refund'[d].pc = p /\ refund'[d].amount = a
  /\ \A e \in Admins \ {d} : refund'[e] = refund[e]

RefundPcs == {"idle", "lock", "deduct", "call", "rollback", "restore", "failed", "ok", "pend",
              "query", "final ok", "final fail", "final mark"}

LEMMA RefundFacts ==
  ASSUME Inv, NEW d \in Admins
  PROVE  /\ refund[d] \in RefundStates /\ refund[d].pc \in RefundPcs
         /\ refund[d].amount \in 0 .. Amount /\ refund[d].from \in {"COMPLETED", "REFUND_REQUESTED"}
         /\ NoRefund \in RefundStates /\ NoRefund.pc = "idle" /\ NoRefund.amount = 0
<1>1. refund[d] \in RefundStates
  BY DEF Inv, TypeOK
<1>2. /\ refund[d].pc \in RefundPcs /\ refund[d].amount \in 0 .. Amount
      /\ refund[d].from \in {"COMPLETED", "REFUND_REQUESTED"}
  BY <1>1 DEF RefundStates, RefundPcs
<1>3. 0 \in 0 .. Amount
  BY OrderAssumption
<1>4. NoRefund \in RefundStates /\ NoRefund.pc = "idle" /\ NoRefund.amount = 0
  BY <1>3 DEF RefundStates, NoRefund
<1> QED
  BY <1>1, <1>2, <1>4

LEMMA SetRefund ==
  ASSUME Inv, NEW d \in Admins, NEW x \in RefundStates, refund' = [refund EXCEPT ![d] = x]
  PROVE  RefundMoved(d, x.pc, x.amount)
BY DEF Inv, TypeOK, RefundMoved

LEMMA EndsMoves ==
  ASSUME Inv, NEW d \in Admins, Ends(d)
  PROVE  RefundMoved(d, "idle", 0)
BY RefundFacts, SetRefund DEF Ends

LEMMA ThenMoves ==
  ASSUME Inv, NEW d \in Admins, NEW p \in RefundPcs, Then(d, p)
  PROVE  RefundMoved(d, p, refund[d].amount)
<1> DEFINE x == [refund[d] EXCEPT !.pc = p]
<1>1. x \in RefundStates /\ x.pc = p /\ x.amount = refund[d].amount
  BY RefundFacts DEF RefundStates, RefundPcs
<1>2. refund' = [refund EXCEPT ![d] = x]
  BY DEF Then
<1> HIDE DEF x
<1> QED
  BY <1>1, <1>2, SetRefund

Alone(d) == \A e \in Admins \ {d} : refund[e].pc \notin Owning

LEMMA OwnerAlone ==
  ASSUME Inv, NEW d \in Admins, refund[d].pc \in Owning \/ status \notin {"REFUNDING", "REFUNDED"}
  PROVE  Alone(d)
BY DEF Inv, RefundsSound, RefundSound, Alone

LEMMA DebtMoves ==
  ASSUME Inv, UNCHANGED restOfRefund, balance' \in Int
  PROVE  Debt \in Int /\ balance \in Int /\ Debt' = Debt + (balance - balance') /\ Debt' \in Int
BY OrderAssumption DEF Inv, TypeOK, Debt, Credited, restOfRefund, restOfDeduct

\* What a step of refund d has to respect for the refunds to stay sound.
LEMMA RefundMoves ==
  ASSUME Inv, NEW d \in Admins, NEW p, NEW a, RefundMoved(d, p, a), Debt \in Int, Debt' \in Int,
         status \in Fulfilled, status' \in Fulfilled,
         status' # status \/ p \in Owning \/ Debt' # Debt => Alone(d),
         p \in Owning => status' = "REFUNDING" \/ (p = "pend" /\ status' = "REFUNDED"),
         p \in Finalizing => a = held' /\ "REFUND_PENDING" \in audits',
         held' = held \/ "REFUND_PENDING" \notin audits,
         status = "REFUND_PENDING" /\ status' = status => held' = held,
         status' = "REFUND_PENDING" => "REFUND_PENDING" \in audits' /\ held' <= Debt',
         0 <= Debt', p \in Holding => a <= Debt',
         audits \subseteq audits', swallowed => swallowed',
         ~ swallowed' =>
           /\ Debt' <= Amount
           /\ "ROLLBACK_FAILED" \notin audits' =>
                /\ status' \in Refundable => Debt' = 0
                /\ status' = "REFUND_PENDING" => Debt' = held'
                /\ p \in {"deduct", "restore"} => Debt' = 0
                /\ p \in Holding => Debt' = a
                /\ p # "failed"
  PROVE  RefundsSound' /\ Backed' /\ OnRecord'
<1> USE DEF Inv
<1>1. RefundsSound'
  <2>1. ASSUME NEW e \in Admins
        PROVE  RefundSound(e)'
    <3>1. CASE e = d
      BY <3>1 DEF RefundMoved, RefundSound, In
    <3>2. CASE e # d
      <4>1. refund'[e] = refund[e] /\ RefundSound(e)
        BY <3>2 DEF RefundMoved, RefundsSound
      <4>2. refund[e].pc \in Owning => status' = status
        BY <3>2 DEF Alone
      <4> QED
        BY <4>1, <4>2 DEF RefundSound, In
    <3> QED
      BY <3>1, <3>2
  <2>2. ASSUME NEW e \in Admins, NEW f \in Admins, refund'[e].pc \in Owning, refund'[f].pc \in Owning
        PROVE  e = f
    BY <2>2 DEF RefundMoved, Alone, RefundsSound
  <2> QED
    BY <2>1, <2>2 DEF RefundsSound
<1>2. ASSUME NEW e \in Admins, e # d, refund'[e].pc \in Owning
      PROVE  refund'[e] = refund[e] /\ refund[e].pc \in Owning /\ Debt' = Debt /\ status' = status
  BY <1>2 DEF RefundMoved, Alone
<1>3. Backed'
  <2>1. ASSUME NEW e \in Admins, refund'[e].pc \in Holding
        PROVE  refund'[e].amount <= Debt'
    BY <1>2, <2>1 DEF RefundMoved, Backed, Holding, Owning
  <2> QED
    BY <2>1 DEF Backed
<1>4. OnRecord'
  <2> SUFFICES ASSUME ~ swallowed', "ROLLBACK_FAILED" \notin audits', NEW e \in Admins
               PROVE  /\ refund'[e].pc \in {"deduct", "restore"} => Debt' = 0
                      /\ refund'[e].pc \in Holding => Debt' = refund'[e].amount
                      /\ refund'[e].pc # "failed"
    BY DEF OnRecord
  <2>1. CASE e = d
    BY <2>1 DEF RefundMoved
  <2>2. CASE e # d
    BY <1>2, <2>2 DEF OnRecord, Holding, Owning
  <2> QED
    BY <2>1, <2>2
<1> QED
  BY <1>1, <1>3, <1>4

StaysFulfilled == status \in Fulfilled /\ status' \in Fulfilled

\* what the steps of a refund leave alone or count, but for a deduction answered
\* with an error
RefundEnv ==
  /\ UNCHANGED restOfRefund
  /\ faults' \in 0 .. MaxFaults
  /\ gateway' \in {"none", "pending", "refunded", "failed"}
  /\ swallowed => swallowed'

LEMMA RefundEnvHolds ==
  ASSUME Inv, NEW d \in Admins,
         \/ \E wanted \in 0 .. Amount : PrepareRefund(d, wanted)
         \/ StartFinalize(d) \/ RefundStep(d) \/ AdminDies(d),
         UNCHANGED unseen
  PROVE  RefundEnv /\ swallowed' \in BOOLEAN
<1>a. ASSUME Deduct(d)
      PROVE  swallowed' = swallowed \/ swallowed' = TRUE
  <2>1. CASE UNCHANGED swallowed \/ Swallow
    BY <2>1 DEF Swallow
  <2>2. CASE swallowed' = (swallowed \/ TakenBefore)
    BY <2>2 DEF Inv, TypeOK, TakenBefore
  <2> QED
    BY <1>a, <2>1, <2>2 DEF Deduct
<1> USE DEF PrepareRefund, StartFinalize, RefundStep, AdminDies, LockRefund, Deduct, GatewayRefund,
            RollbackRefund, RestoreStatus, MarkRefundFailed, MarkRefundOk, MarkRefundPending, QueryRefund,
            FinalizeSuccess, FinalizeFailed, FinalizeMarked
<1>1. UNCHANGED restOfRefund
  BY DEF restOfRefund
<1>2. Fault \/ NoFault
  BY DEF NoFault, Swallow, DeductionFails
<1>3. swallowed' = swallowed \/ swallowed' = TRUE
  <2>1. CASE Deduct(d)
    BY <1>a, <2>1
  <2>2. CASE ~ Deduct(d)
    BY <2>2 DEF Swallow
  <2> QED
    BY <2>1, <2>2
<1>4. gateway' \in {gateway, "pending", "refunded"}
  OBVIOUS
<1>5. gateway' \in {"none", "pending", "refunded", "failed"}
  BY <1>4 DEF Inv, TypeOK
<1>6. (swallowed => swallowed') /\ swallowed' \in BOOLEAN
  BY <1>3 DEF Inv, TypeOK
<1> QED
  BY <1>1, <1>2, <1>5, <1>6, FaultCounted DEF RefundEnv

\* A step of a refund that changes at most the refund itself.
LEMMA QuietRefund ==
  ASSUME Inv, NEW d \in Admins, NEW p, NEW a, RefundMoved(d, p, a), RefundEnv, swallowed' \in BOOLEAN,
         UNCHANGED <<status, balance, audits, held>>, status \in Fulfilled,
         p \in Owning => refund[d].pc \in Owning \ {"pend"},
         p \in Finalizing => a = held /\ "REFUND_PENDING" \in audits,
         p \in Holding => a <= Debt,
         ~ swallowed' /\ "ROLLBACK_FAILED" \notin audits =>
           /\ p \in {"deduct", "restore"} => Debt = 0
           /\ p \in Holding => Debt = a
           /\ p # "failed"
  PROVE  Inv' /\ StaysFulfilled
<1> USE DEF Inv
<1>1. TypeOK' /\ CodeSound' /\ WorkersSound' /\ AckedIsCredited'
  BY RefundFrame DEF RefundEnv, RefundMoved, TypeOK, restOfRefund
<1>2. Debt' = Debt /\ Debt \in Int
  BY DebtMoves DEF RefundEnv, TypeOK, Debt, Credited, restOfRefund, restOfDeduct
<1>3. /\ p \in Owning => Alone(d) /\ status' = "REFUNDING"
      /\ status = "REFUND_PENDING" => "REFUND_PENDING" \in audits /\ held <= Debt
  BY OwnerAlone DEF RefundsSound, RefundSound, Backed
<1>4. ~ swallowed' =>
        /\ Debt' <= Amount
        /\ "ROLLBACK_FAILED" \notin audits =>
             /\ status \in Refundable => Debt' = 0
             /\ status = "REFUND_PENDING" => Debt' = held
  BY <1>2 DEF OnRecord, RefundEnv
<1>5. 0 <= Debt'
  BY <1>2 DEF Backed
<1>6. RefundsSound' /\ Backed' /\ OnRecord'
  BY <1>2, <1>3, <1>4, <1>5, RefundMoves DEF RefundEnv
<1> QED
  BY <1>1, <1>6 DEF StaysFulfilled

\* A step of a refund that owns the row, or takes it while nobody does.
LEMMA OwningRefund ==
  ASSUME Inv, NEW d \in Admins, NEW p, NEW a, RefundMoved(d, p, a), RefundEnv, swallowed' \in BOOLEAN,
         status \in Fulfilled, status' \in Fulfilled,
         refund[d].pc \in Owning \/ status \notin {"REFUNDING", "REFUNDED"},
         audits \subseteq audits',
         audits' \subseteq audits \cup {"REFUND_PENDING", "REFUND_FAILED", "ROLLBACK_FAILED", "REFUND_SUCCESS"},
         balance' \in Int, held' \in 0 .. Amount,
         held' = held \/ "REFUND_PENDING" \notin audits,
         status = "REFUND_PENDING" /\ status' = status => held' = held,
         p \in Owning => status' = "REFUNDING" \/ (p = "pend" /\ status' = "REFUNDED"), p \notin Finalizing,
         status' = "REFUND_PENDING" => "REFUND_PENDING" \in audits' /\ held' <= Debt',
         0 <= Debt', p \in Holding => a <= Debt',
         ~ swallowed' =>
           /\ Debt' <= Amount
           /\ "ROLLBACK_FAILED" \notin audits' =>
                /\ status' \in Refundable => Debt' = 0
                /\ status' = "REFUND_PENDING" => Debt' = held'
                /\ p \in {"deduct", "restore"} => Debt' = 0
                /\ p \in Holding => Debt' = a
                /\ p # "failed"
  PROVE  Inv' /\ StaysFulfilled
<1> USE DEF Inv
<1>1. TypeOK' /\ CodeSound' /\ WorkersSound' /\ AckedIsCredited'
  BY RefundFrame DEF RefundEnv, RefundMoved, TypeOK, restOfRefund
<1>2. Debt \in Int /\ Debt' \in Int
  BY DebtMoves DEF RefundEnv
<1>3. Alone(d)
  BY OwnerAlone
<1>4. RefundsSound' /\ Backed' /\ OnRecord'
  BY <1>2, <1>3, RefundMoves DEF RefundEnv
<1> QED
  BY <1>1, <1>4 DEF StaysFulfilled

\* what a refund under way knows
LEMMA RefundKnows ==
  ASSUME Inv, NEW d \in Admins
  PROVE  /\ refund[d].pc # "idle" => status \in Fulfilled
         /\ refund[d].pc \in Owning \ {"pend"} => status = "REFUNDING"
         /\ refund[d].pc = "pend" => status \in {"REFUNDING", "REFUNDED"}
         /\ refund[d].pc \in Finalizing => refund[d].amount = held /\ "REFUND_PENDING" \in audits
         /\ refund[d].pc \in Holding => refund[d].amount <= Debt
         /\ Debt \in Int /\ 0 <= Debt /\ balance \in Int /\ held \in 0 .. Amount
         /\ refund[d].amount \in 0 .. Amount /\ Amount \in Nat
         /\ ~ swallowed => Debt <= Amount
         /\ ~ swallowed /\ "ROLLBACK_FAILED" \notin audits =>
              /\ refund[d].pc \in {"deduct", "restore"} => Debt = 0
              /\ refund[d].pc \in Holding => Debt = refund[d].amount
              /\ refund[d].pc # "failed"
<1> USE DEF Inv
<1>1. /\ refund[d].pc # "idle" => status \in Fulfilled
      /\ refund[d].pc \in Owning \ {"pend"} => status = "REFUNDING"
      /\ refund[d].pc = "pend" => status \in {"REFUNDING", "REFUNDED"}
      /\ refund[d].pc \in Finalizing => refund[d].amount = held /\ "REFUND_PENDING" \in audits
  BY DEF RefundsSound, RefundSound, In, Owning
<1>2. /\ refund[d].pc \in Holding => refund[d].amount <= Debt
      /\ 0 <= Debt
  BY DEF Backed
<1>3. /\ balance \in Int /\ held \in 0 .. Amount /\ spent \in Nat /\ unseen \in Nat
      /\ Amount \in Nat /\ Deposit \in Nat
  BY OrderAssumption DEF TypeOK
<1>4. Debt \in Int
  BY <1>3 DEF Debt, Credited
<1>5. /\ ~ swallowed => Debt <= Amount
      /\ ~ swallowed /\ "ROLLBACK_FAILED" \notin audits =>
           /\ refund[d].pc \in {"deduct", "restore"} => Debt = 0
           /\ refund[d].pc \in Holding => Debt = refund[d].amount
           /\ refund[d].pc # "failed"
  BY DEF OnRecord
<1> QED
  BY <1>1, <1>2, <1>3, <1>4, <1>5, RefundFacts

LEMMA StartingRefund ==
  ASSUME Inv, NEW d \in Admins, (\E wanted \in 0 .. Amount : PrepareRefund(d, wanted)) \/ StartFinalize(d)
  PROVE  Inv' /\ StaysFulfilled
<1>1. RefundEnv /\ swallowed' \in BOOLEAN
  BY RefundEnvHolds DEF PrepareRefund, StartFinalize, restOfRefund
<1>2. CASE \E wanted \in 0 .. Amount : PrepareRefund(d, wanted)
  <2>1. PICK wanted \in 0 .. Amount : PrepareRefund(d, wanted)
    BY <1>2
  <2> DEFINE x == [pc |-> "lock", from |-> RestoredTo, amount |-> Covered(wanted)]
  <2>2. Covered(wanted) \in 0 .. Amount
    BY RefundKnows DEF Covered
  <2>3. x \in RefundStates /\ x.pc = "lock"
    BY <2>2 DEF RefundStates, RestoredTo
  <2>4. /\ refund' = [refund EXCEPT ![d] = x] /\ status \in Fulfilled
        /\ UNCHANGED <<status, balance, audits, held>>
    BY <2>1 DEF PrepareRefund, Refundable, Fulfilled, RefundStatus
  <2> HIDE DEF x
  <2>5. RefundMoved(d, "lock", x.amount)
    BY <2>3, <2>4, SetRefund
  <2> QED
    BY <1>1, <2>4, <2>5, QuietRefund DEF Owning, Finalizing, Holding
<1>3. CASE StartFinalize(d)
  <2> DEFINE x == [NoRefund EXCEPT !.pc = "query", !.amount = held]
  <2>1. x \in RefundStates /\ x.pc = "query" /\ x.amount = held
    BY RefundFacts, RefundKnows DEF RefundStates
  <2>2. /\ refund' = [refund EXCEPT ![d] = x] /\ status \in Fulfilled
        /\ UNCHANGED <<status, balance, audits, held>> /\ "REFUND_PENDING" \in audits
    BY <1>3 DEF StartFinalize, Fulfilled, RefundStatus, Inv, RefundsSound
  <2> HIDE DEF x
  <2>3. RefundMoved(d, "query", held)
    BY <2>1, <2>2, SetRefund
  <2> QED
    BY <1>1, <2>2, <2>3, QuietRefund DEF Owning, Finalizing, Holding
<1> QED
  BY <1>2, <1>3

\* A refund that gives up where it is.
LEMMA QuietEnd ==
  ASSUME Inv, NEW d \in Admins, RefundEnv, swallowed' \in BOOLEAN, refund[d].pc # "idle", Ends(d),
         UNCHANGED <<status, balance, audits, held>>
  PROVE  Inv' /\ StaysFulfilled
<1>1. RefundMoved(d, "idle", 0)
  BY EndsMoves
<1> QED
  BY <1>1, QuietRefund, RefundKnows DEF Owning, Finalizing, Holding

LEMMA LockStep ==
  ASSUME Inv, NEW d \in Admins, LockRefund(d)
  PROVE  Inv' /\ StaysFulfilled
<1>1. RefundEnv /\ swallowed' = swallowed /\ swallowed' \in BOOLEAN
  BY RefundEnvHolds DEF RefundStep, LockRefund, restOfRefund
<1>2. CASE StillRefundable
  <2>1. /\ status \in Refundable /\ status' = "REFUNDING" /\ Then(d, "deduct")
        /\ UNCHANGED <<balance, audits, held>>
    BY <1>2 DEF LockRefund, StillRefundable
  <2>2. RefundMoved(d, "deduct", refund[d].amount)
    BY <2>1, ThenMoves DEF RefundPcs
  <2>3. Debt' = Debt
    BY <1>1, <2>1 DEF Debt, Credited, RefundEnv, restOfRefund, restOfDeduct
  <2>4. ~ swallowed /\ "ROLLBACK_FAILED" \notin audits => Debt = 0
    BY <2>1 DEF Inv, OnRecord
  <2> QED
    BY <1>1, <2>1, <2>2, <2>3, <2>4, OwningRefund, RefundKnows
    DEF Owning, Finalizing, Holding, Refundable, Fulfilled, RefundStatus
<1>3. CASE ~ StillRefundable
  BY <1>1, <1>3, QuietEnd DEF LockRefund, In
<1> QED
  BY <1>2, <1>3

LEMMA DeductStep ==
  ASSUME Inv, NEW d \in Admins, Deduct(d)
  PROVE  Inv' /\ StaysFulfilled
<1>0. /\ refund[d].pc = "deduct" /\ UNCHANGED <<restOfDeduct, status, audits, held, gateway>>
      /\ status = "REFUNDING" /\ Available(d) \in 0 .. Amount /\ balance \in Int
  <2>1. refund[d].pc = "deduct" /\ UNCHANGED <<restOfDeduct, status, audits, held, gateway>>
    BY DEF Deduct, In
  <2> QED
    BY <2>1, RefundKnows DEF Owning, Available, Covered
<1>1. ASSUME UNCHANGED unseen
      PROVE  RefundEnv /\ swallowed' \in BOOLEAN
  BY <1>1, RefundEnvHolds DEF RefundStep
<1> DEFINE Called(a) == refund' = [refund EXCEPT ![d] = [refund[d] EXCEPT !.pc = "call", !.amount = a]]
<1>2. ASSUME NEW a \in 0 .. Amount, Called(a)
      PROVE  RefundMoved(d, "call", a)
  <2> DEFINE x == [refund[d] EXCEPT !.pc = "call", !.amount = a]
  <2>1. x \in RefundStates /\ x.pc = "call" /\ x.amount = a
    BY RefundFacts DEF RefundStates
  <2>2. refund' = [refund EXCEPT ![d] = x]
    BY <1>2
  <2> HIDE DEF x
  <2> QED
    BY <2>1, <2>2, SetRefund
<1>a. \/ Called(0) /\ UNCHANGED <<balance, unseen, swallowed>>
      \/ /\ Called(Available(d)) /\ balance' = balance - Available(d) /\ UNCHANGED unseen
         /\ (~ TakenBefore /\ UNCHANGED swallowed) \/ Swallow
      \/ Then(d, "restore") /\ UNCHANGED <<balance, unseen>> /\ (swallowed => swallowed')
      \/ /\ Then(d, "restore") /\ Fault /\ swallowed' = (swallowed \/ TakenBefore)
         /\ balance' = balance - Available(d) /\ unseen' = unseen + Available(d)
  BY DEF Deduct, Deducted, DeductionFails
<1> HIDE DEF Called
<1>3. CASE Called(0) /\ UNCHANGED <<balance, unseen, swallowed>>
  <2>1. RefundMoved(d, "call", 0)
    BY <1>2, <1>3, RefundKnows
  <2> QED
    BY <1>0, <1>1, <1>3, <2>1, QuietRefund, RefundKnows DEF Owning, Finalizing, Holding
<1>4. CASE /\ Called(Available(d)) /\ balance' = balance - Available(d) /\ UNCHANGED unseen
           /\ (~ TakenBefore /\ UNCHANGED swallowed) \/ Swallow
  <2> DEFINE a == Available(d)
  <2>1. a \in 0 .. Amount
    BY <1>0
  <2>0. RefundEnv /\ swallowed' \in BOOLEAN
    BY <1>1, <1>4
  <2> HIDE DEF a
  <2>2. RefundMoved(d, "call", a) /\ balance' = balance - a
    BY <1>2, <1>4, <2>1 DEF a
  <2>3. balance' \in Int /\ balance \in Int /\ a \in Nat /\ balance - balance' = a
    BY <1>0, <2>1, <2>2, RefundKnows
  <2>4. Debt' = Debt + a
    BY <2>0, <2>3, DebtMoves DEF RefundEnv
  <2>5. ~ swallowed' => ~ swallowed /\ "ROLLBACK_FAILED" \notin audits
    BY <1>4 DEF TakenBefore, Swallow
  <2>6. /\ Debt \in Int /\ 0 <= Debt /\ a <= Amount /\ held \in 0 .. Amount
        /\ ~ swallowed' => Debt = 0
    BY <1>0, <2>1, <2>5, RefundKnows
  <2>7. /\ 0 <= Debt' /\ a <= Debt' /\ (~ swallowed' => Debt' = a /\ Debt' <= Amount)
    BY <2>3, <2>4, <2>6, RefundKnows
  <2> QED
    BY <1>0, <2>0, <2>2, <2>3, <2>6, <2>7, OwningRefund
    DEF Owning, Finalizing, Holding, Fulfilled, RefundStatus, Refundable
<1>5. CASE Then(d, "restore") /\ UNCHANGED <<balance, unseen>> /\ (swallowed => swallowed')
  <2>1. RefundMoved(d, "restore", refund[d].amount)
    BY <1>5, ThenMoves DEF RefundPcs
  <2> QED
    BY <1>0, <1>1, <1>5, <2>1, QuietRefund, RefundKnows DEF Owning, Finalizing, Holding
<1>6. CASE /\ Then(d, "restore") /\ Fault /\ swallowed' = (swallowed \/ TakenBefore)
           /\ balance' = balance - Available(d) /\ unseen' = unseen + Available(d)
  <2> DEFINE a == Available(d)
  <2>0. RefundMoved(d, "restore", refund[d].amount)
    BY <1>6, ThenMoves DEF RefundPcs
  <2>1. /\ RefundMoved(d, "restore", refund[d].amount) /\ status \in Fulfilled
        /\ a \in Nat /\ unseen \in Nat /\ balance \in Int /\ spent \in Nat
    BY <1>0, <2>0, OrderAssumption DEF Fulfilled, RefundStatus, Inv, TypeOK
  <2>2. balance' = balance - a /\ unseen' = unseen + a
    BY <1>6
  <2> HIDE DEF a
  <2>3. balance' \in Int /\ unseen' \in Nat
    BY <2>1, <2>2
  <2>s. swallowed' \in BOOLEAN /\ (swallowed => swallowed')
    BY <1>6 DEF TakenBefore
  <2>4. Debt' = Debt
    <3>1. Credited' = Credited /\ spent' = spent /\ Credited \in Nat /\ Deposit \in Nat
      BY <1>0, OrderAssumption DEF Credited, restOfDeduct
    <3>2. balance' + spent + unseen' = balance + spent + unseen
      BY <2>1, <2>2
    <3> QED
      BY <3>1, <3>2 DEF Debt
  <2>5. TypeOK' /\ CodeSound' /\ WorkersSound' /\ AckedIsCredited'
    BY <1>0, <1>6, <2>1, <2>3, <2>s, FaultCounted, RefundFrame DEF RefundMoved, Inv, TypeOK
  <2>6. /\ Debt \in Int /\ 0 <= Debt /\ Alone(d)
        /\ ~ swallowed => Debt <= Amount
        /\ ~ swallowed /\ "ROLLBACK_FAILED" \notin audits => Debt = 0
    BY <1>0, RefundKnows, OwnerAlone DEF Owning
  <2>7. RefundsSound' /\ Backed' /\ OnRecord'
    BY <1>0, <2>1, <2>4, <2>6, <2>s, RefundMoves DEF Owning, Finalizing, Holding, Refundable
  <2> QED
    BY <1>0, <2>1, <2>5, <2>7 DEF Inv, StaysFulfilled
<1> QED
  BY <1>a, <1>3, <1>4, <1>5, <1>6

LEMMA GatewayStep ==
  ASSUME Inv, NEW d \in Admins, GatewayRefund(d)
  PROVE  Inv' /\ StaysFulfilled
<1>1. /\ RefundEnv /\ swallowed' \in BOOLEAN
      /\ refund[d].pc = "call" /\ UNCHANGED <<status, audits, held, balance, swallowed>>
  BY RefundEnvHolds DEF RefundStep, GatewayRefund, restOfRefund, In
<1>2. PICK p \in {"ok", "pend", "rollback"} : Then(d, p)
  BY DEF GatewayRefund
<1>3. RefundMoved(d, p, refund[d].amount)
  BY <1>2, ThenMoves DEF RefundPcs
<1> QED
  BY <1>1, <1>3, QuietRefund, RefundKnows DEF Owning, Finalizing, Holding

LEMMA RollbackStep ==
  ASSUME Inv, NEW d \in Admins, RollbackRefund(d)
  PROVE  Inv' /\ StaysFulfilled
<1>1. /\ RefundEnv /\ swallowed' \in BOOLEAN
      /\ refund[d].pc = "rollback" /\ UNCHANGED <<status, held>>
  BY RefundEnvHolds DEF RefundStep, RollbackRefund, restOfRefund, In
<1> DEFINE a == refund[d].amount
<1>2. /\ status = "REFUNDING" /\ a \in 0 .. Amount /\ a <= Debt /\ Debt \in Int /\ Amount \in Nat /\ balance \in Int
      /\ ~ swallowed /\ "ROLLBACK_FAILED" \notin audits => Debt = a
      /\ ~ swallowed => Debt <= Amount
      /\ held \in 0 .. Amount
  BY <1>1, RefundKnows DEF Owning, Holding
<1>3. CASE balance' = balance + refund[d].amount /\ Then(d, "restore") /\ UNCHANGED <<audits, swallowed>>
  <2>1. RefundMoved(d, "restore", a)
    BY <1>3, ThenMoves DEF RefundPcs
  <2> HIDE DEF a
  <2>2. balance' \in Int /\ balance - balance' = - a
    BY <1>2, <1>3 DEF a
  <2>3. Debt' = Debt - a
    BY <1>1, <1>2, <2>2, DebtMoves DEF RefundEnv
  <2>4. 0 <= Debt' /\ (Debt <= Amount => Debt' <= Amount) /\ (Debt = a => Debt' = 0)
    BY <1>2, <2>3
  <2> QED
    BY <1>1, <1>2, <1>3, <2>1, <2>2, <2>4, OwningRefund DEF Owning, Finalizing, Holding, Fulfilled, RefundStatus, Refundable
<1>4. CASE /\ Then(d, "failed") /\ balance' \in {balance, balance + refund[d].amount}
           /\ \/ audits' = audits \cup {"ROLLBACK_FAILED"} /\ UNCHANGED swallowed
              \/ Swallow /\ UNCHANGED audits
  <2>1. RefundMoved(d, "failed", a)
    BY <1>4, ThenMoves DEF RefundPcs
  <2> HIDE DEF a
  <2>0. balance' = balance \/ balance' = balance + a
    BY <1>4 DEF a
  <2>2. balance' \in Int /\ (balance - balance' = 0 \/ balance - balance' = - a)
    BY <1>2, <2>0
  <2>3. Debt' = Debt + (balance - balance')
    BY <1>1, <2>2, DebtMoves DEF RefundEnv
  <2>4. 0 <= Debt' /\ (~ swallowed' => Debt' <= Amount)
    <3>0. Debt' = Debt \/ Debt' = Debt - a
      <4>1. CASE balance - balance' = 0
        BY <1>2, <2>3, <4>1
      <4>2. CASE balance - balance' = - a
        BY <1>2, <2>3, <4>2
      <4> QED
        BY <2>2, <4>1, <4>2
    <3>1. 0 <= Debt' /\ (Debt <= Amount => Debt' <= Amount)
      BY <1>2, <3>0, RefundKnows
    <3> QED
      BY <1>1, <1>2, <3>1 DEF RefundEnv
  <2>5. /\ audits \subseteq audits' /\ (~ swallowed' => "ROLLBACK_FAILED" \in audits')
        /\ audits' \subseteq audits \cup {"REFUND_PENDING", "REFUND_FAILED", "ROLLBACK_FAILED", "REFUND_SUCCESS"}
    BY <1>4 DEF Swallow
  <2> QED
    BY <1>1, <1>2, <2>1, <2>2, <2>4, <2>5, OwningRefund
    DEF Owning, Finalizing, Holding, Fulfilled, RefundStatus, Refundable
<1> QED
  BY <1>3, <1>4 DEF RollbackRefund

\* A refund ends and leaves the row in status s with more audit rows.
LEMMA EndingStep ==
  ASSUME Inv, NEW d \in Admins, RefundEnv, swallowed' \in BOOLEAN, refund[d].pc # "idle", Ends(d),
         status' \in Fulfilled, refund[d].pc \in Owning \/ status \notin {"REFUNDING", "REFUNDED"},
         UNCHANGED balance, audits \subseteq audits',
         audits' \subseteq audits \cup {"REFUND_PENDING", "REFUND_FAILED", "ROLLBACK_FAILED", "REFUND_SUCCESS"},
         held' \in 0 .. Amount, held' = held \/ "REFUND_PENDING" \notin audits,
         status = "REFUND_PENDING" /\ status' = status => held' = held,
         status' = "REFUND_PENDING" => "REFUND_PENDING" \in audits' /\ held' <= Debt,
         ~ swallowed' /\ "ROLLBACK_FAILED" \notin audits' =>
           /\ status' \in Refundable => Debt = 0
           /\ status' = "REFUND_PENDING" => Debt = held'
  PROVE  Inv' /\ StaysFulfilled
<1>1. RefundMoved(d, "idle", 0)
  BY EndsMoves
<1>2. Debt' = Debt
  BY DEF Debt, Credited, RefundEnv, restOfRefund, restOfDeduct
<1>3. /\ 0 <= Debt' /\ (~ swallowed' => Debt' <= Amount) /\ balance' \in Int /\ status \in Fulfilled
  BY <1>2, RefundKnows DEF RefundEnv
<1> QED
  BY <1>1, <1>2, <1>3, OwningRefund DEF Owning, Finalizing, Holding

LEMMA RestoreStep ==
  ASSUME Inv, NEW d \in Admins, RestoreStatus(d)
  PROVE  Inv' /\ StaysFulfilled
<1>1. /\ RefundEnv /\ swallowed' \in BOOLEAN
      /\ refund[d].pc = "restore" /\ Ends(d) /\ UNCHANGED <<balance, audits, held>>
  BY RefundEnvHolds DEF RefundStep, RestoreStatus, restOfRefund, In
<1>2. /\ status = "REFUNDING" /\ held \in 0 .. Amount /\ refund[d].from \in {"COMPLETED", "REFUND_REQUESTED"}
      /\ ~ swallowed /\ "ROLLBACK_FAILED" \notin audits => Debt = 0
  BY <1>1, RefundKnows, RefundFacts DEF Owning
<1>3. CASE status' = refund[d].from /\ UNCHANGED swallowed
  BY <1>1, <1>2, <1>3, EndingStep DEF Owning, Fulfilled, RefundStatus
<1>4. CASE UNCHANGED status
  BY <1>1, <1>4, QuietEnd
<1> QED
  BY <1>3, <1>4 DEF RestoreStatus

LEMMA FailedStep ==
  ASSUME Inv, NEW d \in Admins, MarkRefundFailed(d)
  PROVE  Inv' /\ StaysFulfilled
<1>1. /\ RefundEnv /\ swallowed' \in BOOLEAN
      /\ refund[d].pc = "failed" /\ Ends(d) /\ UNCHANGED <<balance, held>>
      /\ audits' \in {audits, audits \cup {"REFUND_FAILED"}}
      /\ status' \in {"REFUND_FAILED", status}
  BY RefundEnvHolds DEF RefundStep, MarkRefundFailed, restOfRefund, In
<1>2. /\ status = "REFUNDING" /\ held \in 0 .. Amount
      /\ ~ (~ swallowed /\ "ROLLBACK_FAILED" \notin audits)
  BY <1>1, RefundKnows DEF Owning
<1>3. /\ audits \subseteq audits' /\ ~ (~ swallowed' /\ "ROLLBACK_FAILED" \notin audits')
      /\ audits' \subseteq audits \cup {"REFUND_PENDING", "REFUND_FAILED", "ROLLBACK_FAILED", "REFUND_SUCCESS"}
  BY <1>1, <1>2 DEF RefundEnv
<1>4. status' \in Fulfilled /\ status' # "REFUND_PENDING"
  BY <1>1, <1>2 DEF Fulfilled, RefundStatus
<1> QED
  BY <1>1, <1>2, <1>3, <1>4, EndingStep DEF Owning

LEMMA OkStep ==
  ASSUME Inv, NEW d \in Admins, MarkRefundOk(d)
  PROVE  Inv' /\ StaysFulfilled
<1>1. /\ RefundEnv /\ swallowed' \in BOOLEAN
      /\ refund[d].pc = "ok" /\ UNCHANGED <<balance, held, gateway, swallowed>>
  BY RefundEnvHolds DEF RefundStep, MarkRefundOk, restOfRefund, In
<1>2. status = "REFUNDING" /\ held \in 0 .. Amount
  BY <1>1, RefundKnows DEF Owning
<1>3. CASE status' = "REFUNDED" /\ audits' = audits \cup {"REFUND_SUCCESS"} /\ Ends(d)
  <2>1. /\ audits \subseteq audits'
        /\ audits' \subseteq audits \cup {"REFUND_PENDING", "REFUND_FAILED", "ROLLBACK_FAILED", "REFUND_SUCCESS"}
    BY <1>3
  <2> QED
    BY <1>1, <1>2, <1>3, <2>1, EndingStep DEF Owning, Fulfilled, RefundStatus, Refundable
<1>4. CASE Then(d, "pend") /\ UNCHANGED <<status, audits>>
  <2>1. RefundMoved(d, "pend", refund[d].amount)
    BY <1>4, ThenMoves DEF RefundPcs
  <2> QED
    BY <1>1, <1>4, <2>1, QuietRefund, RefundKnows DEF Owning, Finalizing, Holding
<1>5. CASE RecordSuccess /\ Then(d, "pend")
  <2>1. RefundMoved(d, "pend", refund[d].amount)
    BY <1>5, ThenMoves DEF RefundPcs
  <2>2. /\ audits \subseteq audits' /\ status' = "REFUNDED" /\ status' \in Fulfilled
        /\ audits' \subseteq audits \cup {"REFUND_PENDING", "REFUND_FAILED", "ROLLBACK_FAILED", "REFUND_SUCCESS"}
        /\ "ROLLBACK_FAILED" \notin audits' => "ROLLBACK_FAILED" \notin audits
    BY <1>5 DEF RecordSuccess, Fulfilled, RefundStatus
  <2>3. Debt' = Debt /\ balance' \in Int
    BY <1>1, RefundKnows DEF Debt, Credited, RefundEnv, restOfRefund, restOfDeduct
  <2> QED
    BY <1>1, <1>2, <2>1, <2>2, <2>3, OwningRefund, RefundKnows
    DEF Owning, Finalizing, Holding, Fulfilled, RefundStatus, Refundable
<1> QED
  BY <1>3, <1>4, <1>5 DEF MarkRefundOk, RecordSuccess

LEMMA PendingStep ==
  ASSUME Inv, NEW d \in Admins, MarkRefundPending(d)
  PROVE  Inv' /\ StaysFulfilled
<1>1. /\ RefundEnv /\ swallowed' \in BOOLEAN
      /\ refund[d].pc = "pend" /\ Ends(d) /\ UNCHANGED <<balance, swallowed>>
  BY RefundEnvHolds DEF RefundStep, MarkRefundPending, restOfRefund, In
<1> DEFINE a == refund[d].amount
<1>2. /\ status \in {"REFUNDING", "REFUNDED"} /\ a \in 0 .. Amount /\ a <= Debt
      /\ ~ swallowed /\ "ROLLBACK_FAILED" \notin audits => Debt = a
  BY <1>1, RefundKnows DEF Owning, Holding
<1>3. CASE /\ "REFUND_PENDING" \notin audits /\ status' = "REFUND_PENDING"
           /\ audits' = audits \cup {"REFUND_PENDING"} /\ held' = a
  <2>1. /\ audits \subseteq audits' /\ "REFUND_PENDING" \in audits'
        /\ audits' \subseteq audits \cup {"REFUND_PENDING", "REFUND_FAILED", "ROLLBACK_FAILED", "REFUND_SUCCESS"}
    BY <1>3
  <2>2. ~ swallowed' /\ "ROLLBACK_FAILED" \notin audits' => Debt = held'
    BY <1>1, <1>2, <1>3
  <2> HIDE DEF a
  <2>3. held' \in 0 .. Amount /\ held' <= Debt
    BY <1>2, <1>3
  <2> QED
    BY <1>1, <1>2, <1>3, <2>1, <2>2, <2>3, EndingStep DEF Owning, Fulfilled, RefundStatus, Refundable
<1>4. CASE UNCHANGED <<status, audits, held>>
  BY <1>1, <1>4, QuietEnd
<1> QED
  BY <1>3, <1>4 DEF MarkRefundPending, Hold

LEMMA QueryRefundStep ==
  ASSUME Inv, NEW d \in Admins, QueryRefund(d)
  PROVE  Inv' /\ StaysFulfilled
<1>1. /\ RefundEnv /\ swallowed' \in BOOLEAN
      /\ refund[d].pc = "query" /\ UNCHANGED <<status, balance, audits, held>>
  BY RefundEnvHolds DEF RefundStep, QueryRefund, restOfRefund, In
<1>2. CASE Ends(d)
  BY <1>1, <1>2, QuietEnd
<1>3. ASSUME NEW p \in {"final ok", "final fail"}, Then(d, p)
      PROVE  Inv' /\ StaysFulfilled
  <2>1. RefundMoved(d, p, refund[d].amount)
    BY <1>3, ThenMoves DEF RefundPcs
  <2> QED
    BY <1>1, <2>1, QuietRefund, RefundKnows DEF Owning, Finalizing, Holding
<1> QED
  BY <1>2, <1>3 DEF QueryRefund

LEMMA FinalSuccessStep ==
  ASSUME Inv, NEW d \in Admins, FinalizeSuccess(d)
  PROVE  Inv' /\ StaysFulfilled
<1>1. /\ RefundEnv /\ swallowed' \in BOOLEAN
      /\ refund[d].pc = "final ok" /\ Ends(d) /\ UNCHANGED <<balance, held, swallowed>>
  BY RefundEnvHolds DEF RefundStep, FinalizeSuccess, restOfRefund, In
<1>2. CASE status = "REFUND_PENDING" /\ status' = "REFUNDED" /\ audits' = audits \cup {"REFUND_SUCCESS"}
  <2>1. /\ audits \subseteq audits'
        /\ audits' \subseteq audits \cup {"REFUND_PENDING", "REFUND_FAILED", "ROLLBACK_FAILED", "REFUND_SUCCESS"}
    BY <1>2
  <2>2. held \in 0 .. Amount
    BY RefundKnows
  <2> QED
    BY <1>1, <1>2, <2>1, <2>2, EndingStep DEF Fulfilled, RefundStatus, Refundable
<1>3. CASE UNCHANGED <<status, audits>>
  BY <1>1, <1>3, QuietEnd
<1> QED
  BY <1>2, <1>3 DEF FinalizeSuccess, MayRecordSuccess, RecordSuccess, ClaimsPending

LEMMA FinalFailedStep ==
  ASSUME Inv, NEW d \in Admins, FinalizeFailed(d)
  PROVE  Inv' /\ StaysFulfilled
<1>1. /\ RefundEnv /\ swallowed' \in BOOLEAN
      /\ refund[d].pc = "final fail" /\ UNCHANGED <<held, swallowed>>
  BY RefundEnvHolds DEF RefundStep, FinalizeFailed, restOfRefund, In
<1>2. CASE /\ status = "REFUND_PENDING" /\ Ends(d) /\ status' = "REFUND_FAILED"
           /\ audits' = audits \cup {"REFUND_FAILED"} /\ balance' = balance + refund[d].amount
  <2>1. /\ audits \subseteq audits' /\ ("ROLLBACK_FAILED" \notin audits' => "ROLLBACK_FAILED" \notin audits)
        /\ audits' \subseteq audits \cup {"REFUND_PENDING", "REFUND_FAILED", "ROLLBACK_FAILED", "REFUND_SUCCESS"}
    BY <1>2
  <2>2. /\ refund[d].amount = held /\ held \in 0 .. Amount /\ Amount \in Nat /\ balance \in Int
        /\ Debt \in Int
    BY <1>1, RefundKnows DEF Finalizing
  <2>3. /\ held <= Debt /\ (~ swallowed => Debt <= Amount)
        /\ ~ swallowed /\ "ROLLBACK_FAILED" \notin audits => Debt = held
    BY <1>2 DEF Inv, Backed, OnRecord
  <2>4. balance' \in Int /\ balance - balance' = - held
    BY <1>2, <2>2
  <2>5. Debt' = Debt - held
    BY <1>1, <2>2, <2>4, DebtMoves DEF RefundEnv
  <2>6. /\ 0 <= Debt' /\ (~ swallowed' => Debt' <= Amount)
        /\ ~ swallowed' /\ "ROLLBACK_FAILED" \notin audits' => Debt' = 0
    <3>1. 0 <= Debt' /\ (Debt <= Amount => Debt' <= Amount) /\ (Debt = held => Debt' = 0)
      BY <2>2, <2>3, <2>5
    <3> QED
      BY <1>1, <2>1, <2>3, <3>1
  <2>7. RefundMoved(d, "idle", 0)
    BY <1>2, EndsMoves
  <2> QED
    BY <1>1, <1>2, <2>1, <2>2, <2>4, <2>6, <2>7, OwningRefund
    DEF Owning, Holding, Finalizing, Fulfilled, RefundStatus
<1>3. CASE Ends(d) /\ UNCHANGED <<status, balance, audits>>
  BY <1>1, <1>3, QuietEnd
<1>4. CASE Then(d, "final mark") /\ UNCHANGED <<status, balance, audits>>
  <2>1. RefundMoved(d, "final mark", refund[d].amount)
    BY <1>4, ThenMoves DEF RefundPcs
  <2> QED
    BY <1>1, <1>4, <2>1, QuietRefund, RefundKnows DEF Owning, Finalizing, Holding
<1> QED
  BY <1>2, <1>3, <1>4 DEF FinalizeFailed, ClaimsPending

LEMMA FinalMarkedStep ==
  ASSUME Inv, NEW d \in Admins, FinalizeMarked(d)
  PROVE  Inv' /\ StaysFulfilled
<1>1. /\ RefundEnv /\ swallowed' \in BOOLEAN
      /\ refund[d].pc = "final mark" /\ Ends(d) /\ UNCHANGED <<balance, held, swallowed>>
  BY RefundEnvHolds DEF RefundStep, FinalizeMarked, restOfRefund, In
<1>2. CASE /\ status = "REFUND_PENDING" /\ status' = "REFUND_FAILED"
           /\ audits' = audits \cup {"REFUND_FAILED", "ROLLBACK_FAILED"}
  <2>1. /\ audits \subseteq audits' /\ "ROLLBACK_FAILED" \in audits'
        /\ audits' \subseteq audits \cup {"REFUND_PENDING", "REFUND_FAILED", "ROLLBACK_FAILED", "REFUND_SUCCESS"}
    BY <1>2
  <2>2. held \in 0 .. Amount
    BY RefundKnows
  <2> QED
    BY <1>1, <1>2, <2>1, <2>2, EndingStep DEF Fulfilled, RefundStatus
<1>3. CASE UNCHANGED <<status, audits>>
  BY <1>1, <1>3, QuietEnd
<1> QED
  BY <1>2, <1>3 DEF FinalizeMarked, ClaimsPending

LEMMA AdminDiesStep ==
  ASSUME Inv, NEW d \in Admins, AdminDies(d)
  PROVE  Inv' /\ StaysFulfilled
<1>1. RefundEnv /\ swallowed' \in BOOLEAN
  BY RefundEnvHolds DEF AdminDies, restOfRefund
<1> QED
  BY <1>1, QuietEnd DEF AdminDies

LEMMA RequestStep ==
  ASSUME Inv, RequestRefund
  PROVE  Inv' /\ StaysFulfilled
<1> USE DEF Inv
<1>1. /\ status = "COMPLETED" /\ status' = "REFUND_REQUESTED" /\ UNCHANGED <<audits, held, refund>>
      /\ UNCHANGED <<gateway, faults, swallowed, balance>>
  BY DEF RequestRefund, moneyVars
<1>2. UNCHANGED restOfRefund
  BY DEF RequestRefund, restOfRefund, restOfDeduct, moneyVars
<1>3. status \in Fulfilled /\ status' \in Fulfilled
  BY <1>1 DEF Fulfilled, RefundStatus
<1>4. TypeOK' /\ CodeSound' /\ WorkersSound' /\ AckedIsCredited'
  BY <1>1, <1>2, <1>3, RefundFrame DEF TypeOK, restOfRefund
<1>5. Debt' = Debt
  BY <1>1, <1>2 DEF Debt, Credited, restOfRefund, restOfDeduct
<1>6. RefundsSound'
  BY <1>1, <1>3 DEF RefundsSound, RefundSound, In
<1>7. Backed'
  BY <1>1, <1>3, <1>5 DEF Backed
<1>8. OnRecord'
  BY <1>1, <1>5 DEF OnRecord, Refundable
<1> QED
  BY <1>1, <1>3, <1>4, <1>6, <1>7, <1>8 DEF StaysFulfilled

-----------------------------------------------------------------------------
(* The theorems. *)

LEMMA RefundStepSound ==
  ASSUME Inv, NEW d \in Admins, RefundStep(d)
  PROVE  Inv' /\ StaysFulfilled
BY LockStep, DeductStep, GatewayStep, RollbackStep, RestoreStep, FailedStep, OkStep, PendingStep,
   QueryRefundStep, FinalSuccessStep, FinalFailedStep, FinalMarkedStep DEF RefundStep

LEMMA WorkerStepSound ==
  ASSUME Inv, NEW w \in Workers, WorkerStep(w)
  PROVE  Inv' /\ StatusMoves
BY QueryStep, CancelStep, TradeStep, ToPaidStep, ProcessedStep, ClaimStep, CreateStep, RedeemStep,
   RebateStep, MarkStep DEF WorkerStep

\* What a step may do to the order.
StepMoves == StatusMoves \/ StaysFulfilled

LEMMA NextInv ==
  ASSUME Inv, [Next]_vars
  PROVE  Inv' /\ StepMoves
<1>1. CASE Age \/ Pay \/ Settle
  BY <1>1, OutsideStep DEF StepMoves
<1>2. CASE Spend
  BY <1>2, SpendStep DEF StepMoves
<1>3. CASE RequestRefund
  BY <1>3, RequestStep DEF StepMoves
<1>4. ASSUME NEW w \in Workers,
             \/ \E kind \in {"CANCELLED", "EXPIRED", "internal"} : StartCheck(w, kind)
             \/ Notify(w) \/ Retry(w) \/ WorkerStep(w) \/ WorkerDies(w)
      PROVE  Inv' /\ StepMoves
  BY <1>4, SettingOut, WorkerStepSound DEF StepMoves
<1>5. ASSUME NEW d \in Admins,
             \/ \E wanted \in 0 .. Amount : PrepareRefund(d, wanted)
             \/ StartFinalize(d) \/ RefundStep(d) \/ AdminDies(d)
      PROVE  Inv' /\ StepMoves
  BY <1>5, StartingRefund, RefundStepSound, AdminDiesStep DEF StepMoves
<1>6. CASE UNCHANGED vars
  <2>1. /\ UNCHANGED <<status, aged, charge, acked, code, balance, credits, rebates, spent, unseen>>
        /\ UNCHANGED <<audits, held, worker, refund, gateway, faults, swallowed>>
    BY <1>6 DEF vars, orderVars, moneyVars
  <2>2. Debt' = Debt /\ StatusMoves
    BY <2>1 DEF Debt, Credited, StatusMoves
  <2> USE DEF Inv
  <2>3. TypeOK' /\ CodeSound' /\ AckedIsCredited'
    BY <2>1 DEF TypeOK, CodeSound, AckedIsCredited
  <2>4. WorkersSound' /\ RefundsSound'
    BY <2>1 DEF WorkersSound, WorkerSound, At, RefundsSound, RefundSound, In
  <2>5. Backed' /\ OnRecord'
    BY <2>1, <2>2 DEF Backed, OnRecord
  <2> QED
    BY <2>2, <2>3, <2>4, <2>5 DEF StepMoves
<1> QED
  BY <1>1, <1>2, <1>3, <1>4, <1>5, <1>6 DEF Next

\* The inductive invariant holds in every reachable state.
THEOREM Invariance == Spec => []Inv
<1>1. Inv /\ [Next]_vars => Inv'
  BY NextInv
<1> QED
  BY InitInv, <1>1, PTL DEF Spec

LEMMA DebtIsTaken ==
  ASSUME Inv
  PROVE  Taken = Debt
<1>1. Amount \in Nat
  BY OrderAssumption
<1>2. Credited = credits * Amount
  <2>1. CASE code = "used"
    <3>1. credits = 1 /\ Credited = Amount
      BY <2>1 DEF Inv, CodeSound, Credited
    <3> QED
      BY <1>1, <3>1
  <2>2. CASE code # "used"
    <3>1. credits = 0 /\ Credited = 0
      BY <2>2 DEF Inv, CodeSound, Credited
    <3> QED
      BY <1>1, <3>1
  <2> QED
    BY <2>1, <2>2
<1> QED
  BY <1>2 DEF Taken, Debt

\* However many webhooks, retries, administrators and takeovers of a stale
\* lease fulfil the order (ExecuteBalanceFulfillment, doBalance), the user is
\* credited at most once and the inviter at most once, and a completed order
\* has been credited and rebated exactly once.
THEOREM CreditsOnce == Spec => []CreditedOnce
<1>1. Inv => CreditedOnce
  BY DEF Inv, CodeSound, CreditedOnce
<1> QED
  BY Invariance, <1>1, PTL

\* Whatever refunds fail and are repeated (ExecuteRefund, RollbackRefund,
\* QueryAndFinalizeRefund), they never return more than they took and, unless a
\* failed read was taken for an answer, never hold more than the order's worth;
\* what a deduction took that was answered with an error is not counted, for
\* ExecuteRefund keeps no record of it.
THEOREM DeductionsAreBounded == Spec => []DeductedOnce
<1>1. ASSUME Inv
      PROVE  DeductedOnce
  BY <1>1, DebtIsTaken DEF DeductedOnce, Inv, Backed, OnRecord
<1> QED
  BY Invariance, <1>1, PTL

\* Between the attempts to refund, what is taken from the balance is what the
\* row's status and its audit rows say, so that a later attempt or the final
\* outcome of a pending refund (finalizeRefundFailed) returns exactly that: but
\* for deductions answered with an error, as above.
THEOREM HoldsAreOnRecord == Spec => []HoldOnRecord
<1>1. ASSUME Inv
      PROVE  HoldOnRecord
  BY <1>1, DebtIsTaken DEF HoldOnRecord, Inv, OnRecord
<1> QED
  BY Invariance, <1>1, PTL

\* HandlePaymentNotification lets the provider be told to stop notifying only
\* when the order is fulfilled, the payment came too late, or a failed read was
\* taken for an answer; the handler's own answer when it resolves no provider
\* ("unresolved") is apart from it.
THEOREM AcksAreCredited == Spec => []AckedIsCredited
<1>1. Inv => AckedIsCredited
  BY DEF Inv
<1> QED
  BY Invariance, <1>1, PTL

-----------------------------------------------------------------------------
(* A refund on record. *)

Success == "REFUND_SUCCESS" \in audits

\* a success on record is the gateway's, and nothing is left that could give
\* the deduction back
Recorded ==
  /\ status = "REFUNDED" => Success
  /\ Success => gateway = "refunded" /\ status \in {"REFUNDED", "REFUND_PENDING"}
  /\ \A d \in Admins : refund[d].pc \in {"ok", "final ok"} => gateway = "refunded"
  /\ Success /\ status = "REFUND_PENDING" =>
       \A d \in Admins : refund[d].pc \notin {"final fail", "final mark"}

\* the row after a step, once its success is on record
SuccessStays == status = "REFUNDED" \/ Success => status' \in {"REFUNDED", "REFUND_PENDING"}

\* A step that writes no success, and takes nothing to an outcome.
LEMMA RecordUnmoved ==
  ASSUME Inv, Recorded, Success' = Success, gateway' = gateway \/ ~ Success,
         gateway = "refunded" => gateway' = "refunded",
         status' = "REFUNDED" => status = "REFUNDED",
         Success => status' = status,
         \A d \in Admins : refund'[d].pc \in {"ok", "final ok", "final fail", "final mark"} =>
                             refund'[d].pc = refund[d].pc
  PROVE  Recorded' /\ SuccessStays
BY DEF Recorded, SuccessStays

LEMMA RecordedOfWorkers ==
  ASSUME Inv, Recorded, StatusMoves, UNCHANGED <<refund, gateway>>, Success' = Success
  PROVE  Recorded' /\ SuccessStays
<1>1. status' # status => status \notin Fulfilled /\ status' # "REFUNDED"
  BY DEF StatusMoves, Unpaid, Fulfillable, Fulfilled, RefundStatus
<1> QED
  BY <1>1, RecordUnmoved DEF Recorded, Fulfilled, RefundStatus

LEMMA WorkersKeepRecord ==
  ASSUME Inv, Recorded, NEW w \in Workers, StatusMoves,
         \/ \E kind \in {"CANCELLED", "EXPIRED", "internal"} : StartCheck(w, kind)
         \/ Notify(w) \/ Retry(w) \/ WorkerStep(w) \/ WorkerDies(w)
  PROVE  Recorded' /\ SuccessStays
<1>1. UNCHANGED <<refund, gateway>> /\ audits' \in {audits, audits \cup {"REBATE"}}
  <2>1. CASE WorkerStep(w)
    BY <2>1 DEF WorkerStep, Query, Close, CancelCore, PersistTradeNo, ToPaid, AlreadyProcessed, Fulfil,
       AcquireLease, ReloadLease, LookupCode, CreateCode, RedeemCode, ApplyRebate, Accrue, MarkCompleted,
       MarkFailed, restOfWorker
  <2>2. CASE ~ WorkerStep(w)
    BY <2>2 DEF StartCheck, Notify, Retry, WorkerDies, restOfWorker
  <2> QED
    BY <2>1, <2>2
<1>2. Success' = Success
  BY <1>1 DEF Success
<1> QED
  BY <1>1, <1>2, RecordedOfWorkers

\* refund d comes to one of the steps P
Comes(d, P) == refund'[d].pc \in P /\ \A e \in Admins \ {d} : refund'[e] = refund[e]

LEMMA RefundComes ==
  ASSUME Inv, NEW d \in Admins
  PROVE  /\ Ends(d) => Comes(d, {"idle"})
         /\ \A p \in RefundPcs : Then(d, p) => Comes(d, {p})
         /\ (\E wanted \in 0 .. Amount : PrepareRefund(d, wanted)) => Comes(d, {"lock"})
         /\ StartFinalize(d) => Comes(d, {"query"})
         /\ Deduct(d) => Comes(d, {"call", "restore"})
<1>1. Ends(d) => Comes(d, {"idle"})
  BY EndsMoves DEF RefundMoved, Comes
<1>2. \A p \in RefundPcs : Then(d, p) => Comes(d, {p})
  BY ThenMoves DEF RefundMoved, Comes
<1>3. (\E wanted \in 0 .. Amount : PrepareRefund(d, wanted)) => Comes(d, {"lock"})
  BY DEF PrepareRefund, Comes, Inv, TypeOK
<1>4. StartFinalize(d) => Comes(d, {"query"})
  BY DEF StartFinalize, NoRefund, Comes, Inv, TypeOK
<1>5. Deduct(d) => Comes(d, {"call", "restore"})
  <2>1. CASE Then(d, "restore")
    BY <1>2, <2>1 DEF RefundPcs, Comes
  <2>2. CASE \E a : refund' = [refund EXCEPT ![d] = [refund[d] EXCEPT !.pc = "call", !.amount = a]]
    <3>1. PICK a : refund' = [refund EXCEPT ![d] = [refund[d] EXCEPT !.pc = "call", !.amount = a]]
      BY <2>2
    <3> DEFINE x == [refund[d] EXCEPT !.pc = "call", !.amount = a]
    <3>2. x.pc = "call"
      BY RefundFacts DEF RefundStates
    <3>3. refund' = [refund EXCEPT ![d] = x] /\ refund \in [Admins -> RefundStates]
      BY <3>1 DEF Inv, TypeOK
    <3> HIDE DEF x
    <3> QED
      BY <3>2, <3>3 DEF Comes
  <2> QED
    BY <2>1, <2>2 DEF Deduct, Deducted, DeductionFails
<1> QED
  BY <1>1, <1>2, <1>3, <1>4, <1>5

\* Nothing that has yet to be decided is on record.
LEMMA OwnedIsOpen ==
  ASSUME Inv, Recorded, NEW d \in Admins,
         refund[d].pc \in Owning \ {"pend"} \/ status \notin {"REFUNDED", "REFUND_PENDING"}
  PROVE  ~ Success /\ status # "REFUNDED"
BY RefundKnows DEF Recorded

\* The steps that settle nothing.
LEMMA UndecidedSteps ==
  ASSUME Inv, Recorded, NEW d \in Admins,
         \/ \E wanted \in 0 .. Amount : PrepareRefund(d, wanted)
         \/ StartFinalize(d) \/ LockRefund(d) \/ Deduct(d) \/ RollbackRefund(d) \/ RestoreStatus(d)
         \/ MarkRefundFailed(d) \/ AdminDies(d)
  PROVE  Recorded' /\ SuccessStays
<1>1. gateway' = gateway /\ Success' = Success
  BY DEF PrepareRefund, StartFinalize, LockRefund, Deduct, RollbackRefund, RestoreStatus, MarkRefundFailed,
     AdminDies, Success
<1>2. /\ status' = "REFUNDED" => status = "REFUNDED"
      /\ Success => status' = status
  <2>1. CASE UNCHANGED status
    BY <2>1
  <2>2. CASE LockRefund(d)
    BY <2>2, OwnedIsOpen DEF LockRefund, StillRefundable, Refundable
  <2>3. CASE RestoreStatus(d) \/ MarkRefundFailed(d)
    <3>1. ~ Success
      BY <2>3, OwnedIsOpen DEF RestoreStatus, MarkRefundFailed, In, Owning
    <3>2. status' \in {status, refund[d].from, "REFUND_FAILED"}
      BY <2>3 DEF RestoreStatus, MarkRefundFailed
    <3> QED
      BY <3>1, <3>2, RefundFacts
  <2> QED
    BY <2>1, <2>2, <2>3 DEF PrepareRefund, StartFinalize, Deduct, RollbackRefund, AdminDies
<1>3. Comes(d, {"idle", "lock", "query", "deduct", "call", "restore", "failed"})
  BY RefundComes DEF LockRefund, RollbackRefund, RestoreStatus, MarkRefundFailed, AdminDies, RefundPcs, Comes
<1> QED
  BY <1>1, <1>2, <1>3, RecordUnmoved DEF Comes

\* The gateway's answers.
LEMMA GatewaySteps ==
  ASSUME Inv, Recorded, NEW d \in Admins, GatewayRefund(d) \/ QueryRefund(d)
  PROVE  Recorded' /\ SuccessStays
<1>1. UNCHANGED <<status, audits>> /\ Success' = Success
  BY DEF GatewayRefund, QueryRefund, Success
<1>2. CASE GatewayRefund(d)
  <2>1. ~ Success /\ status # "REFUNDED"
    BY <1>2, OwnedIsOpen DEF GatewayRefund, In, Owning
  <2>2. /\ Comes(d, {"ok", "pend", "rollback"})
        /\ refund'[d].pc = "ok" => gateway' = "refunded"
        /\ gateway = "refunded" => gateway' = "refunded"
    BY <1>2, RefundComes DEF GatewayRefund, RefundPcs, Comes
  <2> QED
    BY <1>1, <2>1, <2>2 DEF Recorded, SuccessStays, Comes
<1>3. CASE QueryRefund(d)
  <2>1. gateway' = gateway
    BY <1>3 DEF QueryRefund
  <2>2. /\ Comes(d, {"idle", "final ok", "final fail"})
        /\ refund'[d].pc = "final ok" => gateway = "refunded"
        /\ refund'[d].pc = "final fail" => gateway = "failed"
    BY <1>3, RefundComes DEF QueryRefund, RefundPcs, Comes
  <2> QED
    BY <1>1, <2>1, <2>2 DEF Recorded, SuccessStays, Comes
<1> QED
  BY <1>2, <1>3

\* The outcomes.
LEMMA OutcomeSteps ==
  ASSUME Inv, Recorded, NEW d \in Admins,
         \/ MarkRefundOk(d) \/ MarkRefundPending(d) \/ FinalizeSuccess(d) \/ FinalizeFailed(d)
         \/ FinalizeMarked(d)
  PROVE  Recorded' /\ SuccessStays
<1>1. gateway' = gateway
  BY DEF MarkRefundOk, MarkRefundPending, FinalizeSuccess, FinalizeFailed, FinalizeMarked
<1>2. CASE MarkRefundOk(d)
  <2>1. gateway = "refunded" /\ ~ Success /\ status = "REFUNDING" /\ Comes(d, {"idle", "pend"})
    BY <1>2, RefundKnows, RefundComes, OwnedIsOpen
    DEF MarkRefundOk, In, Owning, Recorded, RefundPcs, Comes
  <2>2. \/ UNCHANGED <<status, audits>>
        \/ status' = "REFUNDED" /\ audits' = audits \cup {"REFUND_SUCCESS"}
    BY <1>2 DEF MarkRefundOk, RecordSuccess
  <2> QED
    BY <1>1, <2>1, <2>2 DEF Recorded, SuccessStays, Success, Comes
<1>3. CASE MarkRefundPending(d)
  <2>1. /\ refund[d].pc = "pend" /\ Comes(d, {"idle"}) /\ Success' = Success
        /\ UNCHANGED status \/ (status' = "REFUND_PENDING" /\ "REFUND_PENDING" \notin audits)
    BY <1>3, RefundComes DEF MarkRefundPending, In, Success
  <2>2. "REFUND_PENDING" \notin audits => \A e \in Admins : refund[e].pc \notin Finalizing
    BY RefundKnows
  <2> QED
    BY <1>1, <2>1, <2>2 DEF Recorded, SuccessStays, Comes, Finalizing
<1>4. CASE FinalizeSuccess(d)
  <2>1. gateway = "refunded" /\ Comes(d, {"idle"})
    BY <1>4, RefundComes DEF FinalizeSuccess, In, Recorded
  <2>2. \/ UNCHANGED <<status, audits>>
        \/ status' = "REFUNDED" /\ audits' = audits \cup {"REFUND_SUCCESS"}
    BY <1>4 DEF FinalizeSuccess, RecordSuccess
  <2> QED
    BY <1>1, <2>1, <2>2 DEF Recorded, SuccessStays, Success, Comes
<1>5. CASE FinalizeFailed(d) \/ FinalizeMarked(d)
  <2>1. /\ refund[d].pc \in {"final fail", "final mark"} /\ Success' = Success
        /\ Ends(d) \/ (Then(d, "final mark") /\ status = "REFUND_PENDING" /\ UNCHANGED status)
    <3>1. refund[d].pc \in {"final fail", "final mark"}
      BY <1>5 DEF FinalizeFailed, FinalizeMarked, In
    <3>2. \/ audits' = audits
          \/ audits' = audits \cup {"REFUND_FAILED"}
          \/ audits' = audits \cup {"REFUND_FAILED", "ROLLBACK_FAILED"}
      BY <1>5 DEF FinalizeFailed, FinalizeMarked
    <3>3. Success' = Success
      BY <3>2 DEF Success
    <3>4. CASE FinalizeFailed(d)
      BY <3>1, <3>3, <3>4 DEF FinalizeFailed, ClaimsPending
    <3>5. CASE FinalizeMarked(d)
      BY <3>1, <3>3, <3>5 DEF FinalizeMarked
    <3> QED
      BY <1>5, <3>4, <3>5
  <2>2. UNCHANGED status \/ (status = "REFUND_PENDING" /\ status' = "REFUND_FAILED")
    BY <1>5 DEF FinalizeFailed, FinalizeMarked, ClaimsPending
  <2>3. CASE Ends(d)
    <3>1. Comes(d, {"idle"})
      BY <2>3, RefundComes
    <3> QED
      BY <1>1, <2>1, <2>2, <3>1 DEF Recorded, SuccessStays, Comes
  <2>4. CASE Then(d, "final mark") /\ status = "REFUND_PENDING" /\ UNCHANGED status
    <3>1. Comes(d, {"final mark"})
      BY <2>4, RefundComes DEF RefundPcs
    <3> QED
      BY <1>1, <2>1, <2>4, <3>1 DEF Recorded, SuccessStays, Comes
  <2> QED
    BY <2>1, <2>3, <2>4
<1> QED
  BY <1>2, <1>3, <1>4, <1>5

LEMMA NextRecorded ==
  ASSUME Inv, Recorded, [Next]_vars
  PROVE  Recorded' /\ SuccessStays
<1>1. CASE Age \/ Pay \/ Spend \/ RequestRefund \/ UNCHANGED vars
  <2>1. UNCHANGED <<audits, refund, gateway>> /\ Success' = Success
    BY <1>1 DEF Age, Pay, Spend, RequestRefund, vars, Success
  <2>2. UNCHANGED status \/ (status = "COMPLETED" /\ status' = "REFUND_REQUESTED")
    BY <1>1 DEF Age, Pay, Spend, RequestRefund, vars, orderVars
  <2> QED
    BY <2>1, <2>2, RecordUnmoved DEF Recorded
<1>2. CASE Settle
  <2>1. UNCHANGED <<status, audits, refund>> /\ gateway = "pending"
    BY <1>2 DEF Settle, orderVars
  <2>2. Success' = Success /\ ~ Success
    BY <2>1 DEF Success, Recorded
  <2> QED
    BY <2>1, <2>2, RecordUnmoved
<1>3. ASSUME NEW w \in Workers,
             \/ \E kind \in {"CANCELLED", "EXPIRED", "internal"} : StartCheck(w, kind)
             \/ Notify(w) \/ Retry(w) \/ WorkerStep(w) \/ WorkerDies(w)
      PROVE  Recorded' /\ SuccessStays
  <2>1. StatusMoves
    BY <1>3, SettingOut, WorkerStepSound
  <2> QED
    BY <1>3, <2>1, WorkersKeepRecord
<1>4. ASSUME NEW d \in Admins,
             \/ \E wanted \in 0 .. Amount : PrepareRefund(d, wanted)
             \/ StartFinalize(d) \/ RefundStep(d) \/ AdminDies(d)
      PROVE  Recorded' /\ SuccessStays
  BY <1>4, UndecidedSteps, GatewaySteps, OutcomeSteps DEF RefundStep
<1> QED
  BY <1>1, <1>2, <1>3, <1>4 DEF Next

LEMMA InitRecorded == Init => Recorded
<1> SUFFICES ASSUME Init PROVE Recorded
  OBVIOUS
<1>1. \A d \in Admins : refund[d].pc = "idle"
  BY DEF Init, NoRefund
<1>2. status = "PENDING" /\ ~ Success
  BY DEF Init, Success
<1> QED
  BY <1>1, <1>2 DEF Recorded

\* No step of cancellation, expiry, confirmation, fulfilment or refund takes an
\* order back: a recorded payment stays recorded and a fulfilled order
\* fulfilled, and once a refund's success is on record (markRefundOk,
\* finalizeRefundSuccess) no deduction is returned and no second refund begins:
\* at most the row waits for reconciliation again, after a commit in doubt.
THEOREM OrdersAreNeverUndone == Spec => NeverUndone
<1> DEFINE Kept == /\ status \in Fulfillable => status' \in Fulfillable \cup {"COMPLETED"}
                   /\ status \in Fulfilled => status' \in Fulfilled
                   /\ status = "REFUNDED" \/ "REFUND_SUCCESS" \in audits =>
                        status' \in {"REFUNDED", "REFUND_PENDING"}
<1>1. ASSUME Inv, Recorded, [Next]_vars
      PROVE  Recorded' /\ Kept
  <2>1. StatusMoves \/ StaysFulfilled
    BY <1>1, NextInv DEF StepMoves
  <2>2. Recorded' /\ SuccessStays
    BY <1>1, NextRecorded
  <2> QED
    BY <2>1, <2>2 DEF SuccessStays, Success, StatusMoves, StaysFulfilled, Fulfillable, Fulfilled,
       RefundStatus, Unpaid
<1>2. Inv /\ Recorded /\ [Next]_vars => Recorded' /\ [Kept]_vars
  BY <1>1
<1> HIDE DEF Kept
<1>3. Spec => []Recorded
  BY Invariance, InitRecorded, <1>2, PTL DEF Spec
<1>4. Spec => [][Kept]_vars
  BY Invariance, <1>2, <1>3, PTL DEF Spec
<1> QED
  BY <1>4 DEF NeverUndone, Kept
=============================================================================

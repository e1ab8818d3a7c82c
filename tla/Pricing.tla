------------------------------ MODULE Pricing -------------------------------
(* The price contract of the regional ledger (regional/ledger/pricing.go).     *)
(* A request reserves Price.Maximum before it is sent and is charged           *)
(* Price.Charge of the tokens it really used; RegionalLedger refuses a charge  *)
(* above the reservation and keeps the hold.  The theorems show that, as long  *)
(* as the upstream stays within the window and the output limit of the         *)
(* request, the arithmetic itself never causes such a refusal.                 *)
EXTENDS Integers, TLAPS

CONSTANTS
  MaxTokens,   \* the largest token window a price may name (int32)
  MaxAmount    \* the largest amount, in nano dollars (int64)

\* Price.Validate.  Rates are nano dollars per million tokens.
Price ==
  [input : Nat, output : Nat, cacheCreation : Nat, cacheRead : Nat,
   maxInput : {n \in Nat : 0 < n /\ n <= MaxTokens},
   maxOutput : {n \in Nat : 0 < n /\ n <= MaxTokens}]

\* Disjoint token counts as an adapter reports them.
Usage == [input : Int, output : Int, creation : Int, read : Int]

\* The error of Charge and Maximum; no amount is negative.
Refused == -1

InBounds(p, u) ==
  /\ u.input >= 0 /\ u.output >= 0 /\ u.creation >= 0 /\ u.read >= 0
  /\ u.input + u.creation + u.read <= p.maxInput
  /\ u.output <= p.maxOutput

\* The price in units of 10^-15 dollars, summed without loss (math/big).
Exact(p, u) ==
  u.input * p.input + u.output * p.output
    + u.creation * p.cacheCreation + u.read * p.cacheRead

\* Rounded up once to the quantum of NUMERIC(20,8), ten nano dollars.
RoundUp(n) == ((n + 9999999) \div 10000000) * 10

Charge(p, u) ==
  IF InBounds(p, u) /\ RoundUp(Exact(p, u)) <= MaxAmount
    THEN RoundUp(Exact(p, u))
    ELSE Refused

DearestInput(p) ==
  CHOOSE n \in {p.input, p.cacheCreation, p.cacheRead} :
    n >= p.input /\ n >= p.cacheCreation /\ n >= p.cacheRead

\* A copy of the price with every input token at the dearest rate.
Ceiling(p) ==
  [input |-> DearestInput(p), output |-> p.output, cacheCreation |-> p.cacheCreation,
   cacheRead |-> p.cacheRead, maxInput |-> p.maxInput, maxOutput |-> p.maxOutput]

\* The whole input window at the dearest input rate.
Maximum(p, output) ==
  IF 0 < output /\ output <= p.maxOutput
    THEN Charge(Ceiling(p),
                [input |-> p.maxInput, output |-> output, creation |-> 0, read |-> 0])
    ELSE Refused

-----------------------------------------------------------------------------
\* The rate Maximum reserves with is at least every input rate.
LEMMA DearestBounds ==
  ASSUME NEW p \in Price
  PROVE  /\ DearestInput(p) \in Nat
         /\ p.input <= DearestInput(p)
         /\ p.cacheCreation <= DearestInput(p)
         /\ p.cacheRead <= DearestInput(p)
<1> DEFINE Rates == {p.input, p.cacheCreation, p.cacheRead}
<1>1. \E n \in Rates : n >= p.input /\ n >= p.cacheCreation /\ n >= p.cacheRead
  BY DEF Price
<1>2. /\ DearestInput(p) \in Rates
      /\ DearestInput(p) >= p.input
      /\ DearestInput(p) >= p.cacheCreation
      /\ DearestInput(p) >= p.cacheRead
  BY <1>1 DEF DearestInput
<1> QED BY <1>2 DEF Price

\* Products of natural numbers keep the order of their factors.
LEMMA ProductMonotone ==
  ASSUME NEW a \in Nat, NEW b \in Nat, NEW x \in Nat, NEW y \in Nat,
         a <= b, x <= y
  PROVE  a * x <= b * y /\ a * x \in Nat
<1>1. \A i \in Nat, j \in Nat : i * j \in Nat
  OBVIOUS
<1>2. b * y = a * x + (b - a) * x + b * (y - x)
  OBVIOUS
<1>3. (b - a) * x \in Nat /\ b * (y - x) \in Nat
  <2>1. b - a \in Nat /\ y - x \in Nat
    OBVIOUS
  <2> QED BY <2>1, <1>1
<1> QED BY <1>1, <1>2, <1>3

\* Rounding keeps the order, never undercharges, overcharges by less than one
\* quantum and yields a multiple of the quantum, which USD requires.
LEMMA RoundUpFacts ==
  ASSUME NEW n \in Nat, NEW m \in Nat, n <= m
  PROVE  /\ RoundUp(n) \in Nat
         /\ RoundUp(n) <= RoundUp(m)
         /\ RoundUp(n) % 10 = 0
         /\ n <= RoundUp(n) * 1000000
         /\ RoundUp(n) * 1000000 < n + 10000000
<1> DEFINE q == (n + 9999999) \div 10000000
<1>1. q \in Nat /\ q * 10000000 <= n + 9999999 /\ n + 9999999 < q * 10000000 + 10000000
  BY SMT
<1>2. q <= (m + 9999999) \div 10000000
  BY SMT
<1>3. (q * 10) % 10 = 0
  BY <1>1, SMT
<1> QED BY <1>1, <1>2, <1>3, SMT DEF RoundUp

\* A request whose usage stays within its token window and within the output
\* limit it was reserved with is never refused for its price: Price.Charge fits
\* what Price.Maximum reserved, whichever input categories it used, although
\* cache writes may cost more than input and the sum is rounded up.
THEOREM ChargeWithinMaximum ==
  ASSUME NEW p \in Price, NEW u \in Usage, NEW output \in Int,
         InBounds(p, u), u.output <= output, Maximum(p, output) # Refused,
         MaxAmount \in Nat
  PROVE  /\ Charge(p, u) # Refused
         /\ Charge(p, u) <= Maximum(p, output)
<1> DEFINE top == DearestInput(p)
           ceiling == Ceiling(p)
           whole == [input |-> p.maxInput, output |-> output, creation |-> 0, read |-> 0]
           tokens == u.input + u.creation + u.read
<1>1. /\ u.input \in Nat /\ u.output \in Nat /\ u.creation \in Nat /\ u.read \in Nat
      /\ tokens \in Nat /\ tokens <= p.maxInput
      /\ p.input \in Nat /\ p.output \in Nat /\ p.cacheCreation \in Nat
      /\ p.cacheRead \in Nat /\ p.maxInput \in Nat /\ output \in Nat
  BY DEF InBounds, Usage, Price
<1>2. /\ top \in Nat /\ p.input <= top /\ p.cacheCreation <= top /\ p.cacheRead <= top
  BY DearestBounds
<1> HIDE DEF top
<1>3. /\ u.input * p.input <= u.input * top /\ u.input * p.input \in Nat
      /\ u.creation * p.cacheCreation <= u.creation * top
      /\ u.creation * p.cacheCreation \in Nat
      /\ u.read * p.cacheRead <= u.read * top /\ u.read * p.cacheRead \in Nat
      /\ u.output * p.output <= output * p.output /\ u.output * p.output \in Nat
      /\ tokens * top <= p.maxInput * top
  <2> HIDE DEF tokens
  <2>1. u.input * p.input <= u.input * top /\ u.input * p.input \in Nat
    BY <1>1, <1>2, ProductMonotone
  <2>2. /\ u.creation * p.cacheCreation <= u.creation * top
        /\ u.creation * p.cacheCreation \in Nat
    BY <1>1, <1>2, ProductMonotone
  <2>3. u.read * p.cacheRead <= u.read * top /\ u.read * p.cacheRead \in Nat
    BY <1>1, <1>2, ProductMonotone
  <2>4. u.output * p.output <= output * p.output /\ u.output * p.output \in Nat
    BY <1>1, ProductMonotone
  <2>5. tokens * top <= p.maxInput * top
    BY <1>1, <1>2, ProductMonotone
  <2> QED BY <2>1, <2>2, <2>3, <2>4, <2>5
<1>4. tokens * top = u.input * top + u.creation * top + u.read * top
  BY <1>1, <1>2
<1>5. Exact(ceiling, whole) = p.maxInput * top + output * p.output
  <2>1. /\ ceiling.input = top /\ ceiling.output = p.output
        /\ ceiling.cacheCreation = p.cacheCreation /\ ceiling.cacheRead = p.cacheRead
    BY DEF Ceiling, top
  <2> HIDE DEF ceiling
  <2> QED BY <2>1, <1>1, <1>2 DEF Exact
<1>6. /\ Exact(p, u) \in Nat /\ Exact(ceiling, whole) \in Nat
      /\ Exact(p, u) <= Exact(ceiling, whole)
  <2>1. p.maxInput * top \in Nat /\ output * p.output \in Nat
    BY <1>1, <1>2, ProductMonotone
  <2> DEFINE a == u.input * p.input
             b == u.creation * p.cacheCreation
             c == u.read * p.cacheRead
             d == u.output * p.output
  <2>2. Exact(p, u) = a + d + b + c
    BY DEF Exact
  <2>3. /\ u.input * top \in Nat /\ u.creation * top \in Nat /\ u.read * top \in Nat
    BY <1>1, <1>2, ProductMonotone
  <2>4. /\ a \in Nat /\ b \in Nat /\ c \in Nat /\ d \in Nat
        /\ a + b + c <= tokens * top /\ d <= output * p.output
    BY <1>3, <1>4, <2>3
  <2>5. tokens * top <= p.maxInput * top /\ tokens * top \in Nat
    BY <1>1, <1>2, <1>3, ProductMonotone
  <2> HIDE DEF a, b, c, d, tokens, ceiling, whole
  <2> QED BY <1>5, <2>1, <2>2, <2>4, <2>5
<1>7. /\ RoundUp(Exact(p, u)) \in Nat
      /\ RoundUp(Exact(p, u)) <= RoundUp(Exact(ceiling, whole))
      /\ RoundUp(Exact(ceiling, whole)) \in Nat
  BY <1>6, RoundUpFacts
<1>8. /\ Maximum(p, output) = RoundUp(Exact(ceiling, whole))
      /\ RoundUp(Exact(ceiling, whole)) <= MaxAmount
  BY DEF Maximum, Charge
<1>9. Charge(p, u) = RoundUp(Exact(p, u))
  <2> HIDE DEF ceiling, whole
  <2>1. RoundUp(Exact(p, u)) <= MaxAmount
    BY <1>7, <1>8
  <2> QED BY <2>1 DEF Charge
<1> QED
  <2> HIDE DEF ceiling, whole
  <2> QED BY <1>7, <1>8, <1>9 DEF Refused

\* Price.Charge bills the exact price rounded up once: never less, by less than
\* one quantum more, and always an amount that USD can write as NUMERIC(20,8).
THEOREM ChargeRoundsOnce ==
  ASSUME NEW p \in Price, NEW u \in Usage, Charge(p, u) # Refused
  PROVE  /\ Charge(p, u) % 10 = 0
         /\ Exact(p, u) <= Charge(p, u) * 1000000
         /\ Charge(p, u) * 1000000 < Exact(p, u) + 10000000
<1>1. InBounds(p, u) /\ Charge(p, u) = RoundUp(Exact(p, u))
  BY DEF Charge
<1>2. /\ u.input * p.input \in Nat /\ u.output * p.output \in Nat
      /\ u.creation * p.cacheCreation \in Nat /\ u.read * p.cacheRead \in Nat
  <2>1. /\ u.input \in Nat /\ u.output \in Nat /\ u.creation \in Nat /\ u.read \in Nat
        /\ p.input \in Nat /\ p.output \in Nat /\ p.cacheCreation \in Nat
        /\ p.cacheRead \in Nat
    BY <1>1 DEF InBounds, Usage, Price
  <2> QED BY <2>1, ProductMonotone
<1>3. Exact(p, u) \in Nat
  BY <1>2 DEF Exact
<1> QED BY <1>1, <1>3, RoundUpFacts, SMT
=============================================================================

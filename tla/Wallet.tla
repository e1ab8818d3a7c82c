-------------------------------- MODULE Wallet --------------------------------
(***************************************************************************)
(* What the regional ledger promises the owner of an account balance.      *)
(* Money is set aside before a request is dispatched, a request is charged *)
(* at most once and never beyond what was set aside, and everything set    *)
(* aside and not charged comes back.  How many sites, leases, retries and  *)
(* lost messages that takes is not visible here.                           *)
(***************************************************************************)
EXTENDS Integers

CONSTANTS
  Deposit,   \* the balance to begin with
  Bills      \* identities of the requests that may be charged

VARIABLES
  spendable,  \* balance the owner may still spend
  held,       \* money set aside for requests not yet charged
  charges     \* request -> what it was charged

walletVars == <<spendable, held, charges>>

WalletInit ==
  /\ spendable = Deposit
  /\ held = 0
  /\ charges = [b \in {} |-> 0]

Hold(n) ==
  /\ n <= spendable
  /\ spendable' = spendable - n
  /\ held' = held + n
  /\ UNCHANGED charges

\* n comes out of the money set aside: c of it pays b, the rest goes back.
Charge(b, n, c) ==
  /\ b \notin DOMAIN charges
  /\ spendable' = spendable + (n - c)
  /\ held' = held - n
  /\ charges' = [x \in DOMAIN charges \cup {b} |-> IF x = b THEN c ELSE charges[x]]

Release(n) ==
  /\ spendable' = spendable + n
  /\ held' = held - n
  /\ UNCHANGED charges

WalletNext ==
  \/ \E n \in 1..spendable : Hold(n)
  \/ \E n \in 1..held : Release(n)
  \/ \E b \in Bills, n \in 0..held : \E c \in 0..n : Charge(b, n, c)

WalletSpec == WalletInit /\ [][WalletNext]_walletVars
=============================================================================

----------------------------- MODULE ChargeAccount -----------------------------
(***************************************************************************)
(* What the platform promises about charging inference, without handlers,  *)
(* grants, caches, batches or crashes: each request id is disposed of at   *)
(* most once, either charged, when its price leaves the renter's funds and *)
(* the share of one provider is credited in the same step, or waived.      *)
(* Funds are what the renter paid in and was granted, in one pocket, and a *)
(* charge they do not cover is never made.                                 *)
(***************************************************************************)
EXTENDS Integers

CONSTANTS Requests, Nodes, Prices, Funds
VARIABLES funds, outcome, income

account == <<funds, outcome, income>>

Open == [status |-> "open"]
Waived == [status |-> "waived"]
Charged(n, price) == [status |-> "charged", node |-> n, price |-> price]

\* The provider's share of a price
Share(price) == (price * 75) \div 100

Init ==
  /\ funds = Funds
  /\ outcome = [r \in Requests |-> Open]
  /\ income = [n \in Nodes |-> 0]

Charge(r, n, price) ==
  /\ outcome[r] = Open
  /\ funds >= price
  /\ outcome' = [outcome EXCEPT ![r] = Charged(n, price)]
  /\ funds' = funds - price
  /\ income' = [income EXCEPT ![n] = @ + Share(price)]

\* Nothing was delivered, or nothing could be charged for it.
Waive(r) ==
  /\ outcome[r] = Open
  /\ outcome' = [outcome EXCEPT ![r] = Waived]
  /\ UNCHANGED <<funds, income>>

Next ==
  \E r \in Requests : Waive(r) \/ \E n \in Nodes, price \in Prices : Charge(r, n, price)

Spec == Init /\ [][Next]_account
=============================================================================

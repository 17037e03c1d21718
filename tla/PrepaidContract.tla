---------------------------- MODULE PrepaidContract ----------------------------
(***************************************************************************)
(* What the platform promises about the money of one prepaid job, without  *)
(* handlers, daemons or timers: a job is opened against a debit, may be    *)
(* topped up while it is open, and is closed at most once, by dividing no  *)
(* more than was prepaid between the renter and the provider.              *)
(***************************************************************************)
EXTENDS Integers

CONSTANTS Jobs, Quotes
VARIABLE contract

Unopened == [phase |-> "none", cost |-> 0, back |-> 0, pay |-> 0]

Init == contract = [j \in Jobs |-> Unopened]

Open(j, q) ==
  /\ contract[j].phase = "none"
  /\ contract' = [contract EXCEPT ![j].phase = "open", ![j].cost = q]

TopUp(j, q) ==
  /\ contract[j].phase = "open"
  /\ contract' = [contract EXCEPT ![j].cost = @ + q]

\* Refused by the provisioner inside the request that opened it.
Refuse(j, q) ==
  /\ contract[j].phase = "none"
  /\ contract' = [contract EXCEPT ![j] =
                    [phase |-> "closed", cost |-> q, back |-> q, pay |-> 0]]

Close(j) ==
  /\ contract[j].phase = "open"
  /\ \E back, pay \in 0 .. contract[j].cost :
       /\ back + pay <= contract[j].cost
       /\ contract' = [contract EXCEPT ![j].phase = "closed",
                                       ![j].back = back, ![j].pay = pay]

Next ==
  \E j \in Jobs : Close(j) \/ \E q \in Quotes : Open(j, q) \/ TopUp(j, q) \/ Refuse(j, q)

Spec == Init /\ [][Next]_contract
=============================================================================

------------------------------ MODULE MCTreasury ------------------------------
(***************************************************************************)
(* Money in and money out in slices, each with bounds of its own.  In:     *)
(* several cards tried on one invoice beside a bank transfer, two invoices *)
(* and a restart, overlapping automatic recharges, a recharge beside an    *)
(* invoice.  Out: one payout sent twice beside a withdrawal, two payouts.  *)
(***************************************************************************)
EXTENDS AutoTopUp, Payouts

VARIABLE slice

In(i, t, c, a, r) ==
  [invoices |-> i, transfers |-> t, charges |-> c, attempts |-> a, restarts |-> r]
SlicesIn ==
  [cards |-> In(1, 1, 3, 0, 0), invoices |-> In(2, 0, 1, 0, 1),
   recharges |-> In(0, 0, 2, 2, 1), mixed |-> In(1, 0, 2, 1, 0)]

Out(p, t, w) == [payouts |-> p, transfers |-> t, withdrawals |-> w]
SlicesOut == [again |-> Out(1, 2, 1), requests |-> Out(2, 1, 0)]

MoneyIn ==
  /\ slice \in DOMAIN SlicesIn /\ AutoNext
  /\ Len(invoices') <= SlicesIn[slice].invoices
  /\ Cardinality({k \in DOMAIN payments' : payments'[k].source = "transfer"})
       <= SlicesIn[slice].transfers
  /\ Len(charges') <= SlicesIn[slice].charges
  /\ Len(attempts') <= SlicesIn[slice].attempts
  /\ restarts' <= SlicesIn[slice].restarts
  /\ slice = "recharges" \/ UNCHANGED card
  /\ UNCHANGED payoutVars

MoneyOut ==
  /\ slice \in DOMAIN SlicesOut /\ PayoutNext
  /\ Len(payouts') <= SlicesOut[slice].payouts
  /\ Len(transfers') <= SlicesOut[slice].transfers
  /\ Len(withdrawals') <= SlicesOut[slice].withdrawals
  /\ UNCHANGED <<topUpVars, autoVars>>

MCInit ==
  /\ AutoInit /\ PayoutInit
  /\ slice \in DOMAIN SlicesIn \cup DOMAIN SlicesOut

MCNext == (MoneyIn \/ MoneyOut) /\ UNCHANGED slice

MCSpec ==
  MCInit /\ [][MCNext]_<<topUpVars, autoVars, payoutVars, slice>>
    /\ SweepFairness /\ PayoutFairness
=============================================================================

-------------------------------- MODULE TopUps --------------------------------
(***************************************************************************)
(* Money in: wallet top-ups by hosted card invoice and by bank transfer.   *)
(* Moyasar is external.  A renter may try several cards on one invoice,    *)
(* each try is a charge; a webhook for any status a charge has had may     *)
(* arrive at any time, in any order, any number of times or never.  The    *)
(* webhook, the verify poll, the reconciliation sweep and the two refund   *)
(* handlers race for the same payments row.  All amounts are one unit: the *)
(* only comparison the code makes is of equal amounts.                     *)
(***************************************************************************)
EXTENDS Integers, Sequences, FiniteSets

CONSTANTS
  MaxInvoices,   \* bound: hosted invoices opened
  MaxTransfers,  \* bound: bank transfers announced
  MaxCharges,    \* bound: card charges at Moyasar
  Deposit        \* the renter's balance at the start

ASSUME TopUpAssumption ==
  MaxInvoices \in Nat /\ MaxTransfers \in Nat /\ MaxCharges \in Nat /\ Deposit \in Nat

VARIABLES
  invoices,   \* Moyasar's invoices, by number (external)
  charges,    \* Moyasar's payments, by number (external)
  payments,   \* the payments table, in the order of created_at
  opening,    \* POST /topup handlers whose invoice exists and whose row does not
  sweeping,   \* rows the reconciliation sweep has yet to ask about, with their moyasar_id
  refunding,  \* refund approvals waiting for Moyasar, in memory
  balance,    \* renters.balance_halala
  credits,    \* history: wallet credits given on the evidence of each charge
  guessed     \* history: charges matched to a row by amount alone

gateway == <<invoices, charges>>
topUpVars ==
  <<gateway, payments, opening, sweeping, refunding, balance, credits, guessed>>

InvoiceId(n) == <<"invoice", n>>
ChargeId(n) == <<"charge", n>>
AttemptId(n) == <<"attempt", n>>
NoId == <<"none", 0>>

Sources == {"card", "transfer", "auto"}
Rows == DOMAIN payments

TopUpTypeOK ==
  /\ \A n \in DOMAIN invoices : invoices[n] \in {"open", "paid", "expired"}
  /\ \A c \in DOMAIN charges :
       /\ charges[c].status \in {"initiated", "paid", "failed", "refunded"}
       /\ charges[c].of[1] \in {"invoice", "attempt"}
  /\ \A k \in Rows :
       /\ payments[k].source \in Sources
       /\ payments[k].moyasar[1] \in {"invoice", "charge", "none"}
       /\ payments[k].status \in {"pending", "initiated", "paid", "failed", "refunded"}
       /\ payments[k].request \in {"none", "pending", "processing", "approved"}
  /\ opening \subseteq DOMAIN invoices
  /\ \A s \in sweeping : s.row \in Rows /\ s.id[1] \in {"invoice", "charge"}
  /\ refunding \subseteq Rows
  /\ balance \in Nat
  /\ credits \in [1 .. MaxCharges -> Nat]
  /\ guessed \subseteq DOMAIN charges

TopUpInit ==
  /\ invoices = <<>> /\ charges = <<>> /\ payments = <<>>
  /\ opening = {} /\ sweeping = {} /\ refunding = {}
  /\ balance = Deposit
  /\ credits = [c \in 1 .. MaxCharges |-> 0]
  /\ guessed = {}

NewRow(source, id, status) ==
  [source |-> source, moyasar |-> id, status |-> status, request |-> "none"]

\* The charges whose row, or whose invoice's row, a moyasar_id names
ChargesOf(id) ==
  {c \in DOMAIN charges : id = ChargeId(c) \/ id = charges[c].of}

\* What the wallet is credited for, when the row bound to id becomes paid
PaidBy(id) == {c \in ChargesOf(id) : charges[c].status \in {"paid", "refunded"}}

Credit(evidence) ==
  /\ balance' = balance + 1
  /\ credits' = [c \in DOMAIN credits |->
       IF c \in evidence THEN credits[c] + 1 ELSE credits[c]]
-----------------------------------------------------------------------------
(* Moyasar (external) *)

\* The renter tries a card on an open invoice.
TryCard(n) ==
  /\ n \in DOMAIN invoices /\ invoices[n] = "open"
  /\ Len(charges) < MaxCharges
  /\ charges' = Append(charges, [of |-> InvoiceId(n), status |-> "initiated"])
  /\ UNCHANGED <<invoices, payments, opening, sweeping, refunding, balance, credits, guessed>>

\* 3-D Secure ends: an invoice is paid by at most one of its charges.
SettleCharge(c, status) ==
  /\ c \in DOMAIN charges /\ charges[c].status = "initiated"
  /\ status \in {"paid", "failed"}
  /\ charges[c].of[1] = "invoice" /\ status = "paid" => invoices[charges[c].of[2]] = "open"
  /\ charges' = [charges EXCEPT ![c].status = status]
  /\ invoices' = IF charges[c].of[1] = "invoice" /\ status = "paid"
                 THEN [invoices EXCEPT ![charges[c].of[2]] = "paid"] ELSE invoices
  /\ UNCHANGED <<payments, opening, sweeping, refunding, balance, credits, guessed>>

ExpireInvoice(n) ==
  /\ n \in DOMAIN invoices /\ invoices[n] = "open"
  /\ invoices' = [invoices EXCEPT ![n] = "expired"]
  /\ UNCHANGED <<charges, payments, opening, sweeping, refunding, balance, credits, guessed>>

\* From Moyasar's dashboard, or for an approved refund request.
RefundCharge(c) ==
  /\ c \in DOMAIN charges /\ charges[c].status = "paid"
  /\ charges' = [charges EXCEPT ![c].status = "refunded"]
  /\ UNCHANGED <<invoices, payments, opening, sweeping, refunding, balance, credits, guessed>>

\* What GET /invoices/id, or GET /payments/id, reports
Reported(id) ==
  IF id[1] = "invoice" THEN invoices[id[2]] ELSE charges[id[2]].status

\* The events a charge has given rise to
EventsOf(c) ==
  CASE charges[c].status = "initiated" -> {"initiated"}
    [] charges[c].status = "refunded"  -> {"initiated", "paid", "refunded"}
    [] OTHER -> {"initiated", charges[c].status}
-----------------------------------------------------------------------------
(* POST /topup and POST /admin/payments/confirm-topup *)

TransferRows == {k \in Rows : payments[k].source = "transfer"}

AnnounceTransfer ==
  /\ Cardinality(TransferRows) < MaxTransfers
  /\ payments' = Append(payments, NewRow("transfer", NoId, "pending"))
  /\ UNCHANGED <<gateway, opening, sweeping, refunding, balance, credits, guessed>>

\* The invoice is created over HTTP, the row inserted after the answer.
OpenInvoice ==
  /\ Len(invoices) < MaxInvoices
  /\ invoices' = Append(invoices, "open")
  /\ opening' = opening \cup {Len(invoices) + 1}
  /\ UNCHANGED <<charges, payments, sweeping, refunding, balance, credits, guessed>>

InsertTopup(n) ==
  /\ n \in opening
  /\ opening' = opening \ {n}
  /\ payments' = Append(payments, NewRow("card", InvoiceId(n), "pending"))
  /\ UNCHANGED <<gateway, sweeping, refunding, balance, credits, guessed>>

ConfirmTransfer(k) ==
  /\ k \in TransferRows
  /\ payments[k].status \notin {"paid", "refunded"}
  /\ payments' = [payments EXCEPT ![k].status = "paid"]
  /\ Credit({})
  /\ UNCHANGED <<gateway, opening, sweeping, refunding, guessed>>
-----------------------------------------------------------------------------
(* POST /webhook *)

BoundTo(id) == {k \in Rows : payments[k].moyasar = id}
Pending == {k \in Rows : payments[k].status = "pending"}

\* Only token charges carry metadata.renter_id; a hosted payment's is empty.
Newest(rows) == {k \in rows : \A j \in rows : j <= k}
Guess(c, status) ==
  IF status = "paid" /\ charges[c].of[1] = "attempt" THEN Newest(Pending) ELSE {}

\* By payment id, else by invoice id, else by renter and amount
Match(c, status) ==
  IF BoundTo(ChargeId(c)) # {} THEN BoundTo(ChargeId(c))
  ELSE IF BoundTo(charges[c].of) # {} THEN BoundTo(charges[c].of)
  ELSE Guess(c, status)

\* Mutant: a late failure overwrites a paid row.
StaleNever(old, new) == old = new \/ (old = "refunded" /\ new # "refunded")

\* already_processed and the two ignored regressions
Stale(old, new) ==
  \/ old = new
  \/ old = "paid" /\ new \in {"initiated", "failed"}
  \/ old = "refunded" /\ new # "refunded"

\* Mutant: markPaymentPaidOnce takes any row, so every delivery credits.
PayableAlways(k) == TRUE

\* markPaymentPaidOnce's status IN (...)
Payable(k) == payments[k].status \in {"pending", "initiated", "failed"}

Bind(k, c) == [payments EXCEPT ![k].moyasar = ChargeId(c)]

\* markPaymentRefundedOnce on a row; the wallet is debited down to zero
Refundable(k) == payments[k].status = "paid"

\* Mutant: the refund has no MAX(0, ...).
DebitedBelowZero == balance - 1

Debited == IF balance > 0 THEN balance - 1 ELSE 0

Deliver(c, status, k) ==
  LET old == payments[k].status
      bound == Bind(k, c)
  IN  /\ guessed' = IF k \in BoundTo(ChargeId(c)) \cup BoundTo(charges[c].of)
                    THEN guessed ELSE guessed \cup {c}
      /\ \/ /\ Stale(old, status)
            /\ payments' = bound
            /\ UNCHANGED <<balance, credits>>
         \/ /\ ~ Stale(old, status) /\ status = "paid" /\ Payable(k)
            /\ payments' = [bound EXCEPT ![k].status = "paid"]
            /\ Credit({c})
         \/ /\ ~ Stale(old, status) /\ status \in {"initiated", "failed"}
            /\ payments' = [bound EXCEPT ![k].status = status]
            /\ UNCHANGED <<balance, credits>>
         \/ /\ ~ Stale(old, status) /\ status = "refunded"
            /\ payments' = IF Refundable(k)
                 THEN [bound EXCEPT ![k].status = "refunded"] ELSE bound
            /\ balance' = IF Refundable(k) THEN Debited ELSE balance
            /\ UNCHANGED credits
      /\ UNCHANGED <<gateway, opening, sweeping, refunding>>
-----------------------------------------------------------------------------
(* GET /verify, and the reconciliation sweep of server.js *)

\* The local row is read before the GET; a hosted invoice's id is a 404 there.
Verify(k) ==
  /\ k \in Rows /\ Payable(k)
  /\ payments[k].moyasar[1] = "charge"
  /\ Reported(payments[k].moyasar) = "paid"
  /\ payments' = [payments EXCEPT ![k].status = "paid"]
  /\ Credit(PaidBy(payments[k].moyasar))
  /\ UNCHANGED <<gateway, opening, sweeping, refunding, guessed>>

Unsettled(k) == payments[k].status \in {"pending", "initiated"}

\* Mutant: hosted rows, which stay 'pending', are not selected.
SweepableInitiated ==
  {k \in Rows : payments[k].status = "initiated" /\ payments[k].source = "card"}

Sweepable == {k \in Rows : Unsettled(k) /\ payments[k].source = "card"}

\* One SELECT, then a GET for each row in turn, newest first
SweepSelect ==
  /\ sweeping = {} /\ Sweepable # {}
  /\ sweeping' = {[row |-> k, id |-> payments[k].moyasar] : k \in Sweepable}
  /\ UNCHANGED <<gateway, payments, opening, refunding, balance, credits, guessed>>

\* Mutant: an invoice that is still open is credited.
CreditsUnlessFailed(reported) == reported \notin {"failed", "expired"}

\* topupReconcileDecision
Credits(reported) == reported = "paid"
Fails(reported) == reported \in {"failed", "expired"}

NextSwept == {s \in sweeping : \A t \in sweeping : t.row <= s.row}

SweepApply ==
  \E s \in NextSwept :
    /\ sweeping' = sweeping \ {s}
    /\ LET k == s.row
           reported == Reported(s.id)
       IN  \/ /\ Credits(reported) /\ Payable(k)
              /\ payments' = [payments EXCEPT ![k].status = "paid"]
              /\ Credit(PaidBy(s.id))
           \/ /\ Fails(reported) /\ Unsettled(k)
              /\ payments' = [payments EXCEPT ![k].status = "failed"]
              /\ UNCHANGED <<balance, credits>>
           \/ /\ ~ (Credits(reported) /\ Payable(k))
              /\ ~ (Fails(reported) /\ Unsettled(k))
              /\ UNCHANGED <<payments, balance, credits>>
    /\ UNCHANGED <<gateway, opening, refunding, guessed>>
-----------------------------------------------------------------------------
(* Refund requests: the renter asks, an admin approves or rejects *)

RequestRefund(k) ==
  /\ k \in Rows /\ payments[k].status = "paid"
  /\ payments[k].request \notin {"pending", "processing"}
  /\ payments' = [payments EXCEPT ![k].request = "pending"]
  /\ UNCHANGED <<gateway, opening, sweeping, refunding, balance, credits, guessed>>

RejectRefund(k) ==
  /\ k \in Rows /\ payments[k].request = "pending"
  /\ payments' = [payments EXCEPT ![k].request = "none"]
  /\ UNCHANGED <<gateway, opening, sweeping, refunding, balance, credits, guessed>>

Refunded(k) ==
  /\ payments' = [payments EXCEPT ![k].status = "refunded", ![k].request = "approved"]
  /\ balance' = Debited

\* The claim, then Moyasar; a row without moyasar_id is refunded by hand at once.
ApproveRefund(k) ==
  /\ k \in Rows /\ payments[k].request = "pending" /\ payments[k].status = "paid"
  /\ \/ /\ payments[k].moyasar = NoId
        /\ Refunded(k)
        /\ UNCHANGED refunding
     \/ /\ payments[k].moyasar # NoId
        /\ payments' = [payments EXCEPT ![k].request = "processing"]
        /\ refunding' = refunding \cup {k}
        /\ UNCHANGED balance
  /\ UNCHANGED <<gateway, opening, sweeping, credits, guessed>>

\* Mutant: the final UPDATE does not ask for status = 'paid'.
StillPaidAlways(k) == TRUE

StillPaid(k) == payments[k].status = "paid"

\* Moyasar refunded: finish(), or its throw that leaves the request processing
RefundAnswered(k) ==
  /\ k \in refunding
  /\ payments[k].moyasar[1] = "charge"
  /\ Reported(payments[k].moyasar) = "refunded"
  /\ refunding' = refunding \ {k}
  /\ IF StillPaid(k) THEN Refunded(k) ELSE UNCHANGED <<payments, balance>>
  /\ UNCHANGED <<gateway, opening, sweeping, credits, guessed>>

\* Moyasar refused (an invoice id is no payment), or its answer was lost
RefundFails(k) ==
  /\ k \in refunding
  /\ refunding' = refunding \ {k}
  /\ payments' = [payments EXCEPT ![k].request = "pending"]
  /\ UNCHANGED <<gateway, opening, sweeping, balance, credits, guessed>>

\* Every handler in progress is lost with the process.
Lost ==
  /\ opening' = {} /\ sweeping' = {} /\ refunding' = {}
  /\ UNCHANGED <<gateway, payments, balance, credits, guessed>>

TopUpNext ==
  \/ AnnounceTransfer \/ OpenInvoice
  \/ \E n \in DOMAIN invoices : TryCard(n) \/ ExpireInvoice(n) \/ InsertTopup(n)
  \/ \E c \in DOMAIN charges :
       RefundCharge(c) \/ \E s \in {"paid", "failed"} : SettleCharge(c, s)
  \/ \E k \in Rows : ConfirmTransfer(k) \/ RequestRefund(k)
       \/ RejectRefund(k) \/ ApproveRefund(k) \/ RefundAnswered(k) \/ RefundFails(k)
  \/ SweepSelect \/ SweepApply
=============================================================================

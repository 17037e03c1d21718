------------------------------- MODULE Payouts --------------------------------
(***************************************************************************)
(* Money out: a provider's claimable earnings leave as payout_requests,    *)
(* paid by hand or through Moyasar, and as withdrawal_requests paid by     *)
(* hand.  Two admins, the webhook, the reconciliation sweep and the escrow *)
(* listener act on the same rows while Moyasar is being asked.  Moyasar    *)
(* and the chain are external.  Every amount is one unit.                  *)
(***************************************************************************)
EXTENDS Integers, Sequences, FiniteSets

CONSTANTS
  MaxEarned,       \* bound: units the provider earns
  MaxPayouts,      \* bound: payout_requests
  MaxMoyasarPayouts, \* bound: POST /payouts sent to Moyasar
  MaxWithdrawals   \* bound: withdrawal_requests

ASSUME PayoutAssumption ==
  MaxEarned \in Nat /\ MaxPayouts \in Nat /\ MaxMoyasarPayouts \in Nat /\ MaxWithdrawals \in Nat

VARIABLES
  claimable,    \* providers.claimable_earnings_halala
  earned,       \* history: all that settlements have added to it
  payouts,      \* payout_requests
  withdrawals,  \* withdrawal_requests
  transfers,    \* the requests sent to Moyasar and what became of them (external)
  waiting,      \* approvals waiting for Moyasar's answer, in memory
  syncing,      \* syncPayoutStatus calls waiting for Moyasar, in memory
  doubted       \* history: payouts whose accepted transfer the caller never learned of

payoutVars ==
  <<claimable, earned, payouts, withdrawals, transfers, waiting, syncing, doubted>>

Requests == DOMAIN payouts
Callers == {"webhook", "sweep"}
NoTransfer == 0

PayoutTypeOK ==
  /\ claimable \in Nat
  /\ earned \in 0 .. MaxEarned
  /\ \A r \in Requests :
       /\ payouts[r].status \in {"pending", "processing", "paid", "rejected"}
       /\ payouts[r].origin \in {"provider", "chain"}
       /\ payouts[r].transfer \in DOMAIN transfers \cup {NoTransfer}
  /\ \A w \in DOMAIN withdrawals :
       withdrawals[w] \in {"pending", "processing", "paid", "failed"}
  /\ \A t \in DOMAIN transfers :
       /\ transfers[t].of \in Requests
       /\ transfers[t].status \in {"asked", "refused", "queued", "paid", "failed"}
  /\ waiting \subseteq DOMAIN transfers
  /\ syncing \subseteq Requests \X Callers
  /\ doubted \subseteq Requests

PayoutInit ==
  /\ claimable = 0 /\ earned = 0
  /\ payouts = <<>> /\ withdrawals = <<>> /\ transfers = <<>>
  /\ waiting = {} /\ syncing = {} /\ doubted = {}

Open(r) == payouts[r].status \in {"pending", "processing"}
Held == Cardinality({r \in Requests : Open(r)})
SetStatus(r, status) == payouts' = [payouts EXCEPT ![r].status = status]
NewPayout(origin) ==
  Append(payouts, [status |-> "pending", origin |-> origin, transfer |-> NoTransfer])
-----------------------------------------------------------------------------
(* The provider, and the escrow contract *)

Earn ==
  /\ earned < MaxEarned
  /\ earned' = earned + 1
  /\ claimable' = claimable + 1
  /\ UNCHANGED <<payouts, withdrawals, transfers, waiting, syncing, doubted>>

\* requestPayout: the requests already deducted are held back once more.
RequestPayout ==
  /\ Len(payouts) < MaxPayouts
  /\ claimable - Held >= 1
  /\ claimable' = claimable - 1
  /\ payouts' = NewPayout("provider")
  /\ UNCHANGED <<earned, withdrawals, transfers, waiting, syncing, doubted>>

\* handlePaymentReleased: a request that reserves nothing
ReleasedOnChain ==
  /\ Len(payouts) < MaxPayouts
  /\ payouts' = NewPayout("chain")
  /\ UNCHANGED <<claimable, earned, withdrawals, transfers, waiting, syncing, doubted>>

\* handleClaimed gives every pending request of the provider one transaction hash,
\* which is unique in the table: with two pending requests the update throws.
ClaimedOnChain ==
  \E r \in Requests :
    /\ {q \in Requests : payouts[q].status = "pending"} = {r}
    /\ SetStatus(r, "processing")
    /\ UNCHANGED <<claimable, earned, withdrawals, transfers, waiting, syncing, doubted>>
-----------------------------------------------------------------------------
(* Admin: approve, mark paid, reject *)

ApproveManually(r) ==
  /\ payouts[r].status = "pending"
  /\ SetStatus(r, "processing")
  /\ UNCHANGED <<claimable, earned, withdrawals, transfers, waiting, syncing, doubted>>

\* Mutant: the row stays 'pending' until Moyasar has answered.
ClaimLater(r) == payouts[r].status = "pending" /\ UNCHANGED payouts

\* processPayoutViaMoyasar's compare-and-set, before the call
Claim(r) == payouts[r].status = "pending" /\ SetStatus(r, "processing")

ApproveViaMoyasar(r) ==
  /\ Claim(r)
  /\ Len(transfers) < MaxMoyasarPayouts
  /\ transfers' = Append(transfers, [of |-> r, status |-> "asked"])
  /\ waiting' = waiting \cup {Len(transfers) + 1}
  /\ UNCHANGED <<claimable, earned, withdrawals, syncing, doubted>>

\* The answer stores the transfer's id, whatever the row has become.
ApproveAnswered(t) ==
  /\ t \in waiting /\ transfers[t].status \in {"queued", "paid", "failed"}
  /\ waiting' = waiting \ {t}
  /\ payouts' = [payouts EXCEPT ![transfers[t].of].transfer = t]
  /\ UNCHANGED <<claimable, earned, withdrawals, transfers, syncing, doubted>>

Unsent(r) == payouts[r].status = "processing" /\ payouts[r].transfer = NoTransfer

\* Moyasar refused, or its answer never came: the claim is released.
ApproveFails(t) ==
  LET r == transfers[t].of
  IN  /\ t \in waiting
      /\ waiting' = waiting \ {t}
      /\ IF Unsent(r) THEN SetStatus(r, "pending") ELSE UNCHANGED payouts
      /\ doubted' = IF transfers[t].status = "refused" THEN doubted ELSE doubted \cup {r}
      /\ UNCHANGED <<claimable, earned, withdrawals, transfers, syncing>>

\* Mutant: a rejected request can be marked paid.
MarkableUnlessPaid(r) == payouts[r].status # "paid"

Markable(r) == Open(r)

MarkPayoutPaid(r) ==
  /\ Markable(r)
  /\ SetStatus(r, "paid")
  /\ UNCHANGED <<claimable, earned, withdrawals, transfers, waiting, syncing, doubted>>

\* Also while Moyasar has the transfer
RejectPayout(r) ==
  /\ Open(r)
  /\ SetStatus(r, "rejected")
  /\ claimable' = claimable + 1
  /\ UNCHANGED <<earned, withdrawals, transfers, waiting, syncing, doubted>>
-----------------------------------------------------------------------------
(* Moyasar (external) *)

GatewayAnswers(t, status) ==
  /\ \/ transfers[t].status = "asked" /\ status \in {"refused", "queued"}
     \/ transfers[t].status = "queued" /\ status \in {"paid", "failed"}
  /\ transfers' = [transfers EXCEPT ![t].status = status]
  /\ UNCHANGED <<claimable, earned, payouts, withdrawals, waiting, syncing, doubted>>
-----------------------------------------------------------------------------
(* syncPayoutStatus: by the webhook or an admin, and by the sweep *)

\* Mutant: the sweep selects the requests that have not been sent.
SweptPending(r) == payouts[r].status = "pending"

\* reconcileProcessingPayouts' WHERE
Swept(r) == payouts[r].status = "processing"

SyncStart(r, caller) ==
  /\ payouts[r].transfer # NoTransfer
  /\ caller = "sweep" => Swept(r)
  /\ Open(r)
  /\ <<r, caller>> \notin syncing
  /\ syncing' = syncing \cup {<<r, caller>>}
  /\ UNCHANGED <<claimable, earned, payouts, withdrawals, transfers, waiting, doubted>>

\* Mutant: the failed branch refunds without `status NOT IN ('paid','rejected')`.
UndecidedAlways(r) == TRUE

Undecided(r) == Open(r)

SyncAnswered(r, caller) ==
  LET reported == transfers[payouts[r].transfer].status
  IN  /\ <<r, caller>> \in syncing
      /\ syncing' = syncing \ {<<r, caller>>}
      /\ \/ /\ reported = "paid" /\ Undecided(r)
            /\ SetStatus(r, "paid")
            /\ UNCHANGED claimable
         \/ /\ reported = "failed" /\ Undecided(r)
            /\ SetStatus(r, "rejected")
            /\ claimable' = claimable + 1
         \/ /\ ~ (reported \in {"paid", "failed"} /\ Undecided(r))
            /\ UNCHANGED <<payouts, claimable>>
      /\ UNCHANGED <<earned, withdrawals, transfers, waiting, doubted>>

\* A restart loses the handlers: an unanswered approval stays processing.
RestartPayouts ==
  /\ waiting # {} \/ syncing # {}
  /\ waiting' = {} /\ syncing' = {}
  /\ doubted' = doubted \cup {transfers[t].of : t \in waiting}
  /\ UNCHANGED <<claimable, earned, payouts, withdrawals, transfers>>
-----------------------------------------------------------------------------
(* withdrawal_requests: nothing is deducted until an admin marks one paid *)

OpenWithdrawals == {w \in DOMAIN withdrawals : withdrawals[w] \in {"pending", "processing"}}

RequestWithdrawal ==
  /\ Len(withdrawals) < MaxWithdrawals
  /\ OpenWithdrawals = {}
  /\ claimable >= 1
  /\ withdrawals' = Append(withdrawals, "pending")
  /\ UNCHANGED <<claimable, earned, payouts, transfers, waiting, syncing, doubted>>

\* Mutant: the earnings are not compared again when the request is paid.
CoveredAlways == TRUE

Covered == claimable >= 1

UpdateWithdrawal(w, status) ==
  /\ w \in OpenWithdrawals
  /\ status # "processing" \/ withdrawals[w] = "pending"
  /\ status = "paid" => Covered
  /\ withdrawals' = [withdrawals EXCEPT ![w] = status]
  /\ claimable' = IF status = "paid" THEN claimable - 1 ELSE claimable
  /\ UNCHANGED <<earned, payouts, transfers, waiting, syncing, doubted>>

PayoutNext ==
  \/ Earn \/ RequestPayout \/ ReleasedOnChain \/ ClaimedOnChain
  \/ \E r \in Requests :
       \/ ApproveManually(r) \/ ApproveViaMoyasar(r)
       \/ MarkPayoutPaid(r) \/ RejectPayout(r)
       \/ \E caller \in Callers : SyncStart(r, caller) \/ SyncAnswered(r, caller)
  \/ \E t \in DOMAIN transfers :
       \/ ApproveAnswered(t) \/ ApproveFails(t)
       \/ \E s \in {"refused", "queued", "paid", "failed"} : GatewayAnswers(t, s)
  \/ RestartPayouts
  \/ RequestWithdrawal
  \/ \E w \in DOMAIN withdrawals :
       \E s \in {"processing", "paid", "failed"} : UpdateWithdrawal(w, s)

\* The sweep runs every 15 minutes, Moyasar answers, and not every answer is lost
\* to a restart.
PayoutFairness ==
  \A r \in 1 .. MaxPayouts :
    /\ WF_payoutVars(r \in Requests /\ SyncStart(r, "sweep"))
    /\ SF_payoutVars(r \in Requests /\ SyncAnswered(r, "sweep"))

PayoutSpec == PayoutInit /\ [][PayoutNext]_payoutVars /\ PayoutFairness
-----------------------------------------------------------------------------
(* Properties *)

\* What a provider has earned is claimable, in an open or paid payout, or in a paid
\* withdrawal, and nowhere twice, whoever of two syncs, an admin and the sweep ends
\* a payout; only the rejection of a request the chain created adds a unit
\* (rejectPayout returns what handlePaymentReleased never reserved).
EarningsConserved ==
  LET count(origin, statuses) ==
        Cardinality({r \in Requests :
          payouts[r].origin = origin /\ payouts[r].status \in statuses})
      withdrawn == Cardinality({w \in DOMAIN withdrawals : withdrawals[w] = "paid"})
  IN  claimable + count("provider", {"pending", "processing", "paid"}) + withdrawn
        = earned + count("chain", {"rejected"})

\* A request has at most one transfer that was not refused and did not fail, unless
\* the approval never got Moyasar's answer and released its claim
\* (payoutService.js:341).
DisbursedOnce ==
  \A r \in Requests \ doubted :
    Cardinality({t \in DOMAIN transfers :
      transfers[t].of = r /\ transfers[t].status \in {"asked", "queued", "paid"}}) <= 1

\* A paid or rejected request stays so, whichever approval, sync, mark or listener
\* still holds it.
EndedPayoutIsFinal ==
  [][\A r \in Requests : ~ Open(r) => payouts'[r].status = payouts[r].status]_payouts

\* A transfer that Moyasar has ended ends its request, though every webhook be lost
\* (reconcileProcessingPayouts).
EndedTransferIsSynced ==
  \A r \in 1 .. MaxPayouts :
    (r \in Requests /\ payouts[r].status = "processing" /\ payouts[r].transfer # NoTransfer
       /\ transfers[payouts[r].transfer].status \in {"paid", "failed"})
    ~> (r \in Requests /\ ~ Open(r))
=============================================================================

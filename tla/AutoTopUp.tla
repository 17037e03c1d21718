------------------------------- MODULE AutoTopUp ------------------------------
(***************************************************************************)
(* Automatic recharge of the wallet by a saved card, beside the top-ups of *)
(* TopUps: one renter, in one calendar month, with fixed amounts.          *)
(* maybeTrigger runs at once after every debit, records the attempt, and   *)
(* awaits Moyasar; a charge that needs 3-D Secure is finished by the       *)
(* webhook.  The 60 s soft lock and the 24 h pause end by themselves; a    *)
(* sweep later clears what is left of a pause, renter after renter.        *)
(***************************************************************************)
EXTENDS TopUps

CONSTANTS
  MaxAttempts,   \* bound: rows of auto_topup_attempts
  MaxFailures,   \* MAX_CONSECUTIVE_FAILURES
  Threshold,     \* auto_topup_threshold_halala, in recharges
  MaxRestarts,   \* bound: restarts of the process with a handler in progress
  MonthlyCap     \* auto_topup_monthly_cap_halala, in recharges; 0 is no cap

ASSUME AutoAssumption ==
  /\ MaxAttempts \in Nat /\ MaxFailures \in Nat \ {0}
  /\ Threshold \in Nat \ {0} /\ MonthlyCap \in Nat /\ MaxRestarts \in Nat

VARIABLES
  attempts,   \* auto_topup_attempts
  answer,     \* what the handler of each attempt awaits or has been sent, in memory
  used,       \* auto_topup_monthly_used_halala, in recharges
  failures,   \* auto_topup_consecutive_failures
  pause,      \* auto_topup_paused_until: NULL, ahead or passed
  card,       \* the saved card, and whether the feature is enabled with it
  clearing,   \* the pause sweep has selected this renter; it awaits others first
  locked,     \* auto_topup_last_attempt_at is less than 60 s old
  restarts    \* history: restarts so far

breakerVars == <<failures, pause, card, clearing>>
autoVars == <<attempts, answer, used, breakerVars, locked, restarts>>

AutoTypeOK ==
  /\ TopUpTypeOK
  /\ \A a \in DOMAIN attempts :
       /\ attempts[a].status \in {"initiated", "3ds_required", "paid", "failed"}
       /\ attempts[a].charge \in 0 .. MaxCharges
  /\ answer \in [DOMAIN attempts -> {"none", "asked", "initiated", "paid", "failed"}]
  /\ used \in Nat /\ failures \in Nat
  /\ pause \in {"none", "running", "over"}
  /\ card \in {"none", "saved", "enabled"} /\ clearing \in BOOLEAN
  /\ locked \in BOOLEAN /\ restarts \in 0 .. MaxRestarts

AutoInit ==
  /\ TopUpInit
  /\ attempts = <<>> /\ answer = <<>>
  /\ used = 0 /\ failures = 0
  /\ pause = "none" /\ card = "enabled" /\ clearing = FALSE
  /\ locked = FALSE /\ restarts = 0
-----------------------------------------------------------------------------
(* maybeTrigger *)

WithinCap == MonthlyCap = 0 \/ used + 1 <= MonthlyCap

Eligible(funds, onHold) ==
  card = "enabled" /\ funds < Threshold /\ ~ onHold /\ WithinCap /\ ~ locked

Begin ==
  /\ Len(attempts) < MaxAttempts
  /\ attempts' = Append(attempts, [status |-> "initiated", charge |-> 0])
  /\ answer' = Append(answer, "asked")
  /\ locked' = TRUE

MaybeTrigger(funds, onHold) ==
  IF Eligible(funds, onHold) THEN Begin ELSE UNCHANGED <<attempts, answer, locked>>

\* isPaused: a pause that has passed holds nothing back, cleared or not.
OnHold == pause = "running"

\* settleInferenceOnce's debit, which fires the trigger
Debit ==
  /\ balance > 0
  /\ balance' = balance - 1
  /\ MaybeTrigger(balance', OnHold)
  /\ UNCHANGED <<gateway, payments, opening, sweeping, refunding, credits, guessed,
                 used, breakerVars, restarts>>

\* An answer the wallet could not pay, which fires it too
Unbilled ==
  /\ MaybeTrigger(balance, OnHold)
  /\ UNCHANGED <<topUpVars, used, breakerVars, restarts>>
-----------------------------------------------------------------------------
(* The breaker: time, sweepPausedRenters, and the renter's own settings *)

\* 24 hours later; the soft lock is long over.
PauseEnds ==
  /\ pause = "running" /\ ~ locked
  /\ pause' = "over"
  /\ UNCHANGED <<topUpVars, attempts, answer, used, failures, card, clearing, locked, restarts>>

SelectPaused ==
  /\ pause = "over" /\ card = "enabled" /\ ~ clearing
  /\ clearing' = TRUE
  /\ UNCHANGED <<topUpVars, attempts, answer, used, failures, pause, card, locked, restarts>>

Reset == failures' = 0 /\ pause' = "none"

\* After the renters before this one, whose recharges were awaited
ClearPause ==
  /\ clearing
  /\ clearing' = FALSE
  /\ Reset
  /\ MaybeTrigger(balance, FALSE)
  /\ UNCHANGED <<topUpVars, used, card, restarts>>

SaveCardToken ==
  /\ Reset
  /\ card' = IF card = "none" THEN "saved" ELSE card
  /\ UNCHANGED <<topUpVars, attempts, answer, used, clearing, locked, restarts>>

\* updateSettings and DELETE saved-card
SetCard(from, to) ==
  /\ card \in from
  /\ card' = to
  /\ UNCHANGED <<topUpVars, attempts, answer, used, failures, pause, clearing, locked, restarts>>

UpdateSettings ==
  SetCard({"saved", "enabled"}, "enabled") \/ SetCard({"saved", "enabled"}, "saved")

DeleteCard == SetCard({"none", "saved", "enabled"}, "none")

BreakerStep ==
  \/ PauseEnds \/ SelectPaused \/ ClearPause
  \/ SaveCardToken \/ UpdateSettings \/ DeleteCard

LockElapses ==
  /\ locked
  /\ locked' = FALSE
  /\ UNCHANGED <<topUpVars, attempts, answer, used, breakerVars, restarts>>
-----------------------------------------------------------------------------
(* POST /payments at Moyasar (external), and its answer *)

GatewayCharges(a, status) ==
  /\ answer[a] = "asked"
  /\ \A c \in DOMAIN charges : charges[c].of # AttemptId(a)
  /\ Len(charges) < MaxCharges
  /\ charges' = Append(charges, [of |-> AttemptId(a), status |-> status])
  /\ answer' = [answer EXCEPT ![a] = status]
  /\ UNCHANGED <<invoices, payments, opening, sweeping, refunding, balance, credits,
                 guessed, attempts, used, breakerVars, locked, restarts>>

ChargeOf(a) == CHOOSE c \in DOMAIN charges : charges[c].of = AttemptId(a)

\* INSERT OR IGNORE: moyasar_id is UNIQUE.
Mirror(a, status) ==
  IF BoundTo(ChargeId(ChargeOf(a))) # {} THEN payments
  ELSE Append(payments, NewRow("auto", ChargeId(ChargeOf(a)), status))

FinalizePaid(a) ==
  /\ answer[a] = "paid"
  /\ answer' = [answer EXCEPT ![a] = "none"]
  /\ attempts' = [attempts EXCEPT ![a] = [status |-> "paid", charge |-> ChargeOf(a)]]
  /\ payments' = Mirror(a, "paid")
  /\ Credit({ChargeOf(a)})
  /\ used' = used + 1
  /\ Reset
  /\ UNCHANGED <<gateway, opening, sweeping, refunding, guessed, card, clearing, locked, restarts>>

StepUp(a) ==
  /\ answer[a] = "initiated"
  /\ answer' = [answer EXCEPT ![a] = "none"]
  /\ attempts' = [attempts EXCEPT ![a] =
       [status |-> "3ds_required", charge |-> ChargeOf(a)]]
  /\ payments' = Mirror(a, "initiated")
  /\ UNCHANGED <<gateway, opening, sweeping, refunding, balance, credits, guessed,
                 used, breakerVars, locked, restarts>>

\* Mutant: one failure too many before the pause.
PausesAbove(count) == count > MaxFailures

PausesAt(count) == count >= MaxFailures

\* A decline, or an error or timeout whatever became of the charge
FinalizeFailure(a) ==
  /\ answer[a] # "none"
  /\ answer' = [answer EXCEPT ![a] = "none"]
  /\ attempts' = [attempts EXCEPT ![a].status = "failed"]
  /\ failures' = failures + 1
  /\ pause' = IF PausesAt(failures + 1) THEN "running" ELSE "none"
  /\ UNCHANGED <<topUpVars, used, card, clearing, locked, restarts>>
-----------------------------------------------------------------------------
(* The webhook, with what it does to the attempt of its charge *)

OpenAttempts(c) ==
  {a \in DOMAIN attempts :
     attempts[a].charge = c /\ attempts[a].status \in {"3ds_required", "initiated"}}

Close(c, status) ==
  attempts' = [a \in DOMAIN attempts |->
    IF a \in OpenAttempts(c) THEN [attempts[a] EXCEPT !.status = status] ELSE attempts[a]]

\* Mutant: the webhook credits without counting the recharge against the cap.
CountNever(c) == used

Count(c) == used + Cardinality(OpenAttempts(c))

\* A row found by its invoice or by a guess is looked up under its old id.
Webhook(c, status, k) ==
  /\ status \in EventsOf(c)
  /\ k \in Match(c, status)
  /\ Deliver(c, status, k)
  /\ LET acted == ~ Stale(payments[k].status, status)
         known == k \in BoundTo(ChargeId(c)) /\ OpenAttempts(c) # {}
     IN  \/ /\ acted /\ known /\ status = "paid"
            /\ Close(c, "paid")
            /\ used' = Count(c)
            /\ Reset
         \/ /\ acted /\ known /\ status = "failed"
            /\ Close(c, "failed")
            /\ UNCHANGED <<used, failures, pause>>
         \/ /\ ~ (acted /\ known /\ status \in {"paid", "failed"})
            /\ UNCHANGED <<attempts, used, failures, pause>>
  /\ UNCHANGED <<answer, card, clearing, locked, restarts>>

VerifyTopup(k) == Verify(k) /\ UNCHANGED autoVars

Restart ==
  /\ restarts < MaxRestarts
  /\ opening # {} \/ sweeping # {} \/ refunding # {} \/ clearing
       \/ \E a \in DOMAIN answer : answer[a] # "none"
  /\ Lost
  /\ answer' = [a \in DOMAIN answer |-> "none"]
  /\ clearing' = FALSE
  /\ restarts' = restarts + 1
  /\ UNCHANGED <<attempts, used, failures, pause, card, locked>>

AutoStep ==
  \/ Debit \/ Unbilled \/ LockElapses \/ BreakerStep
  \/ \E a \in DOMAIN attempts :
       \/ \E s \in {"initiated", "paid", "failed"} : GatewayCharges(a, s)
       \/ FinalizePaid(a) \/ StepUp(a) \/ FinalizeFailure(a)

AutoNext ==
  \/ TopUpNext /\ UNCHANGED autoVars
  \/ \E c \in DOMAIN charges, k \in Rows :
       \E s \in {"initiated", "paid", "failed", "refunded"} : Webhook(c, s, k)
  \/ \E k \in Rows : VerifyTopup(k)
  \/ AutoStep
  \/ Restart
-----------------------------------------------------------------------------
(* Properties *)

\* The webhook, the verify poll, the sweep, confirm-topup and finalizePaid all
\* credit the wallet; one charge at Moyasar is credited at most once, unless the
\* webhook matched it to a row by amount alone before its own handler had the
\* answer (payments.js:715).
CreditedOnce == \A c \in DOMAIN charges : credits[c] <= 1 \/ c \in guessed

\* The wallet grows only by a confirmed transfer or by a charge that Moyasar has
\* taken, although four paths mark rows paid and the id in a row changes while
\* the sweep holds an older one.
OnlyPaidIsCredited ==
  [][balance' > balance =>
       \/ \E k \in TransferRows : Payable(k) /\ payments'[k].status = "paid"
       \/ \E c \in DOMAIN charges :
            credits'[c] > credits[c] /\ charges[c].status \in {"paid", "refunded"}
    ]_balance

\* A paid row is left only by a refund and a refunded one never, whatever late
\* webhook, sweep, poll or approval still holds it (markPaymentPaidOnce's and
\* markPaymentRefundedOnce's guards).
PaidIsFinal ==
  [][\A k \in Rows :
       /\ payments[k].status = "paid" => payments'[k].status \in {"paid", "refunded"}
       /\ payments[k].status = "refunded" => payments'[k].status = "refunded"]_payments

\* Whoever learns of a refund, the approval that awaited Moyasar or the refunded
\* webhook that overtook it, the wallet is debited for it only as a row leaves
\* paid for refunded; the renter's own spending changes no row.
RefundedOnce ==
  [][balance' < balance /\ <<payments, refunding>>' # <<payments, refunding>> =>
       \E k \in Rows : payments[k].status = "paid" /\ payments'[k].status = "refunded"
     ]_<<balance, payments, refunding>>

\* auto_topup_monthly_used counts the attempts that ended paid, by the answer or
\* by the webhook after 3-D Secure, and each of those was credited.
PaidAttemptsAreCounted ==
  LET paidOnes == {a \in DOMAIN attempts : attempts[a].status = "paid"}
  IN  /\ used = Cardinality(paidOnes)
      /\ \A a \in paidOnes : credits[attempts[a].charge] > 0

\* auto_topup_paused_until is set, whether it lies ahead or has passed and waits for
\* the sweep, exactly while the counter is at MAX_CONSECUTIVE_FAILURES: with several
\* recharges in flight at once, some begun after the pause had passed, and five writers
\* of the pair (a decline, a paid answer, the webhook, the sweep and a new card).
PausedAfterFailures == pause # "none" <=> failures >= MaxFailures

\* autoTopupService.js:10 "...but never more than Z SAR in a calendar month."
RechargedWithinCap ==
  MonthlyCap > 0 =>
    Cardinality({c \in DOMAIN charges : charges[c].of[1] = "attempt"
                   /\ charges[c].status \in {"paid", "refunded"}}) <= MonthlyCap

\* The sweep of server.js: an open card row whose invoice is paid is credited,
\* unless the webhook has bound it to another charge (a declined first card, or a
\* guess), after which neither the sweep nor a later webhook finds the invoice.
PaidInvoiceIsCredited ==
  \A n \in 1 .. MaxInvoices, k \in 1 .. MaxInvoices + MaxTransfers + MaxAttempts :
    (k \in Rows /\ n \in DOMAIN invoices /\ Unsettled(k)
       /\ invoices[n] = "paid" /\ payments[k].moyasar = InvoiceId(n))
    ~> (k \in Rows /\ \/ payments[k].status \in {"paid", "refunded"}
                       \/ payments[k].moyasar # InvoiceId(n))

\* server.js sweeps every 10 minutes and Moyasar answers.
SweepFairness ==
  /\ WF_<<topUpVars, autoVars>>(SweepSelect /\ UNCHANGED autoVars)
  /\ WF_<<topUpVars, autoVars>>(SweepApply /\ UNCHANGED autoVars)

AutoSpec == AutoInit /\ [][AutoNext]_<<topUpVars, autoVars>> /\ SweepFairness
=============================================================================

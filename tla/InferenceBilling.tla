--------------------------- MODULE InferenceBilling ---------------------------
(***************************************************************************)
(* POST /v1/chat/completions from the balance gate to the settlement, and  *)
(* billingService.settleInferenceOnce, the one transaction that charges    *)
(* for inference.  A request id (Idempotency-Key, x-request-id or a random *)
(* one) is charged at most once; the process serving it may answer, fail   *)
(* over to other providers, fail, or die.  There is no await between the   *)
(* gates and the upstream call, nor between the answer and the response:   *)
(* each is one step, except that a crash may separate the settlement from  *)
(* the receipts written after it.                                          *)
(***************************************************************************)
EXTENDS Integers, Sequences, FiniteSets, Functions

CONSTANTS
  Calls,         \* HTTP requests handled at the same time
  Keys,          \* request ids the renter's client uses
  Requests,      \* every id billing_attempts may hold: Keys and batch lines
  Nodes,         \* inference providers that serve the model
  MaxInflight,   \* MAX_INFLIGHT_PER_PROVIDER
  MaxCost,       \* bound: the price of one answer, in halalas
  PromptCost,    \* what the receipt of a failed request says its prompt cost
  Deposit,       \* the renter's PAYG balance at the start
  Grants,        \* subscription credit grants, the earliest to expire first
  Cap            \* renters.monthly_spend_cap_halala; 0 is no cap

ASSUME KeysAssumption == Keys \subseteq Requests
ASSUME CallsAssumption == IsFiniteSet(Calls)
ASSUME AmountsAssumption ==
  /\ MaxInflight \in Nat \ {0}
  /\ MaxCost \in Nat \ {0}
  /\ PromptCost \in 0 .. MaxCost
  /\ Deposit \in Nat
  /\ Cap \in Nat
  /\ Grants \in Seq(Nat)

VARIABLES
  call,       \* the handlers in progress
  inflight,   \* _inflightByProvider, in memory
  cache,      \* the keys _idempotencyCache can replay, in memory
  balance,    \* renters.balance_halala
  consumed,   \* subscription_credits.consumed_halala
  expired,    \* how many grants have passed expires_at
  attempt,    \* billing_attempts
  event,      \* usage_events, UNIQUE on request_id
  ledger,     \* openrouter_usage_ledger, first row of a request_id wins
  earned      \* providers.claimable_earnings_halala

money == <<balance, consumed, attempt, event, earned>>
billingVars == <<call, inflight, cache, money, expired, ledger>>

Costs == 0 .. MaxCost
NoCall == [phase |-> "idle"]
NoAttempt == [status |-> "none"]
NoReceipt == [status |-> "none", cost |-> 0]

Handler ==
  [phase : {"proxy", "queue"}, key : Keys, node : Nodes, slots : SUBSET Nodes,
   rest : SUBSET Nodes, stream : BOOLEAN]
Attempt ==
  [status : {"settled", "insufficient_balance", "no_answer"}, cost : Costs,
   drained : Costs, paid : Costs, node : Nodes]
Receipt == [status : {"none", "settled", "failed"}, cost : Costs]

BillingTypeOK ==
  /\ call \in [Calls -> Handler \cup {NoCall}]
  /\ inflight \in [Nodes -> 0 .. MaxInflight]
  /\ cache \subseteq Keys
  /\ balance \in Int
  /\ consumed \in [DOMAIN Grants -> Nat]
  /\ expired \in 0 .. Len(Grants)
  /\ attempt \in [Requests -> Attempt \cup {NoAttempt}]
  /\ event \in [Requests -> Receipt]
  /\ ledger \in [Requests -> Receipt]
  /\ earned \in [Nodes -> Nat]

BillingInit ==
  /\ call = [c \in Calls |-> NoCall]
  /\ inflight = [n \in Nodes |-> 0]
  /\ cache = {}
  /\ balance = Deposit
  /\ consumed = [g \in DOMAIN Grants |-> 0]
  /\ expired = 0
  /\ attempt = [r \in Requests |-> NoAttempt]
  /\ event = [r \in Requests |-> NoReceipt]
  /\ ledger = [r \in Requests |-> NoReceipt]
  /\ earned = [n \in Nodes |-> 0]
-----------------------------------------------------------------------------
(* Subscription credits: drained oldest-expiring first. *)

Least(a, b) == IF a <= b THEN a ELSE b
Most(a, b) == IF a <= b THEN b ELSE a

\* getAvailableCredits: what a grant still offers
Available(g) == IF g <= expired THEN 0 ELSE Grants[g] - consumed[g]

\* debitSubscriptionCredits: what the grants before g leave for it
Take(g, cost) ==
  LET before == SumFunction([h \in 1 .. (g - 1) |-> Available(h)])
  IN  Least(Available(g), Most(0, cost - before))

Drained(cost) == SumFunction([g \in DOMAIN Grants |-> Take(g, cost)])

\* Mutant: the wallet pays the whole price beside the drained credits.
ShortfallOfAll(cost) == cost

Shortfall(cost) == cost - Drained(cost)

\* getEffectiveBalance
Spendable == balance + SumFunction([g \in DOMAIN Grants |-> Available(g)])
-----------------------------------------------------------------------------
(* settleInferenceOnce: claim, drain, debit, credit and receipt at once. *)

\* splitCost: the provider's 75%, floored
ProviderShare(cost) == (cost * 75) \div 100

\* UNIQUE (request_id): the first receipt stays
Kept(rows, r, status, cost) ==
  IF rows[r].status = "none"
  THEN [rows EXCEPT ![r] = [status |-> status, cost |-> cost]] ELSE rows

\* Mutant: the PAYG debit has no `balance_halala >= ?`.
AffordsAlways(cost) == TRUE

Affords(cost) == balance >= Shortfall(cost)

\* Mutant: INSERT OR REPLACE, so the claim is never refused.
UnclaimedAlways(r) == TRUE

Unclaimed(r) == attempt[r].status = "none"

SettleInferenceOnce(r, n, cost) ==
  /\ Unclaimed(r)
  /\ Affords(cost)
  /\ attempt' = [attempt EXCEPT ![r] =
       [status |-> "settled", cost |-> cost, drained |-> Drained(cost),
        paid |-> Shortfall(cost), node |-> n]]
  /\ consumed' = [g \in DOMAIN Grants |-> consumed[g] + Take(g, cost)]
  /\ balance' = balance - Shortfall(cost)
  /\ earned' = [earned EXCEPT ![n] = @ + ProviderShare(cost)]
  /\ event' = Kept(event, r, "settled", cost)

\* Mutant: the receipt of an unbilled answer says it was settled.
ClaimReceipted(r, n, status, claimed, cost) ==
  /\ attempt' = IF ~ Unclaimed(r) THEN attempt
                ELSE [attempt EXCEPT ![r] =
                  [status |-> status, cost |-> claimed, drained |-> 0,
                   paid |-> 0, node |-> n]]
  /\ event' = Kept(event, r, "settled", cost)
  /\ ledger' = Kept(ledger, r, "failed", cost)
  /\ UNCHANGED <<balance, consumed, earned>>

\* A claim without a charge: INSERT OR IGNORE INTO billing_attempts, and the
\* failed receipts in the same transaction
ClaimUncharged(r, n, status, claimed, cost) ==
  /\ attempt' = IF ~ Unclaimed(r) THEN attempt
                ELSE [attempt EXCEPT ![r] =
                  [status |-> status, cost |-> claimed, drained |-> 0,
                   paid |-> 0, node |-> n]]
  /\ event' = Kept(event, r, "failed", cost)
  /\ ledger' = Kept(ledger, r, "failed", cost)
  /\ UNCHANGED <<balance, consumed, earned>>
-----------------------------------------------------------------------------
(* The handler of POST /v1/chat/completions. *)

Spent == SumFunction([r \in Requests |-> ledger[r].cost])

\* checkBalanceGate and checkBudgetCap
WithinBudget(est) == Cap = 0 \/ Spent + est <= Cap
Gates(est) == Spendable >= est /\ WithinBudget(est)

\* Mutant: acquireProviderSlot compares with `>` instead of `>=`.
FreeOrFull(n) == inflight[n] <= MaxInflight

Free(n) == inflight[n] < MaxInflight

\* A request passes the gates and takes the slot of the selected provider.
Admit(c, k, n, others, stream, est) ==
  /\ call[c] = NoCall
  /\ stream \/ k \notin cache
  /\ Gates(est)
  /\ Free(n)
  /\ n \notin others
  /\ call' = [call EXCEPT ![c] =
       [phase |-> "proxy", key |-> k, node |-> n, slots |-> {n},
        rest |-> others, stream |-> stream]]
  /\ inflight' = [inflight EXCEPT ![n] = @ + 1]
  /\ UNCHANGED <<cache, money, expired, ledger>>

\* The selected provider has no endpoint: a `pending` job its daemon polls for.
\* (A streaming request skips the cache, so a cached key is no obstacle.)
Enqueue(c, k, n, est) ==
  /\ call[c] = NoCall
  /\ Gates(est)
  /\ call' = [call EXCEPT ![c] =
       [phase |-> "queue", key |-> k, node |-> n, slots |-> {},
        rest |-> {}, stream |-> FALSE]]
  /\ UNCHANGED <<inflight, cache, money, expired, ledger>>

\* The upstream failed: the next candidate that is not busy is tried.
FailOver(c, n) ==
  /\ call[c].phase = "proxy"
  /\ n \in call[c].rest
  /\ Free(n)
  /\ \E skipped \in SUBSET {m \in call[c].rest : ~ Free(m)} :
       call' = [call EXCEPT ![c].node = n, ![c].slots = @ \cup {n},
                            ![c].rest = @ \ (skipped \cup {n})]
  /\ inflight' = [inflight EXCEPT ![n] = @ + 1]
  /\ UNCHANGED <<cache, money, expired, ledger>>

\* Mutant: only the slot of the provider that answered is released.
ReleaseLast(c) ==
  inflight' = [n \in Nodes |->
    IF n = call[c].node /\ n \in call[c].slots THEN inflight[n] - 1
    ELSE inflight[n]]

\* finally: every slot the request holds is released
Release(c) ==
  inflight' = [n \in Nodes |->
    IF n \in call[c].slots THEN inflight[n] - 1 ELSE inflight[n]]

Finish(c) == Release(c) /\ call' = [call EXCEPT ![c] = NoCall]

\* The response of a proxied, non-streaming request can be replayed.
Remember(c) ==
  cache' = IF call[c].phase = "proxy" /\ ~ call[c].stream
           THEN cache \cup {call[c].key} ELSE cache

\* debitAndPersistUsage for a billable answer
Charge(c, cost) ==
  /\ SettleInferenceOnce(call[c].key, call[c].node, cost)
  /\ ledger' = Kept(ledger, call[c].key, "settled", cost)

\* already_settled: only missing receipts are added
Replay(c, cost) ==
  /\ ~ Unclaimed(call[c].key)
  /\ event' = Kept(event, call[c].key, "settled", cost)
  /\ ledger' = Kept(ledger, call[c].key, "settled", cost)
  /\ UNCHANGED <<balance, consumed, attempt, earned>>

\* InsufficientBalanceError: delivered, recorded and never billed
Unbilled(c, cost) ==
  /\ Unclaimed(call[c].key)
  /\ ~ Affords(cost)
  /\ ClaimUncharged(call[c].key, call[c].node, "insufficient_balance", cost, cost)

Answer(c, cost) ==
  /\ call[c] # NoCall
  /\ Charge(c, cost) \/ Replay(c, cost) \/ Unbilled(c, cost)
  /\ Finish(c)
  /\ Remember(c)
  /\ UNCHANGED expired

\* isUnbillableNonAnswer: an empty answer that stopped on `length`
AnswerNothing(c) ==
  /\ call[c] # NoCall
  /\ ClaimUncharged(call[c].key, call[c].node, "no_answer", 0, PromptCost)
  /\ Finish(c)
  /\ Remember(c)
  /\ UNCHANGED expired

\* Every candidate failed, a stream broke off, or the queued job ended badly or
\* did not end within the poll: persistFailureUsageBestEffort.
Fail(c) ==
  /\ call[c] # NoCall
  /\ call[c].stream \/ \A n \in call[c].rest : ~ Free(n)
  /\ event' = Kept(event, call[c].key, "failed", PromptCost)
  /\ ledger' = Kept(ledger, call[c].key, "failed", PromptCost)
  /\ Finish(c)
  /\ UNCHANGED <<cache, balance, consumed, attempt, earned, expired>>

\* IDEMPOTENCY_TTL_MS
Forget(k) ==
  /\ k \in cache
  /\ cache' = cache \ {k}
  /\ UNCHANGED <<call, inflight, money, expired, ledger>>

\* A grant passes expires_at.
ExpireGrant ==
  /\ expired < Len(Grants)
  /\ expired' = expired + 1
  /\ UNCHANGED <<call, inflight, cache, money, ledger>>

\* The API process dies and comes back: its memory is gone.
Restart ==
  /\ call' = [c \in Calls |-> NoCall]
  /\ inflight' = [n \in Nodes |-> 0]
  /\ cache' = {}

Crash == Restart /\ UNCHANGED <<money, expired, ledger>>

\* Mutant: the debit commits before the claim that belongs to it.
DebitThenCrash(c, cost) ==
  /\ call[c] # NoCall
  /\ Unclaimed(call[c].key) /\ Affords(cost)
  /\ consumed' = [g \in DOMAIN Grants |-> consumed[g] + Take(g, cost)]
  /\ balance' = balance - Shortfall(cost)
  /\ Restart
  /\ UNCHANGED <<attempt, event, earned, expired, ledger>>

\* ... after the settlement committed and before the ledger row
SettleThenCrash(c, cost) ==
  /\ call[c] # NoCall
  /\ SettleInferenceOnce(call[c].key, call[c].node, cost)
  /\ Restart
  /\ UNCHANGED <<expired, ledger>>

HandlerStep(c) ==
  \/ \E n \in Nodes : FailOver(c, n)
  \/ \E cost \in 1 .. MaxCost : Answer(c, cost)
  \/ AnswerNothing(c)
  \/ Fail(c)

BillingNext ==
  \/ \E c \in Calls, k \in Keys, n \in Nodes, est \in 1 .. MaxCost :
       \/ \E others \in SUBSET Nodes, stream \in BOOLEAN :
            Admit(c, k, n, others, stream, est)
       \/ Enqueue(c, k, n, est)
  \/ \E c \in Calls : HandlerStep(c)
  \/ \E c \in Calls, cost \in 1 .. MaxCost : SettleThenCrash(c, cost)
  \/ \E k \in Keys : Forget(k)
  \/ ExpireGrant
  \/ Crash
-----------------------------------------------------------------------------
(* Properties. *)

\* The wallet and the grants are never drawn below zero, however many answers
\* arrive between the balance gate of a request and its settlement.
NeverOverdrawn ==
  /\ balance >= 0
  /\ \A g \in DOMAIN Grants : consumed[g] <= Grants[g]

\* The charges: the attempts that settled, and those a provider has a share of
Settled == {r \in Requests : attempt[r].status = "settled"}
SettledOn(n) == {r \in Settled : attempt[r].node = n}

\* settleInferenceOnce moves every charge exactly once: what left the wallet
\* and the grants is what the settled attempts say, and each provider has its
\* share of exactly those, whatever was retried, replayed or lost in a crash.
ChargesBalance ==
  /\ balance = Deposit - SumFunction([r \in Settled |-> attempt[r].paid])
  /\ SumFunction(consumed) = SumFunction([r \in Settled |-> attempt[r].drained])
  /\ \A r \in Settled : attempt[r].cost = attempt[r].paid + attempt[r].drained
  /\ \A n \in Nodes : earned[n] =
       SumFunction([r \in SettledOn(n) |-> ProviderShare(attempt[r].cost)])

\* A request id is disposed of once: a settled, unbilled or empty answer is
\* never settled again, by a retry, a second request in flight or a batch run.
AttemptIsFinal ==
  [][\A r \in Requests :
       attempt[r].status # "none" => attempt'[r] = attempt[r]]_billingVars

\* A usage event that says `settled` is backed by a charge of the same amount
\* (the converse fails: a retry under the key of a failed request is charged
\* and its event still says `failed`).
ReceiptsAreBacked ==
  \A r \in Requests :
    event[r].status = "settled" =>
      attempt[r].status = "settled" /\ attempt[r].cost = event[r].cost

\* The slot counter of a provider is the number of requests that hold it: no
\* path through fail-over, a broken stream or a crash leaks or shares a slot.
SlotsAreHeld ==
  \A n \in Nodes :
    inflight[n] = Cardinality({c \in Calls : call[c] # NoCall /\ n \in call[c].slots})
=============================================================================

# TLA+ model of the platform's money and work

This directory specifies, model-checks and proves properties of the parts of the
platform that move money or hand out work: the lifecycle of a job from its debit to its
settlement, as implemented by the API process (`backend/src`), the burst
provisioner (`ops/burst.py`) and the provider daemons that call the API; inference
billing and batch inference; money in (top-ups, refunds, automatic recharges) and money
out (payouts, withdrawals); and Mission Control with its dispatcher.

## 1. The system

The backend is one Node process over one SQLite file (better-sqlite3). A request
handler or a timer callback is synchronous up to its first `await`, so it is
atomic with respect to the other handlers up to there. What interleaves is the order of
handlers, what happens while one awaits Moyasar or an upstream, the timers, a few worker
processes (the batch worker, the dispatcher), `burst.py` (a separate Python
process on the same file), and daemons that answer long after the state they
answer to has changed.

| Component | State | Operations | Hard parts | What makes it correct |
|---|---|---|---|---|
| Pod API (`routes/pods.js`, `services/burstLaunchRefund.js`) | `jobs`, `renters.balance_halala`, `escrow_holds.amount_halala` | launch, stop, extend | prepaid debit, once-only refunds, races with timers | money divided once and within the prepaid |
| Burst provisioner (`ops/burst.py`) | the same rows, from another process | `job_success`, `job_fail` | reads, then writes without looking again | a failed launch is refunded once |
| Provider API (`routes/providers.js`) | `jobs`, `escrow_holds`, earnings | poll, `job-result` | late or repeated reports, overruns | clamp to the quote, verdict matches payment |
| Job API (`routes/jobs.js`) | the same | submit, retry, assign, progress, endpoint-ready, result, fail, complete, cancel, pause, resume | reports checked against the provider only, five ways to end a job | a live row has a deadline, a waiting row is deliverable |
| Timers (`enforceJobTimeouts`, `services/jobSweep.js`, `services/providerLivenessMonitor.js`) | the same | expire, settle, cancel, retry, requeue | race with handlers and with each other | every pod ends, and is settled once |
| Admin (`routes/admin.js`) | the same | cancel, requeue | repair actions on settled rows | no second disposal of the money |
| Inference billing (`routes/v1.js`, `billingService.js`, `subscriptionService.js`) | `billing_attempts`, `usage_events`, the usage ledger, wallet and grants; slots and idempotency cache in memory | gate, fail-over, queue, settle, receipts | retries under one request id, crash between the charge and its receipt | a request is charged once, receipts and slots tell the truth |
| Batch inference (`batchInferenceJobs.js`, `batchInferenceSettlement.js`, its worker) | batches and lines | create, insert lines, execute, take proofs, settle line by line | a second process on the same wallet, crash between statements, settlement on or off | a settled line was charged, a completed batch was settled whole or not at all |
| Wallet top-ups and refunds (`routes/payments.js`, `routes/payouts.js`, `server.js`) | `payments`, wallet | topup, webhook, verify, reconcile, confirm, request and approve a refund | webhooks late, twice, reversed, lost; five writers of one row | a charge is credited once, a refund is debited once |
| Auto top-up (`autoTopupService.js`) | `auto_topup_attempts`, counters on `renters` | trigger, answer, 3-D Secure, pause, sweep of pauses, save or forget the card, enable or disable | several recharges in flight, a pause that has passed but is not swept, counters written by five paths | counters agree with what was charged, a pause with the failures |
| Payouts and withdrawals (`payoutService.js`, `escrowListener.js`, admin routes) | `payout_requests`, `withdrawal_requests`, `claimable_earnings_halala` | request, approve, sync, mark, reject, sweep | lost answers, two admins, sync against rejection | earnings are conserved, a payout is disbursed once |
| Mission control (`routes/mission.js`, `lib/missionClaims.js`) and its dispatcher (`dispatcher/`) | `mission_tasks`; a tick in another process's memory | claim, renew, release, edit; reset, repair | plans on a stale list, failing calls, crashes | live claims are kept, one task per outage |
| Credit-hold dispatch (`jobDispatchService.js`, `creditService.js`, `jobQueue.js`) | credit holds, in-memory queue | dispatch, complete, fail | two billing schemes over one table | not modelled, see section 5 |
| Everything else | volumes, LoRA training, on-chain escrow, provider health, recovery loop, notifications, web, SDKs | | | listed in `PROJECT.json` with the reason it is not modelled |

The components meet in few places: the wallet (`renters.balance_halala`), debited by
launches and by inference and credited by refunds and top-ups, always by a single
guarded `UPDATE`; `providers.claimable_earnings_halala`, fed by settlements and drained by
payouts; and the trigger of auto top-up after an inference debit. `InferenceBilling` with
`BatchInference`, and `TopUps` with `AutoTopUp`, are composed because they race for the same rows.
The other pairs meet only through an increment or a guarded decrement, which each module
keeps at its own side (`Earn`, `Debit`, `Credit`).

## 2. Modules

| Module | Models |
|---|---|
| `JobTable` | constants, the row of a job with its escrow hold, the renter's wallet, and what the settlement paths share: `Settle`, `Refund`, `Release`, `Lock`, `Unassign`, `Promoted` |
| `PodApi` | launch (native, serve, burst, failed spawn), stop, extend; `burst.py` |
| `ProviderApi` | both poll routes, phase and readiness reports, `job-result`, `result`, `fail` |
| `JobApi` | submit, retry, cancel, complete, the PATCH routes, pause, resume, admin cancel and requeue |
| `Sweeps` | timeout enforcer, both loops of the pod sweep, retry sweep, offline sweep, liveness requeue |
| `Marketplace` | the composition, its fairness, and every property |
| `PrepaidContract` | abstract specification: what is promised about the money of one job |
| `MCMarketplace` | symmetry sets for TLC |
| `MarketplaceProofs`, `SettlementProofs`, `EscrowProofs` | theorems and proofs about the job core |
| `InferenceBilling` | POST /v1/chat/completions from its gates to its receipts, provider slots, the idempotency cache, `settleInferenceOnce`, subscription grants, crashes |
| `BatchInference` | extends it: batches, lines, the worker statement by statement; `ServiceSpec` composes both |
| `ChargeAccount` | abstract specification: what is promised about charging inference, interactive or batched |
| `MCServices`, `ServicesProofs` | slices for TLC; theorems and proofs |
| `SumProofs` | lemmas about sums over finite sets, for the proofs about amounts |
| `TopUps` | card invoices, transfers, the webhook, verify, the reconciliation sweep, refund requests; Moyasar (external) |
| `AutoTopUp` | extends it: trigger, answer, 3-D Secure, breaker, monthly cap; `AutoSpec` composes both |
| `Payouts` | payout requests by hand and through Moyasar, the sync and its sweep, the escrow listener, withdrawals |
| `MCTreasury`, `TreasuryProofs`, `PayoutsProofs` | slices for TLC; theorems and proofs |
| `MissionBoard` | `mission_tasks` under agents, people and the dispatcher's tick |
| `MCMission`, `MissionProofs` | slices for TLC; theorems and proofs |

**Job core.** A handler is a function from a row to a row, and an action installs the row it
returns (`Post`), moving in the wallet exactly what the row's ledger was credited
with. The columns of `Row` are the columns the guards read. Five of its fields are not columns of the code's tables:

- `returned`, `earned` and `settles` are a ledger: what this job has given back to
  the renter, paid to providers, and how often its prepaid was disposed of. No
  guard of a handler reads them, except where a run bounds repetitions.
- `agents` is the set of daemons still bringing the job up, and `burst` is where
  `burst.py` stands. They are the program counters of the other processes.

Abstractions:

- Clocks. A timestamp column is NULL or set. A deadline that is set may pass at
  any moment, so every order of a timer and a handler is explored.
- Metered cost is any amount up to the quote, or up to `MaxCost` under the
  `overrun` exposure. `MaxCost` also stands for the 48 hour ceiling of an extension.
- Which queued job is promoted or delivered first (pricing class, priority, age) is a
  nondeterministic choice. Pending before queued is kept.
- One renter, since no modelled handler relates two wallets.
- A v1 chat completion queued as a job is billed elsewhere (`billingOwnedByV1`) and is left out.

**Exposures.** Some handlers act on jobs whose money is settled. Each way of doing so is
a named member of the constant `Exposures`, so that a run says which of them it
includes: cancelling a failed or stopped job (`cancelSettled`), PATCH complete or fail on a
settled job (`patchSettled`), an admin requeue of one (`requeueSettled`), `burst.py`'s read
and write as two steps (`burstRace`), and metering beyond the quote (`overrun`). `MaxSettles`
bounds how often a row is settled before the repeating handlers are switched off, and
`MaxLate` how many daemon reports reach a settled row. Open jobs are never restricted.

**Inference and batches.** A handler runs from the gates to the upstream call without an
`await`, so admission is one step, and so is the answer, except that the process may die between the
settlement and the ledger row (`SettleThenCrash`). One renter and one model; a price is any amount
up to `MaxCost`. Grants have no production caller but are read by every settlement. Model choice, scoped-key
caps and the text of answers are left out.

A batch row and its lines are inserted statement by statement (`CreateBatch`, `InsertLine`), between which the worker
may take the batch and the API process may die. The API process is one thread, so while it inserts it does nothing else.
The worker takes a batch, awaits its executor, reads the lines for which it expects proofs (`AcceptProofs`), and writes one
proof after the other (`ApplyProof`). With settlement on, it then gates the batch, charges a line by
`settleInferenceOnce` (`SettleLine`) and marks it by the next statement (`MarkLine`); marks that only the worker itself
reads are part of the step before them. `DCP_BATCH_SETTLEMENT_ENABLED` is off by default
(`batchInferenceWorker.js` 22, 72): a batch then completes with its lines `unsettled` and nothing charged, as
`tests/batch-inference-contract-proof.js` expects, and so may one whose executor reports no lines. `StartBatch` takes the flag
either way, for each batch anew. The worker is dormant as the repository stands: nothing schedules it, and the one script that
runs it (`npm run worker:batch-inference:once`) needs `DCP_BATCH_WORKER_ENABLED` and passes no executor. The model is of
the worker given one, and assumes that one worker process runs at a time. What the code does that may surprise: nothing joins an
in-flight request as a comment in `v1.js` says, so a retry runs upstream a second time and is
only kept from being billed twice; a request recorded as unbilled keeps its claim, so its retry is free;
lines of a batch do not count toward the renter's budget cap.

**Money in.** All amounts are one unit: the code only compares equal amounts. Moyasar is external: a charge
moves from initiated to paid or failed and from paid to refunded, and a webhook for any status it has
had is delivered at any time, any number of times or never. `sweeping` is the list the sweep has selected and
still asks about, with the `moyasar_id` it read; `opening` and `refunding` are handlers that await Moyasar.

`pause` is `auto_topup_paused_until`: NULL, ahead, or passed. A passed pause holds nothing back (`OnHold`, the code's
`isPaused`), although it and the failures stay in the row until `sweepPausedRenters` clears them, and only for renters who have
the feature enabled: in between, `maybeTrigger` begins recharges with the failures still at the limit. The sweep selects its renters
first and clears them one after the other, awaiting the recharge of each; `clearing` says that this renter is selected
and not yet reached. A recharge that is declined meanwhile renews the pause, and the sweep, which clears by id alone
(`autoTopupService.js` 521), then ends it before its 24 hours. One such sweep runs at a time (every 15 minutes, `server.js` 1343). `card` is the saved card and
whether the feature is enabled with it; amounts, threshold and cap do not change, and the month of the cap does not roll over. History variables: `credits` (how often a charge was
credited), `guessed` (charges matched by renter and amount alone), `restarts` (bounds the restarts). No guard of a
handler reads the first two.

**Money out.** `waiting` and `syncing` are calls in memory; `earned` and `doubted` (a transfer was
accepted and the caller never learned of it) are history.

**Mission.** Modelled with `DISPATCHER_DRY_RUN=0`; by default the dispatcher only logs. A lease is none,
live or expired. `external` is the external id of a row. Rows created by people carry none, and
other producers of tasks (`fleet/actuator.js`, the mining check of `providers.js`), escalations, notices and the digest
are left out. `flaky` says that calls may fail and the process may die; it ends at some time, for liveness only.

## 3. Runs

Deadlock checking is off where the system may stop: once every id of a bound is used and ended,
nothing is left to do. `mission` checks it. The first eight runs check `MCMarketplace`.

| Run | Instance | Shows |
|---|---|---|
| `all` | one job of any type, two providers that may go offline, every exposure, two settlements, one late report | `TypeOK`, `LiveHasDeadline`, `WaitingIsDeliverable`, `HoldMatchesPrepaid`, `EscrowResolvesOnce` hold whatever anybody does |
| `once` | as `all`, nobody acts on settled jobs | `SettledOnce`, `PlatformNeverPays`, `HoldVerdict`, `RefundIsWhole`; the system implements `PrepaidContract` |
| `pair` | two pods, one provider that may go offline, overruns | `NoOverdraft`, `SettledOnce` with two jobs competing for a wallet and a provider: promotion, retry, extension |
| `live` | one pod, two polling providers, `FairSpec` | `PodsEnd`, `WaitingPodEnds` |
| `late` (violated) | one pod, one late report | `PlatformNeverPays` fails: endpoint-ready revives a stopped pod |
| `refund` (violated) | one burst pod, `cancelSettled` | `NeverRefundedTwice` fails: cancel refunds a refunded launch |
| `orphan` (violated) | one pod | `NoOrphanedHold` fails: the sweep settles without the hold |
| `stuck` (violated) | one pod, a provider that may go offline, `FairSpec` | `WaitingPodEnds` fails: a requeued pod that was once live is skipped by the stale sweep |
| `inference` | `MCServices`: two calls under one key, one beside a batch of two lines, or the batch alone; two nodes with one slot, prices 1 and 2 on a deposit of 2, a grant of 1, a cap of 3 | `ServiceTypeOK`, `NeverOverdrawn`, `ChargesBalance`, `ReceiptsAreBacked`, `SlotsAreHeld`, `SettledLinesAreCharged`, `CompletedBatchSettledWhole`, `AttemptIsFinal`; both processes together implement `ChargeAccount` |
| `treasury` | `MCTreasury`: six slices, see below | `AutoTypeOK`, `CreditedOnce`, `OnlyPaidIsCredited`, `PaidIsFinal`, `RefundedOnce`, `PaidAttemptsAreCounted`, `PausedAfterFailures`, `PaidInvoiceIsCredited`; `PayoutTypeOK`, `EarningsConserved`, `DisbursedOnce`, `EndedPayoutIsFinal`, `EndedTransferIsSynced` |
| `overcap` (violated) | as `treasury` | `RechargedWithinCap` fails: a second recharge begins while the first waits for 3-D Secure |
| `mission` | `MCMission`: two agents, two incidents, three task rows, a fleet list of one | `OneRepairTask`, `LiveClaimIsKept`, `ExpiredClaimEnds`, `UnlistedOutageGetsTask` |

Why these bounds are enough. In the job core, handlers touch one row, except promotion, the offline
sweeps and the shared wallet; two jobs on one provider exercise those three. Two
providers are needed for a job to move while its first daemon is still working on it. A
quote of 2 divides into a non-trivial 75/25 share (1 and 1) and allows a charge strictly
between zero and the quote (`pair`, which asks nothing about shares, has a quote of 1);
a limit of twice the quote allows one extension. Two
settlements show every repetition, a third adds nothing a property can see. In the
other direction the theorems below cover all values.

*Inference.* The races are between two requests of one id, between a request and its own retry after a
crash, between a request and the batch worker for the last halala, and between the worker and the insertion of the lines it
reads. Each behaviour stays in one slice: `requests` (two calls under one key, no batch), `both` (one call at a time beside a
batch that settles on one node, with all its lines inserted; a failed line costs nothing and a succeeded one something, since a line without charge is all they
are to the wallet), `batch` (no call; any outcome and any node for each line, a batch taken up before its lines are there, settlement on
and off). A price above what the grant leaves makes a charge draw on both purses; two prices make the
settlement of two answers on a deposit of 2 fail in the second; two nodes with one slot make fail-over
meet a busy node. Symmetry is on the nodes only, which no property of the run orders.

*Treasury.* Each behaviour stays in one slice: `cards` (three cards on one invoice beside a transfer: late
and reversed webhooks, rebinding), `invoices` (two invoices and a restart: the sweep holds several rows),
`recharges` (two recharges in flight and a restart), `mixed` (a recharge beside an invoice: the webhook's guess), `again` (one
payout sent twice beside a withdrawal), `requests` (two payouts). Money in and money out share no variable, so
they are not interleaved. A slice only bounds how much is created: it disables no webhook, sweep or sync step,
so it takes nothing from fairness. Only in `recharges` is the feature switched off or the card removed.

*Mission.* Slice `work` has everybody on one task beside an outage, `outages` has two incidents with a list of
one, and tasks that are closed, reopened and deleted. Three rows let a second task for an outage appear.

The five violated runs state what the code's own comments and docs say (quoted in
`PROJECT.json` under `findings`), and their counterexamples are a few steps long.

**Fairness.** `EnforceTimeout`, `SettleExpiredPod` and `CancelStalePod` are weakly fair, for
each job: they run on `setInterval` (30 s) for as long as the process lives. Delivery of a
pinned row is weakly fair for providers outside `MayDropOff`, whose daemons poll every few
seconds. `SweepFairness`: the top-up reconciliation runs every 10 minutes (`server.js` 1396-1422) and each
GET is answered or times out. `PayoutFairness`: the payout sweep runs every 15 minutes; starting a sync is weakly fair,
and its answer strongly fair, since restarts may drop some calls and not all. `DispatcherFairness`: a tick starts every
five minutes, its process is restarted by pm2, and loopback calls do not fail for ever. No renter, admin, agent, daemon
report, webhook or burst process is assumed to do anything.

## 4. Proofs

For every set of jobs and providers, every quote and every bound:

`MarketplaceProofs`, with every exposure allowed. The invariant `Sound` says of each
row that it has its type, that a live or paused row has a deadline, that a row whose provider's daemon may
still report on it has one too, that a waiting row has no `picked_up_at`, and that a hold in `held` or
`locked` has the amount of `cost_halala`. It is needed because the checked properties are not inductive by
themselves: a phase report makes a row live without looking at its deadline, and a resume only yields a live
row with a deadline because pausing kept it. There is one lemma per operation
about the row it produces, lifted by lemmas about `Post`, `Open` and promotion. It follows:
`TypeCorrect`, `LiveAlwaysHasDeadline`, `WaitingAlwaysDeliverable`, `HoldAlwaysMatchesPrepaid`.

`SettlementProofs`, assuming `NoRepeats` (no exposure but `overrun`, no late report): the
invariant `Once` says that a row is open, with an untouched ledger, or closed, with a final one whose parts
agree. Every operation leaves a row open, closes it, or does not touch a closed one
(`LedgerStep`). It follows: `AlwaysSettledOnce`, `AlwaysHoldVerdict`, `AlwaysRefundIsWhole`, and with
`WithinQuote` (no `overrun`) `PlatformNeverEverPays` and `MarketplaceKeepsContract`, the refinement: initial states map to initial states and each step
to an `Open`, `TopUp`, `Refuse` or `Close` of the contract, or to a stutter. The
assumptions are needed: the runs `late` and `refund` violate the conclusions without the first,
and a metered cost above the quote does without the second.

`EscrowProofs`, with every exposure allowed: `EscrowAlwaysResolvesOnce`. The step relation `HoldStep` says that a released
hold keeps its verdict and amount. It is not preserved by itself: launch and submit open a hold on a row, so the
invariant adds `Unheld`, that a row which may still be opened has no hold yet.

The same module proves `WalletNeverOverdrawn`, again for every exposure and any number of late reports: refunds repeated or
raced only ever credit the wallet, and every debit is guarded. The one handler that could debit without a guard is POST
job-result (`JobResultSolvent`): it charges what was metered and clamps it to the quote for pods alone. Hence the hypothesis
`PodsOverrun`: where metering may exceed a quote, only pods are launched, as in run `pair`. The invariant `Solvent` adds that a used row has a
type in play, which every requeue, retry and promotion keeps. Without the hypothesis the conclusion fails: a batch job metered
above its quote is debited from whatever the wallet holds.

`ServicesProofs`, for any calls, keys, nodes, prices, grants and batches: the invariant `ServiceInv` has types of the
tables (`TablesOK`), the program counters (`CallsOK`), slots equal to the calls that hold them (`SlotsOK`),
receipts that say settled have a charge (`Backed`), and where the worker stands in its batch (`LinesOK`): a
line marked settled was charged, and while the worker settles, the lines still in `todo` are billable and each other line
is charged and marked exactly if it is billable (`Whole`). A line of a batch that settlement has not reached is neither
charged nor marked (`Off`). `LinesOK` ends with `BatchWhole`: the lines of a completed batch are all `Whole` or all `Off`.
The first is inductive only with what is said of `todo`, the second only with `Untouched`, the stages before settlement. It follows: `ReceiptsAlwaysBacked`, `SlotsAlwaysHeld`,
`SettledLinesAlwaysCharged`, and, of every step, `RequestsEndOnce`.

A second invariant, `FundsInv`, is about amounts. `MoneyOK` is the account of the wallet, the grants and the earnings
(`ChargesBalance`) with the types it needs, that there are finitely many charges, and that no grant is drawn beyond its size;
`MemoryOK` has the limits of the memory; `TotalsOK` says that a completed batch reports what its lines cost or has charged none, and
that a line with something to charge has a provider to credit. The account is kept because of one fact about
`debitSubscriptionCredits`, the lemma `DrainsWhatItCan`: the loop over the grants drains exactly the price or everything on
offer, whichever is less, so the shortfall is never negative, the charge splits without a remainder, and the guard of the
wallet debit suffices. `SettleKeepsMoney` then extends each sum by the new charge. It follows: `ServiceTypes`,
`FundsNeverOverdrawn`, `ChargesAlwaysBalance`, `CompletedBatchesWhole`.

From the two invariants together, `ServicesKeepAccount`: the API process and the batch worker implement `ChargeAccount`. The
mapping forgets everything in memory, the receipts and the batches, and puts the wallet and what the grants have left into one
pocket. Each step then maps to `Charge` of one open id, which the funds cover and of which a provider has its share in the same step
(`SettleCharges`: an answer, a line, or a settlement followed by a crash), to `Waive` (`ClaimWaives`: an empty
answer, or one the wallet cannot pay), or to a stutter. It says more than `ChargesBalance`, which compares totals, and `AttemptIsFinal`,
which looks at claims alone: no step moves money without disposing of an id, and none disposes of an id as
charged without moving its price. Why a charge is within the funds is again `DrainsWhatItCan`, with `GrantsDrained` and
`DrawnIsGranted` about the sums of what is consumed and granted.

`SumProofs` has the lemmas about sums over finite sets that this needs (`SumAdd`, `SumPlus`, `SumPart`, `SumExtends` and
others). A sum is `SumFunctionOnSet` of the community module Functions, a fold defined by recursion over the
set. Each lemma that needs induction is proved by a minimal counterexample, which the well-founded orders of the library
provide; the first is that the recursion has a solution (`SumsExist`) and that any two agree (`SumsAgree`).

`TreasuryProofs`, for any number of invoices, transfers, charges and recharges. `CreditedOnce` is far from inductive, because
the id in a row changes from invoice to payment while the sweep holds the old one. The idea of `TreasuryInv` is the
*origin* of an id, the invoice or recharge it goes back to. There is at most one row per origin (`OneRow`); what the sweep
holds goes back to the row it was read from (`HeldBySweep`); an invoice without a row has been
credited for nothing (`Unlisted`); a recharge whose answer is pending has neither row nor credit (`Recharged`); and the row of a credited
charge is no longer payable (`Credited`). All of these speak only of charges that were not guessed: a charge matched by
amount alone (`payments.js` 715) escapes them, and so the property names the exception. It follows: `TreasuryTypes`, `ChargesCreditedOnce`,
`RechargesAreCounted`, `BreakerIsExact` (the pause in the row, ahead or passed, against the failures in it), and from the same invariant what a step may do (`Sound`):
`PaidRowsAreFinal`, `RefundsDebitOnce`, `OnlyMoneyTakenIsCredited`.

`PayoutsProofs`: `PayoutTypes`, `EndedPayoutsAreFinal`, `EarningsAreConserved` (by counting which requests change class in a
step), and `DisbursedAtMostOnce`, from an invariant that ties a transfer in flight to the claim that started it.

`MissionProofs`: `BoardTypes`, `LiveClaimsAreKept`, and `RepairTasksAreUnique`, from the invariant that a
creation is pending only for an incident that has no task, which holds because the dispatcher is the only writer of external ids and
runs one tick at a time.

The proofs use no assumption but those on the constants, which stand as `ASSUME`s in the modules that declare
them and are evaluated by the runs, and the three named above: `NoRepeats`, `WithinQuote` and `PodsOverrun`.

Only model-checked: the liveness properties (`PodsEnd`, `WaitingPodEnds`, `PaidInvoiceIsCredited`,
`EndedTransferIsSynced`, `ExpiredClaimEnds`, `UnlistedOutageGetsTask`; liveness under fairness and ENABLED are out of
the prover's reach).

## 5. Not modelled

- Credit-hold dispatch: PATCH complete, the only path that settles a credit hold, throws on an undeclared variable
  before it does (`jobs.js` 4827), and the retry loop of `tryAssign` (`jobQueue.js` 132) is never started. There is no
  settlement to check.
- The recovery loop (`recovery-engine.js`) and burst requeue from admin (`admin.js` 3682).
- A crash between the autocommitted statements of one handler of the job core (enforcer, cancel, submit's hold at
  `jobs.js` 1732, POST /api/jobs' refund at 4602). There, handlers are whole steps; in the batch worker and the inference
  handler crashes between statements are modelled.
- Metered time: how long a pod was billed for, in particular after a requeue.
- GPU indices (`pods.js` 989), launch quota (`pods.js` 814), relay ports, images, prices, e-mail, burst teardown (`pods.js` 1459).
- Account deletion (`renters.js` 2194), volumes, LoRA training, the escrow contract itself, OpenRouter settlement batches, the
  legacy refund route of `admin.js` 5051-5135, the legacy withdrawals table.
- Pages, SDKs, command-line clients and read-only routes, which are most of the repository's lines: they keep no state
  a property could be about.

Known limits that the models show or exclude by name, besides the findings in `PROJECT.json`:

- A paused job is outside every timer (`jobs.js` 2666). A requeued pod keeps `access_url` (`jobs.js` 3440). A result without a
  duration reads an undeclared name (`jobs.js` 2270). A failed job of the sweep gets no refund (`jobSweep.js` 321). A serve
  job is not clamped to its quote (`providers.js` 4007) and takes the failure branch at its deadline (`jobs.js` 4234).
- Inference: a job of the queue path that completes after the 5 minute poll is never billed; a failed batch records
  a total of zero while lines may be charged; a crash leaves a batch `running`; a batch of more than 100 lines never
  matches its proofs, since lines are listed 100 at a time (`batchInferenceJobs.js` 55, 1037) while 1000 requests are accepted, and fails (no bound reaches it); `meteringRequestId` is not scoped by renter.
- Money in: a card retried on an invoice may leave the paid second charge unmatched by webhook and sweep; a refunded
  webhook before the paid one leaves a row credited and never debited; an early webhook of a token charge
  credits whatever row is newest; a restart after a token charge leaves it uncredited; a failure reported by webhook after
  3-D Secure never counts toward the breaker; the pause of a renter who has disabled the feature is never swept, nor is a passed pause
  any obstacle to a recharge; the reconciliation looks only at rows of the last 14 days, the newest 50 of them (`payments.js` 282),
  which no bound reaches; an approved refund whose webhook came first stays `processing`.
- Money out: `requestPayout` subtracts open requests a second time; a lost answer lets the next approval disburse again;
  rejection is allowed while Moyasar has the transfer; a restart leaves a request `processing` with no id; rejecting a request
  the chain created adds earnings that were never reserved; `handleClaimed` throws with two pending requests; a
  withdrawal reserves nothing until it is paid (`admin.js` 4012); the payout sweep asks about 50 requests at a time
  (`payoutService.js` 491), which no bound reaches.
- Mission: repair ids are static and a closed task still matches, so a second outage of a provider gets no new task, which is why
  `UnlistedOutageGetsTask` speaks only of outages whose id has no task; the fleet
  list has twelve offline providers; a person can move a task to `in_progress` without a lease; one agent may hold several
  leases although a comment says one (`mission.js` 206).
- Requests: the financial idempotency key is read before the handler and stored after it (`lib/financial-idempotency.js` 106, 136),
  so a retry that arrives while the first request awaits runs the handler again. The models let every request run.

## 6. Plan

What remains, most valuable first:

1. A crash exposure for the multi-statement handlers of the job core, with the enforcer and submit first, and its
   effect on `EscrowResolvesOnce` and `SettledOnce`.
2. `GpuSlots`: index allocation over requeues; two live pods never share an index.
3. `BurstPod`: the external pod, its reaper and teardown; no pod is leaked. With it the recovery loop as further
   actions of `Sweeps`.
4. Account deletion and the remaining repair routes of admin over `JobTable`.
5. Volumes; LoRA training once it moves money.

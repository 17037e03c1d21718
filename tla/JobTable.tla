------------------------------- MODULE JobTable -------------------------------
(***************************************************************************)
(* The rows every part of the marketplace reads and writes: one row of     *)
(* `jobs`, the row of `escrow_holds` it owns (id 'esc-' || job_id), and    *)
(* the wallet of one renter.  better-sqlite3 is synchronous, so a handler  *)
(* without an await is one atomic step; handlers are therefore written as  *)
(* functions from a row to a row, and an action installs the new row.      *)
(*                                                                         *)
(* Amounts are halalas, as in the code.  Clock values are abstracted to    *)
(* "the column is NULL" / "the column is set": a deadline that is set may  *)
(* pass at any moment, and the metered cost of a job may be any amount.    *)
(***************************************************************************)
EXTENDS Integers, FiniteSets

CONSTANTS
  Jobs,          \* job_id values the renter may create
  Providers,     \* native provider nodes, each running a polling daemon
  BurstHost,     \* the synthetic provider row of an external burst GPU
  NoProvider,    \* jobs.provider_id IS NULL
  Types,         \* the job types in play, a subset of JobTypes
  Quotes,        \* the possible quotes of a launch, a submit or an extension
  MaxCost,       \* bound: cost_halala after extensions, and metered costs
  Deposit,       \* the renter's balance before the first job
  PodCap,        \* effectivePodCap: live pods a renter may hold
  MaxRetries,    \* jobs.max_retries
  Exposures,     \* situations no handler rules out, a subset of AllExposures
  MaxSettles,    \* bound: settlements of a row before another is out of reach
  MaxLate,       \* bound: daemon reports that reach a row already settled
  MayDropOff     \* providers whose heartbeat may stop

JobTypes == {"batch", "pod", "burst", "serve"}

(***************************************************************************)
(* What the handlers allow and a run may leave out:                        *)
(*   cancelSettled   cancelling a job that already failed or stopped       *)
(*   patchSettled    PATCH complete / fail on a job settled otherwise      *)
(*   requeueSettled  an admin requeueing a job whose money was returned    *)
(*   burstRace       burst.py's job_fail interleaving with the API process *)
(*   overrun         a metered cost larger than the prepaid quote          *)
(***************************************************************************)
AllExposures ==
  {"cancelSettled", "patchSettled", "requeueSettled", "burstRace", "overrun"}

ASSUME TypesAssumption == Types \subseteq JobTypes
ASSUME HostsAssumption ==
  /\ NoProvider \notin Providers
  /\ BurstHost \notin Providers
  /\ BurstHost # NoProvider
ASSUME QuotesAssumption == Quotes \subseteq Nat \ {0}
ASSUME BoundsAssumption ==
  /\ MaxCost \in Nat
  /\ Deposit \in Nat
  /\ PodCap \in Nat
  /\ MaxRetries \in Nat
  /\ MaxSettles \in Nat
  /\ MaxLate \in Nat
ASSUME ExposuresAssumption == Exposures \subseteq AllExposures
ASSUME DropOffAssumption == MayDropOff \subseteq Providers

VARIABLES
  job,       \* job_id -> its row, its escrow hold and the daemons working on it
  balance,   \* renters.balance_halala
  late       \* daemon reports that have reached a settled row so far

vars == <<job, balance, late>>

Hosts == Providers \cup {BurstHost, NoProvider}
Pods == {"pod", "burst"}                        \* job_type = 'interactive_pod'
Rentals == {"pod", "burst", "serve"}            \* what POST /api/pods launches

Live == {"assigned", "pulling", "running"}      \* ACTIVE_JOB_STATUSES
Deliverable == {"pending", "queued"}
Terminal == {"completed", "failed", "cancelled", "stopped"}
Statuses == {"absent", "paused"} \cup Live \cup Deliverable \cup Terminal

Holding == {"held", "locked"}
Released == {"released_provider", "released_renter"}

Row ==
  [ type : JobTypes \cup {"none"},
    status : Statuses,
    provider : Hosts,
    container : BOOLEAN,       \* container_spec IS NOT NULL
    cost : Nat,                \* cost_halala, debited when the row was created
    timeout : BOOLEAN,         \* timeout_at IS NOT NULL
    started : BOOLEAN,         \* started_at IS NOT NULL
    picked : BOOLEAN,          \* picked_up_at IS NOT NULL
    live : BOOLEAN,            \* access_url IS NOT NULL
    retries : 0 .. MaxRetries, \* retry_count, saturating: only compared to it
    refunded : BOOLEAN,        \* refunded_at IS NOT NULL
    hold : {"none"} \cup Holding \cup Released,
    holdAmount : Nat,          \* escrow_holds.amount_halala
    returned : Int,            \* ledger: credited to the renter's wallet
    earned : Nat,              \* ledger: credited to providers for this job
    settles : Nat,             \* ledger: how often the prepaid was disposed of
    agents : SUBSET Providers, \* daemons still bringing the job up
    burst : {"none", "launching", "refunding", "failing"} ]

NoRow ==
  [ type |-> "none", status |-> "absent", provider |-> NoProvider,
    container |-> FALSE, cost |-> 0, timeout |-> FALSE, started |-> FALSE,
    picked |-> FALSE, live |-> FALSE, retries |-> 0, refunded |-> FALSE,
    hold |-> "none", holdAmount |-> 0, returned |-> 0, earned |-> 0,
    settles |-> 0, agents |-> {}, burst |-> "none" ]
-----------------------------------------------------------------------------
(* Splitting a metered cost between the provider and the platform. *)

\* Math.floor(cost * 0.75), the pod split
Share(c) == (3 * c) \div 4

\* splitBilling: the platform's quarter is floored, the provider has the rest
Split(c) == c - (c \div 4)

Clamp(c, quote) == IF c <= quote THEN c ELSE quote

\* What metering a job may come to.
Metered(r) == 0 .. (IF "overrun" \in Exposures THEN MaxCost ELSE r.cost)
-----------------------------------------------------------------------------
(* Row transformers shared by the settlement paths. *)

\* retry_count + 1 where nothing bounds it: past MaxRetries all values act alike.
Bump(n) == IF n < MaxRetries THEN n + 1 ELSE n

\* Mutant: the UPDATE without its WHERE on the hold's status.
ReleaseAnyHold(r, verdict) == [r EXCEPT !.hold = verdict]

\* UPDATE escrow_holds SET status = verdict WHERE status IN ('held','locked')
Release(r, verdict) ==
  IF r.hold \in Holding THEN [r EXCEPT !.hold = verdict] ELSE r

\* A new status together with a disposition of the prepaid money.
Settle(r, status, back, pay) ==
  [r EXCEPT !.status = status, !.returned = @ + back,
            !.earned = @ + pay, !.settles = @ + 1]

\* Full refund that stamps refunded_at and does not look at it.
Refund(r, status) ==
  [Settle(r, status, r.cost, 0) EXCEPT !.refunded = TRUE]

\* Mutant: the stamp is written and the credit is forgotten.
RefundStampOnly(r, status) ==
  [Settle(r, status, 0, 0) EXCEPT !.refunded = TRUE]

\* The same behind `!job.refunded_at`.
RefundOnce(r, status) ==
  IF r.refunded THEN [r EXCEPT !.status = status] ELSE Refund(r, status)

\* INSERT OR IGNORE ... 'held', then UPDATE ... 'locked' WHERE 'held'
Lock(r) ==
  CASE r.hold = "none" -> [r EXCEPT !.hold = "locked", !.holdAmount = r.cost]
    [] r.hold = "held" -> [r EXCEPT !.hold = "locked"]
    [] OTHER           -> r

\* Mutant: the requeue forgets picked_up_at.
UnassignStillPicked(r, status) ==
  [r EXCEPT !.status = status, !.provider = NoProvider, !.started = FALSE]

\* The row leaves its provider and waits to be delivered again.
Unassign(r, status) ==
  [r EXCEPT !.status = status, !.provider = NoProvider,
            !.started = FALSE, !.picked = FALSE]
-----------------------------------------------------------------------------
(* Installing a row. *)

\* Handlers move money in the wallet by exactly what they credit the row with.
Post(j, r) ==
  /\ job' = [job EXCEPT ![j] = r]
  /\ balance' = balance + (r.returned - job[j].returned)

\* promoteNextQueuedJob: one queued row of the provider becomes pending.  Which
\* one depends on pricing class, priority and age, which are not modelled.
Promoted(rows, p) ==
  LET waiting == {k \in Jobs : rows[k].status = "queued" /\ rows[k].provider = p}
  IN  IF p = NoProvider \/ waiting = {}
      THEN {rows}
      ELSE {[rows EXCEPT ![k].status = "pending", ![k].timeout = TRUE] :
              k \in waiting}

PostAndPromote(j, r) ==
  /\ job' \in Promoted([job EXCEPT ![j] = r], job[j].provider)
  /\ balance' = balance + (r.returned - job[j].returned)

\* INSERT INTO jobs behind the guarded debit of the quote.
Open(j, r) ==
  /\ job[j].status = "absent"
  /\ balance >= r.cost
  /\ job' = [job EXCEPT ![j] = r]
  /\ balance' = balance - r.cost
  /\ UNCHANGED late

\* A row whose money is settled is only touched again where a run says so.
MayRepeat(r, exposure) ==
  \/ r.settles = 0
  \/ exposure \in Exposures /\ r.settles < MaxSettles

Busy(p) ==
  \E k \in Jobs : job[k].provider = p /\ job[k].status \in {"running", "pending"}

Init ==
  /\ job = [j \in Jobs |-> NoRow]
  /\ balance = Deposit
  /\ late = 0
=============================================================================

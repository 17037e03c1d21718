------------------------------ MODULE Marketplace ------------------------------
(***************************************************************************)
(* The job and escrow core of the marketplace: the pod API, the job API,   *)
(* the provider API, burst.py and the timers, interleaved over one table.  *)
(***************************************************************************)
EXTENDS PodApi, ProviderApi, JobApi, Sweeps

RenterStep(j) ==
  \/ \E q \in Quotes :
       \/ \E t \in Types, p \in Providers : LaunchPod(j, t, q, p)
       \/ LaunchBurst(j, q)
       \/ ExtendPod(j, q)
       \/ \E t \in Types, p \in Providers \cup {NoProvider} : Submit(j, t, q, p)
       \/ \E k \in Jobs : RetryJob(j, k, q)
  \/ StopPod(j)
  \/ Cancel(j)
  \/ Complete(j)

AdminStep(j) ==
  \/ AdminCancel(j)
  \/ AdminRequeue(j)

DaemonStep(p, j) ==
  \/ Pickup(p, j)
  \/ AssignNext(p, j)
  \/ ProgressPulling(p, j)
  \/ ProgressExecuting(p, j)
  \/ PodReady(p, j)
  \/ ServeReady(p, j)
  \/ DaemonLeaves(p, j)
  \/ JobResult(p, j)

ReportStep(j) ==
  \/ ResultSuccess(j)
  \/ ResultTransient(j)
  \/ ResultFailure(j)
  \/ FailReport(j)
  \/ PatchComplete(j)
  \/ PatchFail(j)
  \/ Pause(j)
  \/ Resume(j)

TimerStep(j) ==
  \/ EnforceTimeout(j)
  \/ SettleExpiredPod(j)
  \/ CancelStalePod(j)
  \/ SweepRetry(j)

Next ==
  \/ \E j \in Jobs :
       \/ RenterStep(j)
       \/ AdminStep(j)
       \/ ReportStep(j)
       \/ BurstProcess(j)
       \/ TimerStep(j)
       \/ \E p \in Providers : DaemonStep(p, j)
  \/ \E p \in MayDropOff : ProviderOffline(p) \/ LivenessRequeue(p)

Spec == Init /\ [][Next]_vars

(***************************************************************************)
(* Fairness.  The timers run on setInterval for as long as the process     *)
(* lives, so a deadline that stays passed is acted on; a daemon whose      *)
(* heartbeat does not stop polls every few seconds, so a row that waits    *)
(* for it is delivered.  Nothing else is promised to happen.               *)
(***************************************************************************)
PinnedPickup(p, j) == job[j].provider = p /\ Pickup(p, j)

Fairness ==
  /\ \A j \in Jobs :
       /\ WF_vars(EnforceTimeout(j))
       /\ WF_vars(SettleExpiredPod(j))
       /\ WF_vars(CancelStalePod(j))
  /\ \A p \in Providers \ MayDropOff, j \in Jobs : WF_vars(PinnedPickup(p, j))

FairSpec == Spec /\ Fairness
-----------------------------------------------------------------------------
\* The type of every variable: rows are whole, the wallet is an integer number
\* of halalas (db.js, tables jobs, escrow_holds and renters).
TypeOK ==
  /\ job \in [Jobs -> Row]
  /\ balance \in Int
  /\ late \in 0 .. MaxLate

\* A row a daemon works on has a deadline, so enforceJobTimeouts, which skips
\* rows whose timeout_at is NULL, can end it: through requeues that clear the
\* deadline, phase reports that set the status from anywhere, and pauses.
LiveHasDeadline ==
  \A j \in Jobs : job[j].status \in Live => job[j].timeout

\* A row that waits in the queue can be delivered: both poll routes skip rows
\* whose picked_up_at is set, so each path back to the queue must clear it.
WaitingIsDeliverable ==
  \A j \in Jobs : job[j].status \in Deliverable => ~job[j].picked

\* While money is in escrow, the hold is the amount the renter prepaid, also
\* after extensions made before or after the hold appeared (pods.js 1604).
HoldMatchesPrepaid ==
  \A j \in Jobs : job[j].hold \in Holding => job[j].holdAmount = job[j].cost

\* Once released, to either side, an escrow hold is never reopened, re-released
\* or resized, whatever is requeued, retried or reported late afterwards.
EscrowResolvesOnce ==
  [][\A j \in Jobs : job[j].hold \in Released =>
       /\ job'[j].hold = job[j].hold
       /\ job'[j].holdAmount = job[j].holdAmount]_vars

\* The prepaid money of a job is disposed of at most once, and not while the
\* job is still open: the once-only guards of stop, timeout, sweep and burst.
SettledOnce ==
  \A j \in Jobs :
    /\ job[j].settles <= 1
    /\ job[j].settles = 1 => job[j].status \in Terminal

\* What the renter gets back and the provider is paid for a job never exceeds
\* what the renter prepaid for it, extensions included.
PlatformNeverPays ==
  \A j \in Jobs : job[j].returned + job[j].earned <= job[j].cost

\* The verdict of the escrow agrees with where the money went.
HoldVerdict ==
  \A j \in Jobs :
    /\ job[j].hold = "released_renter" => job[j].earned = 0
    /\ job[j].hold = "released_provider" => ~job[j].refunded

\* A row stamped refunded_at gave the renter the whole prepaid back and paid
\* nobody: the stamp, which later handlers trust, tells the truth about money.
RefundIsWhole ==
  \A j \in Jobs :
    job[j].refunded => job[j].returned = job[j].cost /\ job[j].earned = 0

\* Prepaid means prepaid: no sequence of launches, extensions, metered results
\* and refunds of interactive pods takes the renter's wallet below zero.
NoOverdraft == balance >= 0

\* A pod whose money is settled leaves no hold behind in held or locked, the
\* lifecycle of escrow_holds (db.js 2237): the orphaned-locked-escrow gap that
\* stopPodCore closed (pods.js 1404), for every path that settles a pod.
NoOrphanedHold ==
  \A j \in Jobs :
    job[j].type \in Pods /\ job[j].settles > 0 => job[j].hold \notin Holding

\* The prepaid comes back at most once: a burst launch that failed and was
\* refunded exactly once (burstLaunchRefund.js 7-13, dcp-system-map-2026-07-07.md
\* line 89) is not refunded again by POST cancel (jobs.js 3292).
NeverRefundedTwice == \A j \in Jobs : job[j].returned <= job[j].cost

\* Each job keeps the prepaid contract: its states map to the contract's.
Phase(r) ==
  CASE r.status = "absent" -> "none"
    [] r.settles = 0 /\ r.status # "absent" -> "open"
    [] OTHER -> "closed"

Contract ==
  INSTANCE PrepaidContract WITH
    contract <- [j \in Jobs |-> [phase |-> Phase(job[j]), cost |-> job[j].cost,
                                 back |-> job[j].returned, pay |-> job[j].earned]]

KeepsContract == Contract!Spec

\* A pod that is not paused reaches a terminal status: its deadline, or the
\* stale-pod sweep, ends it without any help from the renter (jobSweep.js 722).
PodsEnd ==
  \A j \in Jobs :
    (job[j].type \in Pods) ~> (job[j].status \in Terminal \cup {"paused"})

\* A pod that waits for a provider does not wait for ever: it is picked up, or
\* the sweep cancels it and refunds the quote (jobSweep.js 728, second path).
WaitingPodEnds ==
  \A j \in Jobs :
    (job[j].type \in Pods /\ job[j].status \in Deliverable)
      ~> (job[j].status \notin Deliverable)
=============================================================================

-------------------------------- MODULE Sweeps --------------------------------
(***************************************************************************)
(* The timers of the API process: the timeout enforcer (every 30 s), the   *)
(* job sweep (every 30 s), and the two monitors of provider heartbeats.    *)
(***************************************************************************)
EXTENDS JobTable

\* enforceJobTimeouts on a running pod: the rental is over, charge what ran.
RentalOver(r, metered) ==
  LET charge == Clamp(metered, r.cost)
  IN  Release(Settle(r, "completed", r.cost - charge, Share(charge)),
              "released_provider")

\* Mutant: the verdict of the pod branch in the refund branch.
TimedOutToProvider(r) == Release(Refund(r, "failed"), "released_provider")

\* enforceJobTimeouts on anything else: failed and refunded in full.
TimedOut(r) == Release(Refund(r, "failed"), "released_renter")

\* Mutant: the enforcer also picks up pods the renter has stopped.
EnforceTimeoutStopped(j) ==
  /\ job[j].status \in Live \cup {"stopped"}
  /\ job[j].timeout
  /\ IF job[j].type \in Pods /\ job[j].status \in {"running", "stopped"}
     THEN \E c \in Metered(job[j]) : PostAndPromote(j, RentalOver(job[j], c))
     ELSE PostAndPromote(j, TimedOut(job[j]))
  /\ UNCHANGED late

\* Mutant: the enforcer only looks at running jobs.
EnforceTimeoutRunning(j) ==
  /\ job[j].status = "running"
  /\ job[j].timeout
  /\ IF job[j].type \in Pods
     THEN \E c \in Metered(job[j]) : PostAndPromote(j, RentalOver(job[j], c))
     ELSE PostAndPromote(j, TimedOut(job[j]))
  /\ UNCHANGED late

EnforceTimeout(j) ==
  /\ job[j].status \in Live
  /\ job[j].timeout
  /\ IF job[j].type \in Pods /\ job[j].status = "running"
     THEN \E c \in Metered(job[j]) : PostAndPromote(j, RentalOver(job[j], c))
     ELSE PostAndPromote(j, TimedOut(job[j]))
  /\ UNCHANGED late

\* Mutant: the sweep does not ask whether the pod is still running.
SettleAnyPod(j) ==
  /\ job[j].type \in Pods
  /\ job[j].status \in {"running", "stopped"}
  /\ job[j].started
  /\ Post(j, Settle(job[j], "completed", 0, Share(job[j].cost)))
  /\ UNCHANGED late

\* settleExpiredPods, first loop: charge the whole quote; no escrow release.
SettleExpiredPod(j) ==
  /\ job[j].type \in Pods
  /\ job[j].status = "running"
  /\ job[j].started
  /\ Post(j, Settle(job[j], "completed", 0, Share(job[j].cost)))
  /\ UNCHANGED late

\* settleExpiredPods, second loop: a pod nobody started; no escrow release.
StaleCancelled(r) == [RefundOnce(r, "cancelled") EXCEPT !.refunded = TRUE]

\* Mutant: the sweep only looks at pending pods.
CancelStalePending(j) ==
  /\ job[j].type \in Pods
  /\ job[j].status = "pending"
  /\ ~job[j].live
  /\ Post(j, StaleCancelled(job[j]))
  /\ UNCHANGED late

CancelStalePod(j) ==
  /\ job[j].type \in Pods
  /\ job[j].status \in Deliverable
  /\ ~job[j].live
  /\ Post(j, StaleCancelled(job[j]))
  /\ UNCHANGED late

\* updateJobForRetry: back to the global queue, or failed with no refund.
Retried(r) ==
  IF r.retries < MaxRetries
  THEN [Unassign(r, "queued") EXCEPT !.timeout = FALSE, !.retries = @ + 1]
  ELSE [r EXCEPT !.status = "failed"]

SweepRetry(j) ==
  /\ job[j].type \notin Pods
  /\ \/ job[j].status = "running" /\ job[j].started
     \/ job[j].status = "queued"
  /\ Post(j, Retried(job[j]))
  /\ UNCHANGED late

\* sweepOfflineProviders: everything active on the provider goes back to the queue.
ProviderOffline(p) ==
  /\ \E j \in Jobs : job[j].provider = p /\ job[j].status \in Live \cup {"pending"}
  /\ job' = [j \in Jobs |->
               IF job[j].provider = p /\ job[j].status \in Live \cup {"pending"}
               THEN [Unassign(job[j], "queued") EXCEPT !.retries = Bump(@)]
               ELSE job[j]]
  /\ UNCHANGED <<balance, late>>

\* runLivenessSweep: what runs on the provider becomes pending for anyone.
LivenessRequeue(p) ==
  /\ \E j \in Jobs : job[j].provider = p /\ job[j].status \in Live
  /\ job' = [j \in Jobs |->
               IF job[j].provider = p /\ job[j].status \in Live
               THEN Unassign(job[j], "pending")
               ELSE job[j]]
  /\ UNCHANGED <<balance, late>>
=============================================================================

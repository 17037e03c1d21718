------------------------------ MODULE ProviderApi ------------------------------
(***************************************************************************)
(* What provider daemons do to the job table: poll for work (two routes),  *)
(* report phases and readiness, and post results (two routes, one for      *)
(* each generation of the daemon).  A report carries no attempt number     *)
(* and is checked only against jobs.provider_id; a daemon that is still    *)
(* bringing a job up may therefore report after the job has been settled.  *)
(***************************************************************************)
EXTENDS JobTable

\* Mutant: delivery does not set timeout_at.
PickupWithoutDeadline(p, j) ==
  /\ job[j].status \in Deliverable
  /\ ~job[j].picked
  /\ job[j].provider \in {p, NoProvider}
  /\ Post(j, Lock([job[j] EXCEPT !.provider = p, !.status = "running",
                                 !.picked = TRUE, !.started = TRUE,
                                 !.agents = @ \cup {p}]))
  /\ UNCHANGED late

\* buildNextPendingJob: deliver a waiting row, pinned to this provider or to
\* nobody, straight to 'running'; lock the hold, creating it if it is missing.
Pickup(p, j) ==
  /\ job[j].status \in Deliverable
  /\ ~job[j].picked
  /\ job[j].provider \in {p, NoProvider}
  /\ Post(j, Lock([job[j] EXCEPT !.provider = p, !.status = "running",
                                 !.picked = TRUE, !.started = TRUE,
                                 !.timeout = TRUE, !.agents = @ \cup {p}]))
  /\ UNCHANGED late

Eligible(p) ==
  {k \in Jobs : /\ job[k].status \in Deliverable
                /\ ~job[k].picked
                /\ job[k].provider = p}

\* fetchAndAssignNextJob: pending rows before queued ones, only rows pinned to
\* this provider; a hold that exists is locked.
AssignNext(p, j) ==
  /\ j \in Eligible(p)
  /\ job[j].status = "pending" \/ \A k \in Eligible(p) : job[k].status = "queued"
  /\ Post(j, [job[j] EXCEPT !.status = "assigned", !.picked = TRUE,
                            !.timeout = TRUE, !.agents = @ \cup {p},
                            !.hold = IF @ = "held" THEN "locked" ELSE @])
  /\ UNCHANGED late

\* A report from the daemon of the row's provider.  One that reaches a settled
\* row is late, and MaxLate bounds how many there are.
Reported(p, j, r) ==
  /\ job[j].provider = p
  /\ p \in job[j].agents
  /\ Post(j, r)
  /\ IF job[j].status \in Terminal /\ job[j].settles > 0
     THEN late < MaxLate /\ late' = late + 1
     ELSE UNCHANGED late

\* POST progress with phase 'pulling': sets the status whatever it was.
ProgressPulling(p, j) ==
  Reported(p, j, [job[j] EXCEPT !.status = "pulling", !.started = TRUE])

\* POST progress with an execution phase: advances an assigned or pulling row.
ProgressExecuting(p, j) ==
  /\ job[j].status \in {"assigned", "pulling"}
  /\ Reported(p, j, [job[j] EXCEPT !.status = "running", !.started = TRUE])

\* POST endpoint-ready for a pod.  The first report restarts the rental clock
\* and the deadline, a later one leaves them alone; no branch reads the status.
Endpoint(r, p) ==
  [r EXCEPT !.status = "running", !.live = TRUE,
            !.started = @ \/ ~r.live, !.timeout = @ \/ ~r.live,
            !.agents = @ \ {p}]

PodReady(p, j) ==
  /\ job[j].type = "pod"
  /\ Reported(p, j, Endpoint(job[j], p))

\* The same route for vllm_serve.
ServeReady(p, j) ==
  /\ job[j].type = "serve"
  /\ Reported(p, j, [job[j] EXCEPT !.status = "running", !.started = TRUE,
                                   !.agents = @ \ {p}])

\* The daemon gives a job up without a report: the container died, the process
\* was restarted, or no GPU slot was free.
DaemonLeaves(p, j) ==
  /\ p \in job[j].agents
  /\ Post(j, [job[j] EXCEPT !.agents = @ \ {p}])
  /\ UNCHANGED late
-----------------------------------------------------------------------------
(* POST /api/providers/job-result *)

\* Mutant: no clamp for interactive pods either.
ResultChargeUnclamped(r, metered) == metered

\* An interactive pod is charged at most its quote, anything else what was
\* metered: the difference is credited to the renter, or debited if negative.
ResultCharge(r, metered) ==
  IF r.type \in Pods THEN Clamp(metered, r.cost) ELSE metered

JobResultSuccess(r, metered) ==
  LET charge == ResultCharge(r, metered)
  IN  Release(Settle(r, "completed", r.cost - charge, Share(charge)),
              "released_provider")

JobResult(p, j) ==
  /\ job[j].provider = p
  /\ job[j].status = "running"
  /\ LET r == [job[j] EXCEPT !.agents = @ \ {p}]
     IN  \/ \E c \in Metered(r) : Post(j, JobResultSuccess(r, c))
         \/ Post(j, Release(RefundOnce(r, "failed"), "released_renter"))
  /\ UNCHANGED late
-----------------------------------------------------------------------------
(* POST /api/jobs/:id/result and /api/jobs/:id/fail, by the provider or an admin *)

\* The daemon that answers is done with the job.
Answered(r) == [r EXCEPT !.agents = @ \ {r.provider}]

\* Success pays the provider for what was metered; the renter gets nothing back.
PayMetered(r, metered) == Settle(r, "completed", 0, Split(metered))

ResultSuccess(j) ==
  /\ job[j].status \in Live
  /\ \E c \in Metered(job[j]) :
       PostAndPromote(j, Release(PayMetered(Answered(job[j]), c),
                                 "released_provider"))
  /\ UNCHANGED late

\* Mutant: retry_count is not compared to max_retries.
ResultTransientForEver(j) ==
  /\ job[j].status \in Live
  /\ Post(j, [Answered(job[j]) EXCEPT !.status = "pending", !.picked = FALSE,
                                      !.timeout = TRUE, !.retries = @ + 1])
  /\ UNCHANGED late

\* A transient failure with retries left: back to pending on the same provider.
ResultTransient(j) ==
  /\ job[j].status \in Live
  /\ job[j].retries < MaxRetries
  /\ Post(j, [Answered(job[j]) EXCEPT !.status = "pending", !.picked = FALSE,
                                      !.timeout = TRUE, !.retries = @ + 1])
  /\ UNCHANGED late

\* Failure without retries left, and the explicit failure webhook.
FailedBack(r) == Release(RefundOnce(Answered(r), "failed"), "released_renter")

ResultFailure(j) ==
  /\ job[j].status \in Live
  /\ PostAndPromote(j, FailedBack(job[j]))
  /\ UNCHANGED late

FailReport(j) ==
  /\ job[j].status \in Live \cup {"pending"}
  /\ PostAndPromote(j, FailedBack(job[j]))
  /\ UNCHANGED late
=============================================================================

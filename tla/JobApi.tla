-------------------------------- MODULE JobApi --------------------------------
(***************************************************************************)
(* What renters and admins do through /api/jobs and /api/admin/jobs:       *)
(* submit, retry, cancel, complete, fail, pause, resume and requeue.       *)
(***************************************************************************)
EXTENDS JobTable

\* The row of POST submit and of POST retry: queued without a deadline when no
\* provider is free, pending with one otherwise; the escrow hold only exists
\* when a provider is known.
SubmittedRow(type, q, p, queued) ==
  [NoRow EXCEPT !.type = type, !.container = TRUE, !.cost = q, !.provider = p,
                !.status = IF queued THEN "queued" ELSE "pending",
                !.timeout = ~queued,
                !.hold = IF p = NoProvider THEN "none" ELSE "held",
                !.holdAmount = IF p = NoProvider THEN 0 ELSE q]

Submit(j, type, q, p) ==
  /\ type \in Types \ {"burst"}
  /\ Open(j, SubmittedRow(type, q, p, p = NoProvider \/ Busy(p)))

\* POST retry: a new job from a failed one that has a container_spec.  The
\* provider may also be stale, which queues the new job.
RetryJob(j, k, q) ==
  /\ job[j].status = "failed"
  /\ job[j].container
  /\ LET p == job[j].provider
     IN  \E queued \in BOOLEAN :
           /\ (p = NoProvider \/ Busy(p)) => queued
           /\ Open(k, SubmittedRow(job[j].type, q, p, queued))

\* POST cancel: anything that exists and is neither completed nor cancelled.
Cancel(j) ==
  /\ job[j].status \notin {"absent", "completed", "cancelled"}
  /\ job[j].status \in Terminal => MayRepeat(job[j], "cancelSettled")
  /\ PostAndPromote(j, Release(Refund(job[j], "cancelled"), "released_renter"))
  /\ UNCHANGED late

\* POST /api/admin/jobs/:id/cancel: no refunded_at stamp, no release, no promotion.
AdminCancel(j) ==
  /\ job[j].status \notin {"absent", "completed", "cancelled"}
  /\ job[j].status \in Terminal => MayRepeat(job[j], "cancelSettled")
  /\ Post(j, Settle(job[j], "cancelled", job[j].cost, 0))
  /\ UNCHANGED late

\* POST /api/admin/jobs/:id/requeue: a failed row is pending again, unpaid.
AdminRequeue(j) ==
  /\ job[j].status = "failed"
  /\ MayRepeat(job[j], "requeueSettled")
  /\ Post(j, [job[j] EXCEPT !.status = "pending", !.started = FALSE,
                            !.picked = FALSE, !.timeout = TRUE])
  /\ UNCHANGED late

\* POST complete, by the renter or an admin.
Complete(j) ==
  /\ job[j].status = "running"
  /\ \E c \in Metered(job[j]) :
       Post(j, Release(Settle(job[j], "completed", 0, Split(c)),
                       "released_provider"))
  /\ UNCHANGED late

\* PATCH complete: credits the provider, then throws before the credit hold is
\* settled; the escrow hold is not touched.
PatchComplete(j) ==
  /\ job[j].status \notin {"absent", "completed", "cancelled"}
  /\ job[j].status \in Terminal => MayRepeat(job[j], "patchSettled")
  /\ \E c \in Metered(job[j]) :
       Post(j, Settle(job[j], "completed", 0,
                      IF job[j].provider = NoProvider THEN 0 ELSE Split(c)))
  /\ UNCHANGED late

\* PATCH fail: only the credit hold is released, the prepaid stays with the job.
PatchFail(j) ==
  /\ job[j].status \notin {"absent", "completed", "cancelled", "failed"}
  /\ job[j].status \in Terminal => MayRepeat(job[j], "patchSettled")
  /\ Post(j, [job[j] EXCEPT !.status = "failed"])
  /\ UNCHANGED late

\* POST pause and resume, for a job whose container_spec enables checkpoints.
Pause(j) ==
  /\ job[j].container
  /\ job[j].status \in Live
  /\ Post(j, [job[j] EXCEPT !.status = "paused"])
  /\ UNCHANGED late

Resume(j) ==
  /\ job[j].status = "paused"
  /\ Post(j, [job[j] EXCEPT !.status = "running"])
  /\ UNCHANGED late
=============================================================================

-------------------------------- MODULE PodApi --------------------------------
(***************************************************************************)
(* Pods: launch, stop and extend (routes/pods.js), and the detached        *)
(* burst.py process that brings an external pod up or fails it.            *)
(***************************************************************************)
EXTENDS JobTable

ActivePods ==
  {k \in Jobs : job[k].type \in Rentals /\ job[k].status \in Deliverable \cup Live}

\* POST /api/pods on a native node: debit the quote, insert the row 'queued' and
\* pinned to the resolved provider.  No deadline and no escrow hold yet.
LaunchPod(j, type, q, p) ==
  /\ type \in Types \cap {"pod", "serve"}
  /\ Cardinality(ActivePods) < PodCap
  /\ Open(j, [NoRow EXCEPT !.type = type, !.status = "queued",
                           !.provider = p, !.cost = q])

\* POST /api/pods on a burst type: inserted 'pulling' with a deadline, then
\* burst.py is spawned.  If the spawn throws, failBurstJobAndRefund runs in the
\* same handler.  (Port exhaustion refunds before any row exists: no change.)
LaunchBurst(j, q) ==
  LET row == [NoRow EXCEPT !.type = "burst", !.status = "pulling",
                           !.provider = BurstHost, !.cost = q, !.timeout = TRUE]
  IN  /\ "burst" \in Types
      /\ Cardinality(ActivePods) < PodCap
      /\ \/ Open(j, [row EXCEPT !.burst = "launching"])
         \/ /\ job[j].status = "absent"        \* spawn failed: net zero for the wallet
            /\ balance >= q
            /\ job' = [job EXCEPT ![j] = Refund(row, "failed")]
            /\ UNCHANGED <<balance, late>>

\* Mutant: the provider is paid and the renter gets the whole quote back.
StopRunningForFree(r, metered) ==
  LET charge == Clamp(metered, r.cost)
  IN  Release(Settle(r, "stopped", r.cost, Share(charge)), "released_provider")

\* stopPodCore on a running pod: charge what was metered, at most the quote.
StopRunning(r, metered) ==
  LET charge == Clamp(metered, r.cost)
  IN  Release(Settle(r, "stopped", r.cost - charge, Share(charge)),
              IF Share(charge) > 0 THEN "released_provider" ELSE "released_renter")

\* stopPodCore on anything else that is open: cancel and refund once.
StopUnstarted(r) == Release(Refund(r, "cancelled"), "released_renter")

\* DELETE /api/pods/:id, and the admin route over the same core.
StopPod(j) ==
  /\ job[j].type \in Rentals
  /\ \/ /\ job[j].status = "running"
        /\ \E c \in Metered(job[j]) : Post(j, StopRunning(job[j], c))
     \/ /\ job[j].status \notin Terminal \cup {"absent", "running"}
        /\ ~job[j].refunded
        /\ Post(j, StopUnstarted(job[j]))
  /\ UNCHANGED late

\* Mutant: the hold keeps the amount of the launch.
ExtendedWithoutHold(r, q) == [r EXCEPT !.cost = @ + q, !.timeout = TRUE]

\* The row after an extension: more prepaid, a new deadline, a larger hold.
Extended(r, q) ==
  [r EXCEPT !.cost = @ + q, !.timeout = TRUE,
            !.holdAmount = IF r.hold \in Holding THEN @ + q ELSE @]

\* extendPodCore: only a running pod, below the ceiling, behind a guarded debit.
ExtendPod(j, q) ==
  /\ job[j].type \in Rentals
  /\ job[j].status = "running"
  /\ job[j].cost + q <= MaxCost
  /\ balance >= q
  /\ job' = [job EXCEPT ![j] = Extended(job[j], q)]
  /\ balance' = balance - q
  /\ UNCHANGED late
-----------------------------------------------------------------------------
(* ops/burst.py, a process of its own on the same database. *)

\* job_success: its UPDATE matches only a row that is still launching.
BurstUp(j) ==
  /\ job[j].burst = "launching"
  /\ Post(j, IF job[j].status \in {"pulling", "queued", "assigned"}
             THEN [job[j] EXCEPT !.status = "running", !.live = TRUE,
                                 !.started = TRUE, !.timeout = TRUE,
                                 !.burst = "none"]
             ELSE [job[j] EXCEPT !.burst = "none"])
  /\ UNCHANGED late

\* job_fail reads status and refunded_at ...
BurstFailRead(j) ==
  /\ job[j].burst = "launching"
  /\ Post(j, [job[j] EXCEPT !.burst =
                CASE job[j].status \in Terminal -> "none"
                  [] job[j].refunded            -> "failing"
                  [] OTHER                      -> "refunding"])
  /\ UNCHANGED late

\* ... and then writes without looking again.
BurstFailed(r) ==
  [(IF r.burst = "refunding" THEN Refund(r, "failed")
    ELSE [r EXCEPT !.status = "failed"]) EXCEPT !.burst = "none"]

BurstFailWrite(j) ==
  /\ job[j].burst \in {"refunding", "failing"}
  /\ Post(j, BurstFailed(job[j]))
  /\ UNCHANGED late

\* Mutant: job_fail without its check for a terminal status.
BurstFailBlindly(j) ==
  /\ job[j].burst = "launching"
  /\ Post(j, [RefundOnce(job[j], "failed") EXCEPT !.burst = "none"])
  /\ UNCHANGED late

\* job_fail when nothing comes between its SELECT and its UPDATE.
BurstFail(j) ==
  /\ job[j].burst = "launching"
  /\ Post(j, IF job[j].status \in Terminal
             THEN [job[j] EXCEPT !.burst = "none"]
             ELSE [RefundOnce(job[j], "failed") EXCEPT !.burst = "none"])
  /\ UNCHANGED late

BurstProcess(j) ==
  \/ BurstUp(j)
  \/ IF "burstRace" \in Exposures
     THEN BurstFailRead(j) \/ BurstFailWrite(j)
     ELSE BurstFail(j)
=============================================================================

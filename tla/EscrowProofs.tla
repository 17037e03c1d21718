------------------------------ MODULE EscrowProofs -----------------------------
(***************************************************************************)
(* An escrow hold is resolved once (EscrowResolvesOnce), and the renter's  *)
(* wallet never goes below zero (NoOverdraft), whatever is repeated, raced *)
(* or reported late, for every set of jobs and providers and every bound.  *)
(*                                                                         *)
(* Every handler is shown to take a row to one whose hold, if it had been  *)
(* released, is the same.  Opening a row is the exception: it writes a     *)
(* fresh hold, so it must be known that an unused id has none.             *)
(*                                                                         *)
(* For the wallet, every handler but the guarded debits is shown to credit *)
(* a row, or to leave what was returned to the renter alone.  POST job-    *)
(* result is the one that could debit: it charges what was metered, and    *)
(* clamps it to the quote for pods only.                                   *)
(***************************************************************************)
EXTENDS MarketplaceProofs
-----------------------------------------------------------------------------
(* The escrow hold. *)

\* What a handler may do to the hold of a row, and to the status of an unused one
HoldStep(r, s) ==
  /\ r.hold \in Released => s.hold = r.hold /\ s.holdAmount = r.holdAmount
  /\ s.status = "absent" =>
       r.status = "absent" /\ (r.hold = "none" => s.hold = "none")

HoldsStep == \A j \in Jobs : HoldStep(job[j], job'[j])

\* An id nobody has used has no hold.
Unheld == \A j \in Jobs : job[j].status = "absent" => job[j].hold = "none"

\* Handlers are chains of row transformers.
LEMMA HoldStepChain ==
  ASSUME NEW r, NEW s, NEW t, HoldStep(r, s), HoldStep(s, t)
  PROVE  HoldStep(r, t)
BY DEF HoldStep

\* A row that is left alone
LEMMA HoldStepSame == \A r : HoldStep(r, r)
BY DEF HoldStep

\* UPDATE escrow_holds ... WHERE status IN ('held', 'locked')
LEMMA ReleaseHolds ==
  ASSUME NEW r \in Row, NEW v
  PROVE  HoldStep(r, Release(r, v))
BY DEF HoldStep, Release, Row, Holding, Released

\* INSERT OR IGNORE, then UPDATE ... WHERE status = 'held'
LEMMA LockHolds ==
  ASSUME NEW r \in Row, r.status # "absent"
  PROVE  HoldStep(r, Lock(r))
<1>1. CASE r.hold = "none"
  BY <1>1 DEF HoldStep, Lock, Row, Holding, Released
<1>2. CASE r.hold = "held"
  BY <1>2 DEF HoldStep, Lock, Row, Holding, Released
<1>3. CASE r.hold \notin {"none", "held"}
  BY <1>3 DEF HoldStep, Lock
<1> QED  BY <1>1, <1>2, <1>3

\* A disposition of the prepaid does not look at the hold.
LEMMA SettleHolds ==
  ASSUME NEW r \in Row, NEW s \in Terminal, NEW back, NEW pay
  PROVE  HoldStep(r, Settle(r, s, back, pay))
BY DEF HoldStep, Settle, Row, Terminal

\* Neither does a refund, guarded by refunded_at or not.
LEMMA RefundHolds ==
  ASSUME NEW r \in Row, NEW s \in Terminal
  PROVE  HoldStep(r, Refund(r, s)) /\ HoldStep(r, RefundOnce(r, s))
BY DEF HoldStep, Refund, RefundOnce, Settle, Row, Terminal

\* The same followed by a release, as most settlement paths have it
LEMMA SettleReleaseHolds ==
  ASSUME NEW r, SoundRow(r), NEW s \in Terminal, NEW back \in Int, NEW pay \in Nat, NEW v
  PROVE  HoldStep(r, Release(Settle(r, s, back, pay), v))
<1>1. Settle(r, s, back, pay) \in Row /\ r \in Row
  BY SettleSound DEF SoundRow
<1>2. HoldStep(r, Settle(r, s, back, pay))
  BY <1>1, SettleHolds
<1>3. HoldStep(Settle(r, s, back, pay), Release(Settle(r, s, back, pay), v))
  BY <1>1, ReleaseHolds
<1> QED  BY <1>2, <1>3, HoldStepChain

\* A refund followed by a release
LEMMA RefundReleaseHolds ==
  ASSUME NEW r, SoundRow(r), NEW s \in Terminal, NEW v
  PROVE  /\ HoldStep(r, Release(Refund(r, s), v))
         /\ HoldStep(r, Release(RefundOnce(r, s), v))
<1>1. Refund(r, s) \in Row /\ RefundOnce(r, s) \in Row /\ r \in Row
  BY RefundSound, RefundOnceSound DEF SoundRow
<1>2. HoldStep(r, Refund(r, s)) /\ HoldStep(r, RefundOnce(r, s))
  BY <1>1, RefundHolds
<1>3. /\ HoldStep(Refund(r, s), Release(Refund(r, s), v))
      /\ HoldStep(RefundOnce(r, s), Release(RefundOnce(r, s), v))
  BY <1>1, ReleaseHolds
<1> QED  BY <1>2, <1>3, HoldStepChain
-----------------------------------------------------------------------------
(* From rows to the table. *)

\* One row is replaced.
LEMMA PostHolds ==
  ASSUME Sound, NEW j \in Jobs, NEW r, HoldStep(job[j], r), job' = [job EXCEPT ![j] = r]
  PROVE  HoldsStep
BY HoldStepSame DEF Sound, HoldsStep

\* One row is replaced and another is promoted, which leaves its hold alone.
LEMMA PostAndPromoteHolds ==
  ASSUME Sound, NEW j \in Jobs, NEW r \in Row, HoldStep(job[j], r), PostAndPromote(j, r)
  PROVE  HoldsStep
<1> DEFINE rows == [job EXCEPT ![j] = r]
<1>1. rows \in [Jobs -> Row] /\ \A k \in Jobs : HoldStep(job[k], rows[k])
  BY HoldStepSame DEF Sound
<1>2. job' \in Promoted(rows, job[j].provider)
  BY DEF PostAndPromote
<1> HIDE DEF rows
<1>3. CASE job' = rows
  BY <1>1, <1>3 DEF HoldsStep
<1>4. ASSUME NEW k \in Jobs,
             job' = [rows EXCEPT ![k].status = "pending", ![k].timeout = TRUE]
      PROVE  HoldsStep
  <2>1. job' = [rows EXCEPT ![k] = [rows[k] EXCEPT !.status = "pending", !.timeout = TRUE]]
    BY <1>1, <1>4
  <2>2. HoldStep(rows[k], [rows[k] EXCEPT !.status = "pending", !.timeout = TRUE])
    BY <1>1 DEF HoldStep, Row
  <2>3. \A i \in Jobs : HoldStep(rows[i], job'[i])
    BY <1>1, <2>1, <2>2, HoldStepSame
  <2> QED  BY <1>1, <2>3, HoldStepChain DEF HoldsStep
<1> QED  BY <1>2, <1>3, <1>4 DEF Promoted

\* An unused id becomes a row.
LEMMA OpenHolds ==
  ASSUME Sound, Unheld, NEW j \in Jobs, NEW r, r.status # "absent",
         job[j].status = "absent", job' = [job EXCEPT ![j] = r]
  PROVE  HoldsStep
<1>1. HoldStep(job[j], r)
  BY DEF HoldStep, Unheld, Released
<1> QED  BY <1>1, PostHolds
-----------------------------------------------------------------------------
(* The handlers. *)

\* Launch, submit and retry open a row.
LEMMA OpeningHolds ==
  ASSUME Sound, Unheld, NEW j \in Jobs, NEW q \in Quotes,
         \/ \E t \in Types, p \in Providers : LaunchPod(j, t, q, p)
         \/ LaunchBurst(j, q)
         \/ \E t \in Types, p \in Providers \cup {NoProvider} : Submit(j, t, q, p)
         \/ \E k \in Jobs : RetryJob(k, j, q)
  PROVE  HoldsStep
<1> DEFINE pod(t, p) == [NoRow EXCEPT !.type = t, !.status = "queued", !.provider = p, !.cost = q]
           row == [NoRow EXCEPT !.type = "burst", !.status = "pulling",
                                !.provider = BurstHost, !.cost = q, !.timeout = TRUE]
           up == [row EXCEPT !.burst = "launching"]
           down == Refund(row, "failed")
<1>1. \A t, p : pod(t, p).status = "queued"
  BY DEF NoRow
<1>2. up.status = "pulling" /\ down.status = "failed"
  BY DEF NoRow, Refund, Settle
<1>3. \A t, p : \A b \in BOOLEAN : SubmittedRow(t, q, p, b).status \in {"queued", "pending"}
  BY DEF SubmittedRow, NoRow
<1>4. ASSUME NEW t, NEW p, LaunchPod(j, t, q, p) PROVE HoldsStep
  <2>1. Open(j, pod(t, p))
    BY <1>4 DEF LaunchPod
  <2> HIDE DEF pod
  <2> QED  BY <1>1, <2>1, OpenHolds DEF Open
<1>5. CASE LaunchBurst(j, q)
  <2>1. \/ Open(j, up)
        \/ job[j].status = "absent" /\ job' = [job EXCEPT ![j] = down]
    BY <1>5 DEF LaunchBurst
  <2> HIDE DEF up, down
  <2> QED  BY <1>2, <2>1, OpenHolds DEF Open
<1>6. ASSUME NEW t, NEW p, Submit(j, t, q, p) PROVE HoldsStep
  <2>1. (p = NoProvider \/ Busy(p)) \in BOOLEAN
    BY DEF Busy
  <2>2. SubmittedRow(t, q, p, p = NoProvider \/ Busy(p)).status # "absent"
    BY <1>3, <2>1
  <2> QED  BY <1>6, <2>2, OpenHolds DEF Submit, Open
<1>7. ASSUME NEW k \in Jobs, RetryJob(k, j, q) PROVE HoldsStep
  <2>1. PICK b \in BOOLEAN : Open(j, SubmittedRow(job[k].type, q, job[k].provider, b))
    BY <1>7 DEF RetryJob
  <2>2. SubmittedRow(job[k].type, q, job[k].provider, b).status # "absent"
    BY <1>3
  <2> QED  BY <2>1, <2>2, OpenHolds DEF Open
<1> QED  BY <1>4, <1>5, <1>6, <1>7

\* An extension grows a hold only while it is held or locked.
LEMMA ExtendPodHolds ==
  ASSUME Sound, NEW j \in Jobs, NEW q \in Quotes, ExtendPod(j, q)
  PROVE  HoldsStep
<1>1. job[j] \in Row /\ job[j].status = "running"
  BY SoundFacts DEF ExtendPod
<1>2. HoldStep(job[j], Extended(job[j], q))
  BY <1>1 DEF HoldStep, Extended, Row, Holding, Released
<1> QED  BY <1>2, PostHolds DEF ExtendPod

\* Stopping a pod releases its hold to the side that is paid.
LEMMA StopPodHolds ==
  ASSUME Sound, NEW j \in Jobs, StopPod(j)
  PROVE  HoldsStep
<1>1. SoundRow(job[j]) /\ job[j] \in Row /\ {"stopped", "cancelled"} \subseteq Terminal
  BY SoundFacts DEF Terminal
<1>2. ASSUME NEW c \in Metered(job[j]) PROVE HoldStep(job[j], StopRunning(job[j], c))
  BY <1>1, ChargeFacts, SettleReleaseHolds DEF StopRunning
<1>3. HoldStep(job[j], StopUnstarted(job[j]))
  BY <1>1, RefundReleaseHolds DEF StopUnstarted
<1> QED  BY <1>2, <1>3, PostHolds DEF StopPod, Post

\* The timeout enforcer, in both of its branches
LEMMA EnforceTimeoutHolds ==
  ASSUME Sound, NEW j \in Jobs, EnforceTimeout(j)
  PROVE  HoldsStep
<1>1. SoundRow(job[j]) /\ job[j] \in Row
  BY SoundFacts
<1>2. /\ {"completed", "failed"} \subseteq Terminal
      /\ {"released_provider", "released_renter"} \subseteq Released
  BY DEF Terminal, Released
<1>3. ASSUME NEW c \in Metered(job[j])
      PROVE  RentalOver(job[j], c) \in Row /\ HoldStep(job[j], RentalOver(job[j], c))
  <2> DEFINE charge == Clamp(c, job[j].cost)
             settled == Settle(job[j], "completed", job[j].cost - charge, Share(charge))
  <2>1. job[j].cost - charge \in Int /\ Share(charge) \in Nat
    BY <1>1, ChargeFacts
  <2> HIDE DEF charge
  <2>2. SoundRow(settled) /\ HoldStep(job[j], Release(settled, "released_provider"))
    BY <1>1, <1>2, <2>1, SettleSound, SettleReleaseHolds
  <2>3. RentalOver(job[j], c) = Release(settled, "released_provider")
    BY DEF RentalOver, charge
  <2> HIDE DEF settled
  <2> QED  BY <1>2, <2>2, <2>3, ReleaseSound DEF SoundRow
<1>4. TimedOut(job[j]) \in Row /\ HoldStep(job[j], TimedOut(job[j]))
  <2>1. SoundRow(TimedOut(job[j]))
    BY <1>1, <1>2, RefundSound, ReleaseSound DEF TimedOut
  <2>2. HoldStep(job[j], TimedOut(job[j]))
    BY <1>1, <1>2, RefundReleaseHolds DEF TimedOut
  <2> QED  BY <2>1, <2>2 DEF SoundRow
<1>5. \/ PostAndPromote(j, TimedOut(job[j]))
      \/ \E c \in Metered(job[j]) : PostAndPromote(j, RentalOver(job[j], c))
  BY DEF EnforceTimeout
<1> QED  BY <1>3, <1>4, <1>5, PostAndPromoteHolds

\* The renter cancels.
LEMMA CancelHolds ==
  ASSUME Sound, NEW j \in Jobs, Cancel(j)
  PROVE  HoldsStep
<1> DEFINE new == Release(Refund(job[j], "cancelled"), "released_renter")
<1>1. SoundRow(job[j]) /\ "cancelled" \in Terminal /\ "released_renter" \in Released
  BY SoundFacts DEF Terminal, Released
<1>2. new \in Row /\ HoldStep(job[j], new)
  <2>1. SoundRow(new)
    BY <1>1, RefundSound, ReleaseSound
  <2> QED  BY <1>1, <2>1, RefundReleaseHolds DEF SoundRow
<1> QED  BY <1>2, PostAndPromoteHolds DEF Cancel

\* Complete releases the hold, PATCH complete leaves it.
LEMMA CompleteHolds ==
  ASSUME Sound, NEW j \in Jobs, Complete(j) \/ PatchComplete(j)
  PROVE  HoldsStep
<1>1. SoundRow(job[j]) /\ job[j] \in Row /\ "completed" \in Terminal /\ 0 \in Int
  BY SoundFacts DEF Terminal
<1>2. ASSUME NEW pay \in Nat
      PROVE  /\ HoldStep(job[j], Settle(job[j], "completed", 0, pay))
             /\ HoldStep(job[j], Release(Settle(job[j], "completed", 0, pay), "released_provider"))
  BY <1>1, SettleHolds, SettleReleaseHolds
<1>3. CASE Complete(j)
  <2>1. PICK c \in Metered(job[j]) :
          Post(j, Release(Settle(job[j], "completed", 0, Split(c)), "released_provider"))
    BY <1>3 DEF Complete
  <2>2. Split(c) \in Nat
    BY <1>1, ChargeFacts
  <2> QED  BY <1>2, <2>1, <2>2, PostHolds DEF Post
<1>4. CASE PatchComplete(j)
  <2>1. PICK c \in Metered(job[j]) :
          Post(j, Settle(job[j], "completed", 0,
                         IF job[j].provider = NoProvider THEN 0 ELSE Split(c)))
    BY <1>4 DEF PatchComplete
  <2>2. (IF job[j].provider = NoProvider THEN 0 ELSE Split(c)) \in Nat
    BY <1>1, ChargeFacts
  <2> QED  BY <1>2, <2>1, <2>2, PostHolds DEF Post
<1> QED  BY <1>3, <1>4

\* The settlements that leave the hold alone, and the changes of status
LEMMA RepairHolds ==
  ASSUME Sound, NEW j \in Jobs,
         \/ AdminCancel(j) \/ AdminRequeue(j)
         \/ PatchFail(j) \/ Pause(j) \/ Resume(j)
         \/ SettleExpiredPod(j) \/ CancelStalePod(j) \/ SweepRetry(j)
  PROVE  HoldsStep
<1> DEFINE r == job[j]
<1>1. r \in Row /\ {"cancelled", "completed"} \subseteq Terminal
  BY SoundFacts DEF Terminal
<1>2. HoldStep(r, Settle(r, "cancelled", r.cost, 0))
  BY <1>1, SettleHolds
<1>3. HoldStep(r, [r EXCEPT !.status = "pending", !.started = FALSE,
                            !.picked = FALSE, !.timeout = TRUE])
  BY <1>1 DEF HoldStep, Row
<1>4. \A s \in {"failed", "paused", "running"} : HoldStep(r, [r EXCEPT !.status = s])
  BY <1>1 DEF HoldStep, Row
<1>5. HoldStep(r, Settle(r, "completed", 0, Share(r.cost)))
  BY <1>1, SettleHolds
<1>6. HoldStep(r, StaleCancelled(r))
  BY <1>1 DEF HoldStep, StaleCancelled, RefundOnce, Refund, Settle, Row
<1>7. HoldStep(r, Retried(r))
  BY <1>1 DEF HoldStep, Retried, Unassign, Row
<1>8. \/ Post(j, Settle(r, "cancelled", r.cost, 0))
      \/ Post(j, [r EXCEPT !.status = "pending", !.started = FALSE,
                           !.picked = FALSE, !.timeout = TRUE])
      \/ \E s \in {"failed", "paused", "running"} : Post(j, [r EXCEPT !.status = s])
      \/ Post(j, Settle(r, "completed", 0, Share(r.cost)))
      \/ Post(j, StaleCancelled(r))
      \/ Post(j, Retried(r))
  BY DEF AdminCancel, AdminRequeue, PatchFail, Pause, Resume, SettleExpiredPod, CancelStalePod,
     SweepRetry
<1> HIDE DEF r
<1>9. \A s : HoldStep(r, s) /\ Post(j, s) => HoldsStep
  BY PostHolds DEF Post, r
<1> QED  BY <1>2, <1>3, <1>4, <1>5, <1>6, <1>7, <1>8, <1>9

\* burst.py writes the status, the refund and its own state.
LEMMA BurstHolds ==
  ASSUME Sound, NEW j \in Jobs, BurstProcess(j)
  PROVE  HoldsStep
<1> DEFINE r == job[j]
<1>1. r \in Row /\ "failed" \in Terminal
  BY SoundFacts DEF Terminal
<1>2. \A s : HoldStep(r, s) /\ Post(j, s) => HoldsStep
  BY PostHolds DEF Post
<1>3. \A b : HoldStep(r, [r EXCEPT !.burst = b])
  BY <1>1 DEF HoldStep, Row
<1>4. CASE BurstUp(j)
  <2> DEFINE up == [r EXCEPT !.status = "running", !.live = TRUE, !.started = TRUE,
                             !.timeout = TRUE, !.burst = "none"]
  <2>1. HoldStep(r, up)
    BY <1>1 DEF HoldStep, Row
  <2>2. Post(j, up) \/ Post(j, [r EXCEPT !.burst = "none"])
    BY <1>4 DEF BurstUp
  <2> HIDE DEF up, r
  <2> QED  BY <1>2, <1>3, <2>1, <2>2
<1>5. CASE BurstFailRead(j)
  <2>1. \E b : Post(j, [r EXCEPT !.burst = b])
    BY <1>5 DEF BurstFailRead
  <2> HIDE DEF r
  <2> QED  BY <1>2, <1>3, <2>1
<1>6. CASE BurstFailWrite(j)
  <2>1. HoldStep(r, BurstFailed(r))
    BY <1>1 DEF HoldStep, BurstFailed, Refund, Settle, Row
  <2>2. Post(j, BurstFailed(r))
    BY <1>6 DEF BurstFailWrite
  <2> HIDE DEF r
  <2> QED  BY <1>2, <2>1, <2>2
<1>7. CASE BurstFail(j)
  <2> DEFINE down == [RefundOnce(r, "failed") EXCEPT !.burst = "none"]
  <2>1. HoldStep(r, down)
    BY <1>1 DEF HoldStep, RefundOnce, Refund, Settle, Row
  <2>2. Post(j, down) \/ Post(j, [r EXCEPT !.burst = "none"])
    BY <1>7 DEF BurstFail
  <2> HIDE DEF down, r
  <2> QED  BY <1>2, <1>3, <2>1, <2>2
<1> QED  BY <1>4, <1>5, <1>6, <1>7 DEF BurstProcess

\* Delivery locks a hold or creates the missing one; a released one stays.
LEMMA DeliveryHolds ==
  ASSUME Sound, NEW p \in Providers, NEW j \in Jobs, Pickup(p, j) \/ AssignNext(p, j)
  PROVE  HoldsStep
<1> DEFINE r == job[j]
           got == [r EXCEPT !.provider = p, !.status = "running", !.picked = TRUE,
                            !.started = TRUE, !.timeout = TRUE, !.agents = @ \cup {p}]
           given == [r EXCEPT !.status = "assigned", !.picked = TRUE, !.timeout = TRUE,
                              !.agents = @ \cup {p},
                              !.hold = IF @ = "held" THEN "locked" ELSE @]
<1>1. SoundRow(r) /\ r \in Row /\ p \in Hosts /\ "running" \in Live
  BY SoundFacts DEF Hosts, Live
<1>2. HoldStep(r, got) /\ got.status # "absent"
  BY <1>1 DEF HoldStep, Row
<1>3. HoldStep(r, given)
  BY <1>1 DEF HoldStep, Row, Released
<1>4. got \in Row
  BY <1>1, DeliveredSound DEF SoundRow
<1>5. HoldStep(r, Lock(got))
  <2> HIDE DEF r, got
  <2> QED  BY <1>2, <1>4, LockHolds, HoldStepChain
<1>6. Post(j, Lock(got)) \/ Post(j, given)
  BY DEF Pickup, AssignNext
<1> HIDE DEF got, given
<1> QED  BY <1>3, <1>5, <1>6, PostHolds DEF Post

\* Reports and a daemon that leaves do not reach the hold.
LEMMA DaemonHolds ==
  ASSUME Sound, NEW p \in Providers, NEW j \in Jobs,
         \/ ProgressPulling(p, j) \/ ProgressExecuting(p, j)
         \/ PodReady(p, j) \/ ServeReady(p, j) \/ DaemonLeaves(p, j)
  PROVE  HoldsStep
<1> DEFINE r == job[j]
           phase(s) == [r EXCEPT !.status = s, !.started = TRUE]
           serve == [r EXCEPT !.status = "running", !.started = TRUE, !.agents = @ \ {p}]
           left == [r EXCEPT !.agents = @ \ {p}]
<1>1. r \in Row
  BY SoundFacts
<1>2. /\ HoldStep(r, phase("pulling")) /\ HoldStep(r, phase("running"))
      /\ HoldStep(r, serve) /\ HoldStep(r, left) /\ HoldStep(r, Endpoint(r, p))
  BY <1>1 DEF HoldStep, Endpoint, Row
<1>3. \/ Post(j, phase("pulling")) \/ Post(j, phase("running"))
      \/ Post(j, serve) \/ Post(j, left) \/ Post(j, Endpoint(r, p))
  BY DEF ProgressPulling, ProgressExecuting, PodReady, ServeReady, DaemonLeaves, Reported
<1> HIDE DEF phase, serve, left
<1> QED  BY <1>2, <1>3, PostHolds DEF Post

\* POST job-result, POST result and POST fail
LEMMA ResultHolds ==
  ASSUME Sound, NEW j \in Jobs,
         \/ \E p \in Providers : JobResult(p, j)
         \/ ResultSuccess(j) \/ ResultTransient(j) \/ ResultFailure(j) \/ FailReport(j)
  PROVE  HoldsStep
<1> DEFINE r == job[j]
<1>1. SoundRow(r) /\ r \in Row
  BY SoundFacts
<1>2. /\ {"completed", "failed"} \subseteq Terminal
      /\ {"released_provider", "released_renter"} \subseteq Released
  BY DEF Terminal, Released
<1>3. ASSUME NEW p, JobResult(p, j) PROVE HoldsStep
  <2> DEFINE a == [r EXCEPT !.agents = @ \ {p}]
  <2>1. SoundRow(a) /\ a \in Row /\ HoldStep(r, a)
    <3>1. SoundRow(a)
      BY <1>1, LeaveSound
    <3>2. HoldStep(r, a)
      BY <1>1 DEF HoldStep, Row
    <3> QED  BY <3>1, <3>2 DEF SoundRow
  <2>2. \/ \E c \in Metered(a) : Post(j, JobResultSuccess(a, c))
        \/ Post(j, Release(RefundOnce(a, "failed"), "released_renter"))
    BY <1>3 DEF JobResult
  <2> HIDE DEF a
  <2>3. HoldStep(a, Release(RefundOnce(a, "failed"), "released_renter"))
    BY <1>2, <2>1, RefundReleaseHolds
  <2>4. ASSUME NEW c \in Metered(a) PROVE HoldStep(a, JobResultSuccess(a, c))
    <3> DEFINE charge == ResultCharge(a, c)
    <3>1. a.cost - charge \in Int /\ Share(charge) \in Nat
      BY <2>1, ChargeFacts DEF ResultCharge
    <3>2. JobResultSuccess(a, c) =
            Release(Settle(a, "completed", a.cost - charge, Share(charge)), "released_provider")
      BY DEF JobResultSuccess
    <3> HIDE DEF charge
    <3> QED  BY <1>2, <2>1, <3>1, <3>2, SettleReleaseHolds
  <2> QED  BY <2>1, <2>2, <2>3, <2>4, HoldStepChain, PostHolds DEF Post
<1> DEFINE a == Answered(r)
           again == [a EXCEPT !.status = "pending", !.picked = FALSE,
                              !.timeout = TRUE, !.retries = @ + 1]
<1>4. SoundRow(a) /\ a \in Row /\ HoldStep(r, a) /\ Metered(a) = Metered(r)
  <2>1. SoundRow(a) /\ Metered(a) = Metered(r)
    BY <1>1, AnsweredSound
  <2>2. HoldStep(r, a)
    BY <1>1 DEF HoldStep, Answered, Row
  <2> QED  BY <2>1, <2>2 DEF SoundRow
<1>5. CASE ResultSuccess(j)
  <2>1. PICK c \in Metered(a) : PostAndPromote(j, Release(PayMetered(a, c), "released_provider"))
    BY <1>4, <1>5 DEF ResultSuccess
  <2> HIDE DEF a
  <2>2. Split(c) \in Nat /\ 0 \in Int
    BY <1>4, ChargeFacts
  <2>3. /\ SoundRow(Release(PayMetered(a, c), "released_provider"))
        /\ HoldStep(a, Release(PayMetered(a, c), "released_provider"))
    BY <1>2, <1>4, <2>2, SettleSound, ReleaseSound, SettleReleaseHolds DEF PayMetered
  <2> QED  BY <1>4, <2>1, <2>3, HoldStepChain, PostAndPromoteHolds DEF SoundRow
<1>6. CASE ResultTransient(j)
  <2>1. Post(j, again)
    BY <1>6 DEF ResultTransient
  <2>2. HoldStep(a, again)
    <3> HIDE DEF a
    <3> QED  BY <1>4 DEF HoldStep, Row
  <2> HIDE DEF again
  <2> QED  BY <1>4, <2>1, <2>2, HoldStepChain, PostHolds DEF Post
<1>7. CASE ResultFailure(j) \/ FailReport(j)
  <2>1. PostAndPromote(j, FailedBack(r))
    BY <1>7 DEF ResultFailure, FailReport
  <2>2. SoundRow(FailedBack(r)) /\ HoldStep(a, FailedBack(r))
    BY <1>2, <1>4, RefundOnceSound, ReleaseSound, RefundReleaseHolds DEF FailedBack
  <2> QED  BY <1>4, <2>1, <2>2, HoldStepChain, PostAndPromoteHolds DEF SoundRow
<1> QED  BY <1>3, <1>5, <1>6, <1>7

\* Both heartbeat monitors rewrite the rows of a provider, not their holds.
LEMMA OfflineHolds ==
  ASSUME Sound, NEW p \in MayDropOff, ProviderOffline(p) \/ LivenessRequeue(p)
  PROVE  HoldsStep
<1> DEFINE requeued(j) == [Unassign(job[j], "queued") EXCEPT !.retries = Bump(@)]
           pending(j) == Unassign(job[j], "pending")
<1>1. ASSUME NEW j \in Jobs
      PROVE  HoldStep(job[j], requeued(j)) /\ HoldStep(job[j], pending(j))
  BY SoundFacts DEF HoldStep, Unassign, Row
<1>2. \A j \in Jobs : job'[j] \in {job[j], requeued(j), pending(j)}
  BY DEF ProviderOffline, LivenessRequeue
<1> HIDE DEF requeued, pending
<1> QED  BY <1>1, <1>2, HoldStepSame DEF HoldsStep
-----------------------------------------------------------------------------
(* The induction. *)

\* No step changes a hold that has been released.
LEMMA NextHolds == Sound /\ Unheld /\ [Next]_vars => HoldsStep
<1> SUFFICES ASSUME Sound, Unheld, [Next]_vars PROVE HoldsStep
  OBVIOUS
<1>1. ASSUME NEW j \in Jobs, RenterStep(j)  PROVE HoldsStep
  BY <1>1, OpeningHolds, ExtendPodHolds, StopPodHolds, CancelHolds, CompleteHolds DEF RenterStep
<1>2. ASSUME NEW j \in Jobs, AdminStep(j)  PROVE HoldsStep
  BY <1>2, RepairHolds DEF AdminStep
<1>3. ASSUME NEW j \in Jobs, ReportStep(j)  PROVE HoldsStep
  BY <1>3, ResultHolds, CompleteHolds, RepairHolds DEF ReportStep
<1>4. ASSUME NEW j \in Jobs, TimerStep(j)  PROVE HoldsStep
  BY <1>4, EnforceTimeoutHolds, RepairHolds DEF TimerStep
<1>5. ASSUME NEW j \in Jobs, NEW p \in Providers, DaemonStep(p, j)  PROVE HoldsStep
  BY <1>5, DeliveryHolds, DaemonHolds, ResultHolds DEF DaemonStep
<1>6. CASE UNCHANGED vars
  BY <1>6, HoldStepSame DEF HoldsStep, vars
<1> QED  BY <1>1, <1>2, <1>3, <1>4, <1>5, <1>6, BurstHolds, OfflineHolds DEF Next

\* An id nobody has used never has a hold.
LEMMA UnheldAlways == Spec => []Unheld
<1>1. Init => Unheld
  BY DEF Init, Unheld, NoRow
<1>2. Sound /\ Unheld /\ [Next]_vars => Unheld'
  BY NextHolds DEF HoldsStep, HoldStep, Unheld
<1> QED  BY <1>1, <1>2, SoundAlways, PTL DEF Spec

\* Once an escrow hold is released, to either side, no handler of the API process, no
\* daemon, no timer and no burst process reopens, re-releases or resizes it.
THEOREM EscrowAlwaysResolvesOnce == Spec => EscrowResolvesOnce
<1>1. Sound /\ Unheld /\ [Next]_vars =>
        [\A j \in Jobs : job[j].hold \in Released =>
           /\ job'[j].hold = job[j].hold
           /\ job'[j].holdAmount = job[j].holdAmount]_vars
  BY NextHolds DEF HoldsStep, HoldStep
<1> QED  BY <1>1, SoundAlways, UnheldAlways, PTL DEF Spec, EscrowResolvesOnce
-----------------------------------------------------------------------------
(* The wallet. *)

\* Where metering may exceed a quote, only interactive pods are launched: of their
\* metered cost at most the quote is charged.
PodsOverrun == "overrun" \in Exposures => Types \subseteq Pods

\* A row is of a type in play, or nobody has used its id.
Typed(r) ==
  \/ r.type \in Types
  \/ r = NoRow

\* What a handler may do to the ledger of a row: return more to the renter.
Credits(r, s) == s.type = r.type /\ s.returned >= r.returned

\* The wallet is in the black, and stays there as long as handlers only credit it.
Solvent == (\A j \in Jobs : Typed(job[j])) /\ balance >= 0

\* An id nobody has used cannot be reported on, stopped, swept or launched.
LEMMA UnusedRow ==
  /\ NoRow.status = "absent" /\ NoRow.type = "none" /\ NoRow.provider = NoProvider
  /\ NoRow.agents = {} /\ NoRow.burst = "none" /\ NoRow.retries = 0 /\ NoRow.returned = 0
  /\ "none" \notin JobTypes
BY DEF NoRow, JobTypes

\* Handlers are chains of row transformers.
LEMMA CreditsChain ==
  ASSUME NEW r \in Row, NEW s \in Row, NEW t \in Row, Credits(r, s), Credits(s, t)
  PROVE  Credits(r, t)
<1>1. r.returned \in Int /\ s.returned \in Int /\ t.returned \in Int
  BY DEF Row
<1> QED  BY <1>1 DEF Credits

\* A disposition that takes nothing from the renter, followed by a release or not
LEMMA SettleCredits ==
  ASSUME NEW r, SoundRow(r), NEW s \in Terminal, NEW back \in Nat, NEW pay \in Nat,
         NEW v \in Released
  PROVE  LET x == Settle(r, s, back, pay)
         IN  /\ x \in Row /\ Credits(r, x)
             /\ Release(x, v) \in Row /\ Credits(r, Release(x, v))
<1> DEFINE x == Settle(r, s, back, pay)
<1>1. SoundRow(x)
  BY SettleSound
<1>2. SoundRow(Release(x, v))
  BY <1>1, ReleaseSound
<1>3. r.returned \in Int /\ r \in Row
  BY DEF SoundRow, Row
<1>4. x.type = r.type /\ x.returned = r.returned + back
  BY <1>3 DEF Settle, Row
<1>5. Release(x, v).type = x.type /\ Release(x, v).returned = x.returned
  <2>1. x \in Row
    BY <1>1 DEF SoundRow
  <2> HIDE DEF x
  <2> QED  BY <2>1 DEF Release, Row
<1> HIDE DEF x
<1> QED  BY <1>1, <1>2, <1>3, <1>4, <1>5 DEF Credits, SoundRow, x

\* A refund gives back what was prepaid.
LEMMA RefundCredits ==
  ASSUME NEW r, SoundRow(r), NEW s \in Terminal, NEW v \in Released
  PROVE  \A x \in {Refund(r, s), RefundOnce(r, s)} :
           /\ x \in Row /\ Credits(r, x)
           /\ Release(x, v) \in Row /\ Credits(r, Release(x, v))
<1>1. /\ SoundRow(Refund(r, s)) /\ SoundRow(RefundOnce(r, s))
      /\ SoundRow(Release(Refund(r, s), v)) /\ SoundRow(Release(RefundOnce(r, s), v))
  BY RefundSound, RefundOnceSound, ReleaseSound
<1>2. r \in Row /\ r.returned \in Int /\ r.cost \in Nat
  BY DEF SoundRow, Row
<1>3. /\ Refund(r, s).type = r.type /\ Refund(r, s).returned = r.returned + r.cost
      /\ RefundOnce(r, s).type = r.type
      /\ RefundOnce(r, s).returned \in {r.returned, r.returned + r.cost}
  BY <1>2 DEF Refund, RefundOnce, Settle, Row
<1>4. \A x \in Row : Release(x, v).type = x.type /\ Release(x, v).returned = x.returned
  BY DEF Release, Row
<1> QED  BY <1>1, <1>2, <1>3, <1>4 DEF Credits, SoundRow

\* One row is credited, and the wallet with it.
LEMMA PostSolvent ==
  ASSUME Sound, Solvent, NEW j \in Jobs, NEW r \in Row, Post(j, r),
         Credits(job[j], r), job[j] # NoRow \/ Typed(r)
  PROVE  Solvent'
<1>1. job[j] \in Row /\ balance \in Int
  BY SoundFacts
<1>2. r.returned \in Int /\ job[j].returned \in Int /\ r.returned >= job[j].returned
  BY <1>1 DEF Row, Credits
<1>3. Typed(r)
  BY DEF Solvent, Typed, Credits
<1>4. \A k \in Jobs : job'[k] = IF k = j THEN r ELSE job[k]
  BY DEF Sound, Post
<1>5. balance' >= 0
  BY <1>1, <1>2 DEF Solvent, Post
<1> QED  BY <1>3, <1>4, <1>5 DEF Solvent

\* A step that edits a row and moves no money
LEMMA EditSolvent ==
  ASSUME Sound, Solvent, NEW j \in Jobs, NEW s, Post(j, s), job[j] # NoRow,
         s.type = job[j].type, s.returned = job[j].returned
  PROVE  Solvent'
<1>1. job[j] \in Row /\ balance \in Int
  BY SoundFacts
<1>2. s.returned - job[j].returned = 0
  BY <1>1 DEF Row
<1>3. balance' = balance
  BY <1>1, <1>2 DEF Post
<1>4. Typed(s)
  BY DEF Solvent, Typed
<1>5. \A k \in Jobs : job'[k] = IF k = j THEN s ELSE job[k]
  BY DEF Sound, Post
<1> QED  BY <1>3, <1>4, <1>5 DEF Solvent

\* Another row is promoted meanwhile.
LEMMA PostAndPromoteSolvent ==
  ASSUME Sound, Solvent, NEW j \in Jobs, NEW r \in Row, PostAndPromote(j, r),
         Credits(job[j], r), job[j] # NoRow
  PROVE  Solvent'
<1> DEFINE rows == [job EXCEPT ![j] = r]
<1>1. job[j] \in Row /\ balance \in Int
  BY SoundFacts
<1>2. r.returned \in Int /\ job[j].returned \in Int /\ r.returned >= job[j].returned
  BY <1>1 DEF Row, Credits
<1>3. balance' >= 0
  BY <1>1, <1>2 DEF Solvent, PostAndPromote
<1>4. rows \in [Jobs -> Row] /\ \A k \in Jobs : Typed(rows[k])
  BY DEF Sound, Solvent, Typed, Credits
<1>5. job' \in Promoted(rows, job[j].provider)
  BY DEF PostAndPromote
<1> HIDE DEF rows
<1>6. CASE job' = rows
  BY <1>3, <1>4, <1>6 DEF Solvent
<1>7. ASSUME NEW k \in Jobs, rows[k].status = "queued",
             job' = [rows EXCEPT ![k].status = "pending", ![k].timeout = TRUE]
      PROVE  Solvent'
  <2>1. job' = [rows EXCEPT ![k] = [rows[k] EXCEPT !.status = "pending", !.timeout = TRUE]]
    BY <1>4, <1>7
  <2>2. rows[k].type \in Types
    BY <1>4, <1>7, UnusedRow DEF Typed
  <2>3. [rows[k] EXCEPT !.status = "pending", !.timeout = TRUE].type = rows[k].type
    BY <1>4 DEF Row
  <2>4. \A i \in Jobs : Typed(job'[i])
    BY <1>4, <2>1, <2>2, <2>3 DEF Typed
  <2> QED  BY <1>3, <2>4 DEF Solvent
<1> QED  BY <1>5, <1>6, <1>7 DEF Promoted

\* A guarded debit: INSERT INTO jobs, and the extension of a pod
LEMMA DebitSolvent ==
  ASSUME Sound, Solvent, NEW j \in Jobs, NEW r, Typed(r), NEW q \in Quotes,
         balance >= q, job' = [job EXCEPT ![j] = r],
         balance' = balance \/ balance' = balance - q
  PROVE  Solvent'
<1>1. q \in Nat /\ balance \in Int
  BY QuotesAssumption DEF Sound
<1>2. balance' >= 0
  BY <1>1 DEF Solvent
<1> QED  BY <1>2 DEF Sound, Solvent


\* Launch, submit, retry and extension debit behind a guard.
LEMMA DebitsSolvent ==
  ASSUME Sound, Solvent, NEW j \in Jobs, NEW q \in Quotes,
         \/ \E t \in Types, p \in Providers : LaunchPod(j, t, q, p)
         \/ LaunchBurst(j, q)
         \/ \E t \in Types, p \in Providers \cup {NoProvider} : Submit(j, t, q, p)
         \/ \E k \in Jobs : RetryJob(k, j, q)
         \/ ExtendPod(j, q)
  PROVE  Solvent'
<1> DEFINE pod(t, p) == [NoRow EXCEPT !.type = t, !.status = "queued", !.provider = p, !.cost = q]
           row == [NoRow EXCEPT !.type = "burst", !.status = "pulling",
                                !.provider = BurstHost, !.cost = q, !.timeout = TRUE]
           up == [row EXCEPT !.burst = "launching"]
           down == Refund(row, "failed")
<1>1. \A t, p : pod(t, p).type = t /\ pod(t, p).cost = q
  BY DEF NoRow
<1>2. up.type = "burst" /\ up.cost = q /\ down.type = "burst"
  BY DEF NoRow, Refund, Settle
<1>3. \A t, p : \A b \in BOOLEAN :
        SubmittedRow(t, q, p, b).type = t /\ SubmittedRow(t, q, p, b).cost = q
  BY DEF SubmittedRow, NoRow
<1>4. ASSUME NEW r, Open(j, r), r.type \in Types, r.cost = q PROVE Solvent'
  BY <1>4, DebitSolvent DEF Open, Typed
<1>5. ASSUME NEW t \in Types, NEW p, LaunchPod(j, t, q, p) PROVE Solvent'
  <2>1. Open(j, pod(t, p))
    BY <1>5 DEF LaunchPod
  <2> HIDE DEF pod
  <2> QED  BY <1>1, <1>4, <2>1
<1>6. CASE LaunchBurst(j, q)
  <2>1. /\ "burst" \in Types
        /\ \/ Open(j, up)
           \/ balance >= q /\ job' = [job EXCEPT ![j] = down] /\ balance' = balance
    BY <1>6 DEF LaunchBurst
  <2> HIDE DEF up, down
  <2> QED  BY <1>2, <1>4, <2>1, DebitSolvent DEF Typed
<1>7. ASSUME NEW t \in Types, NEW p, Submit(j, t, q, p) PROVE Solvent'
  <2>1. (p = NoProvider \/ Busy(p)) \in BOOLEAN
    BY DEF Busy
  <2> QED  BY <1>3, <1>4, <1>7, <2>1 DEF Submit
<1>8. ASSUME NEW k \in Jobs, RetryJob(k, j, q) PROVE Solvent'
  <2>1. PICK b \in BOOLEAN : Open(j, SubmittedRow(job[k].type, q, job[k].provider, b))
    BY <1>8 DEF RetryJob
  <2>2. job[k].type \in Types
    BY <1>8, UnusedRow DEF RetryJob, Solvent, Typed
  <2> QED  BY <1>3, <1>4, <2>1, <2>2
<1>9. CASE ExtendPod(j, q)
  <2>1. job[j] \in Row /\ job[j].type \in Types
    BY <1>9, SoundFacts, UnusedRow DEF ExtendPod, Solvent, Typed
  <2>2. Extended(job[j], q).type = job[j].type
    BY <2>1 DEF Extended, Row
  <2> QED  BY <1>9, <2>1, <2>2, DebitSolvent DEF ExtendPod, Typed
<1> QED  BY <1>5, <1>6, <1>7, <1>8, <1>9

\* A metered charge clamped to the quote leaves the renter a credit.
LEMMA ClampedChange ==
  ASSUME NEW r \in Row, NEW c \in Metered(r)
  PROVE  r.cost - Clamp(c, r.cost) \in Nat
<1>1. c \in Nat /\ r.cost \in Nat
  BY MeteredNat DEF Row
<1> QED  BY <1>1 DEF Clamp

\* The settlements of pods that end, by hand, by the enforcer or by the sweep
LEMMA EndingsSolvent ==
  ASSUME Sound, Solvent, NEW j \in Jobs,
         StopPod(j) \/ EnforceTimeout(j) \/ SettleExpiredPod(j) \/ CancelStalePod(j)
  PROVE  Solvent'
<1> DEFINE r == job[j]
<1>1. SoundRow(r) /\ r \in Row /\ r # NoRow
  <2>1. r.status # "absent"
    BY DEF StopPod, EnforceTimeout, SettleExpiredPod, CancelStalePod, Live, Deliverable
  <2> QED  BY <2>1, SoundFacts, UnusedRow
<1>2. /\ {"stopped", "cancelled", "completed", "failed"} \subseteq Terminal
      /\ {"released_provider", "released_renter"} \subseteq Released
      /\ 0 \in Nat /\ r.cost \in Nat
  BY <1>1 DEF Terminal, Released, Row
<1>3. ASSUME NEW c \in Metered(r)
      PROVE  /\ StopRunning(r, c) \in Row /\ Credits(r, StopRunning(r, c))
             /\ RentalOver(r, c) \in Row /\ Credits(r, RentalOver(r, c))
  <2> DEFINE back == r.cost - Clamp(c, r.cost)
             pay == Share(Clamp(c, r.cost))
  <2>1. back \in Nat /\ pay \in Nat
    BY <1>1, ClampedChange, ChargeFacts
  <2>2. /\ RentalOver(r, c) = Release(Settle(r, "completed", back, pay), "released_provider")
        /\ \E v \in Released : StopRunning(r, c) = Release(Settle(r, "stopped", back, pay), v)
    BY <1>2 DEF RentalOver, StopRunning
  <2> HIDE DEF back, pay, r
  <2> QED  BY <1>1, <1>2, <2>1, <2>2, SettleCredits
<1>4. /\ StopUnstarted(r) \in Row /\ Credits(r, StopUnstarted(r))
      /\ TimedOut(r) \in Row /\ Credits(r, TimedOut(r))
  <2> HIDE DEF r
  <2> QED  BY <1>1, <1>2, RefundCredits DEF StopUnstarted, TimedOut
<1>5. LET x == Settle(r, "completed", 0, Share(r.cost)) IN x \in Row /\ Credits(r, x)
  <2>1. Share(r.cost) \in Nat
    BY <1>2, ShareNat
  <2> HIDE DEF r
  <2> QED  BY <1>1, <1>2, <2>1, SettleCredits
<1>6. StaleCancelled(r) \in Row /\ Credits(r, StaleCancelled(r))
  <2>1. RefundOnce(r, "cancelled") \in Row /\ Credits(r, RefundOnce(r, "cancelled"))
    <3> HIDE DEF r
    <3> QED  BY <1>1, <1>2, RefundCredits
  <2> DEFINE x == RefundOnce(r, "cancelled")
  <2> HIDE DEF x
  <2>2. [x EXCEPT !.refunded = TRUE] \in Row /\ Credits(r, [x EXCEPT !.refunded = TRUE])
    <3>1. x \in Row /\ Credits(r, x)
      BY <2>1 DEF x
    <3> QED  BY <3>1 DEF Credits, Row
  <2> QED  BY <2>2 DEF StaleCancelled, x
<1>7. \/ \E c \in Metered(r) : Post(j, StopRunning(r, c)) \/ PostAndPromote(j, RentalOver(r, c))
      \/ Post(j, StopUnstarted(r)) \/ PostAndPromote(j, TimedOut(r))
      \/ Post(j, Settle(r, "completed", 0, Share(r.cost)))
      \/ Post(j, StaleCancelled(r))
  BY DEF StopPod, EnforceTimeout, SettleExpiredPod, CancelStalePod
<1>8. \A x \in Row : Credits(r, x) /\ (Post(j, x) \/ PostAndPromote(j, x)) => Solvent'
  BY <1>1, PostSolvent, PostAndPromoteSolvent
<1> HIDE DEF r
<1> QED  BY <1>3, <1>4, <1>5, <1>6, <1>7, <1>8

\* Cancel, complete and the repairs of an admin
LEMMA RepairsSolvent ==
  ASSUME Sound, Solvent, NEW j \in Jobs,
         \/ Cancel(j) \/ Complete(j) \/ PatchComplete(j) \/ PatchFail(j)
         \/ AdminCancel(j) \/ AdminRequeue(j) \/ Pause(j) \/ Resume(j) \/ SweepRetry(j)
  PROVE  Solvent'
<1> DEFINE r == job[j]
<1>1. SoundRow(r) /\ r \in Row /\ r # NoRow
  <2>1. r.status # "absent"
    BY DEF Cancel, Complete, PatchComplete, PatchFail, AdminCancel, AdminRequeue, Pause, Resume,
       SweepRetry, Live
  <2> QED  BY <2>1, SoundFacts, UnusedRow
<1>2. /\ {"cancelled", "completed", "failed"} \subseteq Terminal
      /\ {"released_provider", "released_renter"} \subseteq Released
      /\ 0 \in Nat /\ r.cost \in Nat
  BY <1>1 DEF Terminal, Released, Row
<1>3. \A x \in Row : Credits(r, x) /\ (Post(j, x) \/ PostAndPromote(j, x)) => Solvent'
  BY <1>1, PostSolvent, PostAndPromoteSolvent
<1>4. CASE Cancel(j)
  <2>1. PostAndPromote(j, Release(Refund(r, "cancelled"), "released_renter"))
    BY <1>4 DEF Cancel
  <2> HIDE DEF r
  <2> QED  BY <1>1, <1>2, <1>3, <2>1, RefundCredits
<1>5. CASE Complete(j) \/ PatchComplete(j)
  <2>1. \E c \in Metered(r) : \E pay \in {0, Split(c)} :
          \/ Post(j, Release(Settle(r, "completed", 0, pay), "released_provider"))
          \/ Post(j, Settle(r, "completed", 0, pay))
    BY <1>5 DEF Complete, PatchComplete
  <2>2. \A c \in Metered(r) : Split(c) \in Nat
    BY <1>1, ChargeFacts
  <2> HIDE DEF r
  <2> QED  BY <1>1, <1>2, <1>3, <2>1, <2>2, SettleCredits
<1>6. CASE AdminCancel(j)
  <2>1. Post(j, Settle(r, "cancelled", r.cost, 0))
    BY <1>6 DEF AdminCancel
  <2> HIDE DEF r
  <2> QED  BY <1>1, <1>2, <1>3, <2>1, SettleCredits
<1>7. CASE PatchFail(j) \/ Pause(j) \/ Resume(j)
  <2>1. PICK s : Post(j, [r EXCEPT !.status = s])
    BY <1>7 DEF PatchFail, Pause, Resume
  <2> QED  BY <1>1, <2>1, EditSolvent DEF Row
<1>8. CASE AdminRequeue(j)
  <2> DEFINE x == [r EXCEPT !.status = "pending", !.started = FALSE,
                            !.picked = FALSE, !.timeout = TRUE]
  <2>1. x.type = r.type /\ x.returned = r.returned
    BY <1>1 DEF Row
  <2>2. Post(j, x)
    BY <1>8 DEF AdminRequeue
  <2> HIDE DEF x
  <2> QED  BY <1>1, <2>1, <2>2, EditSolvent
<1>9. CASE SweepRetry(j)
  <2>1. Retried(r).type = r.type /\ Retried(r).returned = r.returned
    BY <1>1 DEF Retried, Unassign, Row
  <2>2. Post(j, Retried(r))
    BY <1>9 DEF SweepRetry
  <2> QED  BY <1>1, <2>1, <2>2, EditSolvent
<1> QED  BY <1>4, <1>5, <1>6, <1>7, <1>8, <1>9

\* burst.py refunds what was prepaid, or only writes its own state.
LEMMA BurstSolvent ==
  ASSUME Sound, Solvent, NEW j \in Jobs, BurstProcess(j)
  PROVE  Solvent'
<1> DEFINE r == job[j]
<1>1. SoundRow(r) /\ r \in Row /\ r # NoRow /\ "failed" \in Terminal
  <2>1. r.burst # "none"
    BY DEF BurstProcess, BurstUp, BurstFailRead, BurstFailWrite, BurstFail
  <2> QED  BY <2>1, SoundFacts, UnusedRow DEF Terminal
<1>2. ASSUME NEW s, s.type = r.type, s.returned = r.returned, Post(j, s) PROVE Solvent'
  BY <1>1, <1>2, EditSolvent
<1>3. ASSUME NEW x \in {Refund(r, "failed"), RefundOnce(r, "failed")},
             Post(j, [x EXCEPT !.burst = "none"])
      PROVE  Solvent'
  <2>1. x \in Row /\ Credits(r, x)
    <3> HIDE DEF r
    <3> QED  BY <1>1, RefundCredits DEF Released
  <2>2. [x EXCEPT !.burst = "none"] \in Row /\ Credits(r, [x EXCEPT !.burst = "none"])
    BY <2>1 DEF Credits, Row
  <2> QED  BY <1>1, <1>3, <2>2, PostSolvent
<1>4. \A b : [r EXCEPT !.burst = b].type = r.type /\ [r EXCEPT !.burst = b].returned = r.returned
  BY <1>1 DEF Row
<1>5. CASE BurstUp(j)
  <2> DEFINE up == [r EXCEPT !.status = "running", !.live = TRUE, !.started = TRUE,
                             !.timeout = TRUE, !.burst = "none"]
  <2>1. up.type = r.type /\ up.returned = r.returned
    BY <1>1 DEF Row
  <2>2. Post(j, up) \/ Post(j, [r EXCEPT !.burst = "none"])
    BY <1>5 DEF BurstUp
  <2> HIDE DEF up, r
  <2> QED  BY <1>2, <1>4, <2>1, <2>2
<1>6. CASE BurstFailRead(j)
  <2>1. \E b : Post(j, [r EXCEPT !.burst = b])
    BY <1>6 DEF BurstFailRead
  <2> HIDE DEF r
  <2> QED  BY <1>2, <1>4, <2>1
<1>7. CASE BurstFailWrite(j)
  <2> DEFINE down == [[r EXCEPT !.status = "failed"] EXCEPT !.burst = "none"]
  <2>1. down.type = r.type /\ down.returned = r.returned
    BY <1>1 DEF Row
  <2>2. Post(j, [Refund(r, "failed") EXCEPT !.burst = "none"]) \/ Post(j, down)
    BY <1>7 DEF BurstFailWrite, BurstFailed
  <2> HIDE DEF down, r
  <2> QED  BY <1>2, <1>3, <2>1, <2>2
<1>8. CASE BurstFail(j)
  <2>1. \/ Post(j, [r EXCEPT !.burst = "none"])
        \/ Post(j, [RefundOnce(r, "failed") EXCEPT !.burst = "none"])
    BY <1>8 DEF BurstFail
  <2> HIDE DEF r
  <2> QED  BY <1>2, <1>3, <1>4, <2>1
<1> QED  BY <1>5, <1>6, <1>7, <1>8 DEF BurstProcess

\* Delivery, phase reports and a daemon that leaves move no money.
LEMMA DaemonSolvent ==
  ASSUME Sound, Solvent, NEW p \in Providers, NEW j \in Jobs,
         \/ Pickup(p, j) \/ AssignNext(p, j)
         \/ ProgressPulling(p, j) \/ ProgressExecuting(p, j)
         \/ PodReady(p, j) \/ ServeReady(p, j) \/ DaemonLeaves(p, j)
  PROVE  Solvent'
<1> DEFINE r == job[j]
           got == [r EXCEPT !.provider = p, !.status = "running", !.picked = TRUE,
                            !.started = TRUE, !.timeout = TRUE, !.agents = @ \cup {p}]
           given == [r EXCEPT !.status = "assigned", !.picked = TRUE, !.timeout = TRUE,
                              !.agents = @ \cup {p},
                              !.hold = IF @ = "held" THEN "locked" ELSE @]
           phase(s) == [r EXCEPT !.status = s, !.started = TRUE]
           serve == [r EXCEPT !.status = "running", !.started = TRUE, !.agents = @ \ {p}]
           left == [r EXCEPT !.agents = @ \ {p}]
<1>1. r \in Row /\ r # NoRow
  <2>1. r.status # "absent" \/ p \in r.agents
    BY DEF Pickup, AssignNext, Eligible, ProgressPulling, ProgressExecuting, PodReady,
       ServeReady, DaemonLeaves, Reported, Deliverable
  <2> QED  BY <2>1, SoundFacts, UnusedRow
<1>2. /\ given.type = r.type /\ given.returned = r.returned
      /\ \A s : phase(s).type = r.type /\ phase(s).returned = r.returned
      /\ serve.type = r.type /\ serve.returned = r.returned
      /\ left.type = r.type /\ left.returned = r.returned
  BY <1>1 DEF Row
<1>3. Lock(got).type = r.type /\ Lock(got).returned = r.returned
  BY <1>1 DEF Lock, Row
<1>4. Endpoint(r, p).type = r.type /\ Endpoint(r, p).returned = r.returned
  BY <1>1 DEF Endpoint, Row
<1>5. \/ Post(j, Lock(got)) \/ Post(j, given) \/ \E s : Post(j, phase(s))
      \/ Post(j, serve) \/ Post(j, left) \/ Post(j, Endpoint(r, p))
  BY DEF Pickup, AssignNext, ProgressPulling, ProgressExecuting, PodReady, ServeReady,
     DaemonLeaves, Reported
<1>6. \A s : s.type = r.type /\ s.returned = r.returned /\ Post(j, s) => Solvent'
  BY <1>1, EditSolvent
<1> HIDE DEF r, got, given, phase, serve, left
<1> QED  BY <1>2, <1>3, <1>4, <1>5, <1>6

\* POST job-result debits a renter only for what is neither a pod nor within its quote.
LEMMA JobResultSolvent ==
  ASSUME PodsOverrun, Sound, Solvent, NEW p \in Providers, NEW j \in Jobs, JobResult(p, j)
  PROVE  Solvent'
<1> DEFINE r == job[j]
           a == [r EXCEPT !.agents = @ \ {p}]
<1>1. r \in Row /\ r # NoRow /\ Typed(r)
  BY SoundFacts, UnusedRow DEF JobResult, Solvent
<1>2. SoundRow(a) /\ a \in Row /\ Credits(r, a) /\ a.type = r.type
  <2>1. SoundRow(a)
    BY SoundFacts, LeaveSound
  <2> QED  BY <1>1, <2>1 DEF SoundRow, Credits, Row
<1>3. /\ {"completed", "failed"} \subseteq Terminal
      /\ {"released_provider", "released_renter"} \subseteq Released
  BY DEF Terminal, Released
<1>4. \/ \E c \in Metered(a) : Post(j, JobResultSuccess(a, c))
      \/ Post(j, Release(RefundOnce(a, "failed"), "released_renter"))
  BY DEF JobResult
<1>5. \A x \in Row : Credits(a, x) /\ Post(j, x) => Solvent'
  BY <1>1, <1>2, CreditsChain, PostSolvent
<1>6. "overrun" \in Exposures => a.type \in Pods
  BY <1>1, <1>2 DEF PodsOverrun, Typed
<1> HIDE DEF a, r
<1>7. ASSUME NEW c \in Metered(a)
      PROVE  JobResultSuccess(a, c) \in Row /\ Credits(a, JobResultSuccess(a, c))
  <2> DEFINE charge == ResultCharge(a, c)
  <2>1. a.cost - charge \in Nat
    <3>1. CASE a.type \in Pods
      BY <1>2, <3>1, ClampedChange DEF ResultCharge
    <3>2. CASE a.type \notin Pods
      <4>1. c \in 0 .. a.cost /\ a.cost \in Nat
        BY <1>2, <1>6, <3>2 DEF Metered, Row
      <4> QED  BY <3>2, <4>1 DEF ResultCharge
    <3> QED  BY <3>1, <3>2
  <2>2. Share(charge) \in Nat
    BY <1>2, ChargeFacts DEF ResultCharge
  <2>3. JobResultSuccess(a, c) =
          Release(Settle(a, "completed", a.cost - charge, Share(charge)), "released_provider")
    BY DEF JobResultSuccess
  <2> HIDE DEF charge
  <2> QED  BY <1>2, <1>3, <2>1, <2>2, <2>3, SettleCredits
<1>8. /\ Release(RefundOnce(a, "failed"), "released_renter") \in Row
      /\ Credits(a, Release(RefundOnce(a, "failed"), "released_renter"))
  BY <1>2, <1>3, RefundCredits
<1> QED  BY <1>4, <1>5, <1>7, <1>8

\* POST result and POST fail
LEMMA ReportSolvent ==
  ASSUME Sound, Solvent, NEW j \in Jobs,
         ResultSuccess(j) \/ ResultTransient(j) \/ ResultFailure(j) \/ FailReport(j)
  PROVE  Solvent'
<1> DEFINE r == job[j]
           a == Answered(r)
           again == [a EXCEPT !.status = "pending", !.picked = FALSE,
                              !.timeout = TRUE, !.retries = @ + 1]
<1>1. SoundRow(r) /\ r \in Row /\ r # NoRow
  <2>1. r.status # "absent"
    BY DEF ResultSuccess, ResultTransient, ResultFailure, FailReport, Live
  <2> QED  BY <2>1, SoundFacts, UnusedRow
<1>2. /\ SoundRow(a) /\ a \in Row /\ Metered(a) = Metered(r)
      /\ a.type = r.type /\ a.returned = r.returned /\ Credits(r, a)
  <2>1. SoundRow(a) /\ Metered(a) = Metered(r)
    BY <1>1, AnsweredSound
  <2>2. a.type = r.type /\ a.returned = r.returned /\ r.returned \in Int
    BY <1>1 DEF Answered, Row
  <2> QED  BY <2>1, <2>2 DEF SoundRow, Credits
<1>3. /\ {"completed", "failed"} \subseteq Terminal
      /\ {"released_provider", "released_renter"} \subseteq Released /\ 0 \in Nat
  BY DEF Terminal, Released
<1>4. \A x \in Row : Credits(a, x) /\ PostAndPromote(j, x) => Solvent'
  BY <1>1, <1>2, CreditsChain, PostAndPromoteSolvent
<1>5. again.type = r.type /\ again.returned = r.returned
  <2> HIDE DEF a
  <2> QED  BY <1>2 DEF Row
<1>6. \/ \E c \in Metered(r) : PostAndPromote(j, Release(PayMetered(a, c), "released_provider"))
      \/ Post(j, again)
      \/ PostAndPromote(j, Release(RefundOnce(a, "failed"), "released_renter"))
  BY DEF ResultSuccess, ResultTransient, ResultFailure, FailReport, FailedBack
<1>7. Post(j, again) => Solvent'
  BY <1>1, <1>5, EditSolvent
<1> HIDE DEF a, r, again
<1>8. ASSUME NEW c \in Metered(r)
      PROVE  /\ Release(PayMetered(a, c), "released_provider") \in Row
             /\ Credits(a, Release(PayMetered(a, c), "released_provider"))
  <2>1. Split(c) \in Nat
    BY <1>2, ChargeFacts
  <2> QED  BY <1>2, <1>3, <2>1, SettleCredits DEF PayMetered
<1>9. /\ Release(RefundOnce(a, "failed"), "released_renter") \in Row
      /\ Credits(a, Release(RefundOnce(a, "failed"), "released_renter"))
  BY <1>2, <1>3, RefundCredits
<1> QED  BY <1>4, <1>6, <1>7, <1>8, <1>9

\* Neither heartbeat monitor moves money.
LEMMA OfflineSolvent ==
  ASSUME Sound, Solvent, NEW p \in MayDropOff, ProviderOffline(p) \/ LivenessRequeue(p)
  PROVE  Solvent'
<1> DEFINE requeued(j) == [Unassign(job[j], "queued") EXCEPT !.retries = Bump(@)]
           pending(j) == Unassign(job[j], "pending")
<1>1. ASSUME NEW j \in Jobs
      PROVE  requeued(j).type = job[j].type /\ pending(j).type = job[j].type
  BY SoundFacts DEF Unassign, Row
<1>2. p # NoProvider
  BY DropOffAssumption, HostsAssumption
<1>3. \A j \in Jobs :
        \/ job'[j] = job[j]
        \/ job[j].provider = p /\ job'[j] \in {requeued(j), pending(j)}
  BY DEF ProviderOffline, LivenessRequeue
<1>4. balance' = balance
  BY DEF ProviderOffline, LivenessRequeue
<1> HIDE DEF requeued, pending
<1>5. ASSUME NEW j \in Jobs PROVE Typed(job'[j])
  <2>1. CASE job'[j] = job[j]
    BY <2>1 DEF Solvent
  <2>2. CASE job[j].provider = p /\ job'[j] \in {requeued(j), pending(j)}
    BY <1>1, <1>2, <2>2, UnusedRow DEF Solvent, Typed
  <2> QED  BY <1>3, <2>1, <2>2
<1> QED  BY <1>4, <1>5 DEF Solvent

LEMMA NextSolvent ==
  ASSUME PodsOverrun
  PROVE  Sound /\ Solvent /\ [Next]_vars => Solvent'
<1> SUFFICES ASSUME Sound, Solvent, [Next]_vars PROVE Solvent'
  OBVIOUS
<1>1. ASSUME NEW j \in Jobs, RenterStep(j)  PROVE Solvent'
  BY <1>1, DebitsSolvent, EndingsSolvent, RepairsSolvent DEF RenterStep
<1>2. ASSUME NEW j \in Jobs, AdminStep(j)  PROVE Solvent'
  BY <1>2, RepairsSolvent DEF AdminStep
<1>3. ASSUME NEW j \in Jobs, ReportStep(j)  PROVE Solvent'
  BY <1>3, ReportSolvent, RepairsSolvent DEF ReportStep
<1>4. ASSUME NEW j \in Jobs, TimerStep(j)  PROVE Solvent'
  BY <1>4, EndingsSolvent, RepairsSolvent DEF TimerStep
<1>5. ASSUME NEW j \in Jobs, NEW p \in Providers, DaemonStep(p, j)  PROVE Solvent'
  BY <1>5, DaemonSolvent, JobResultSolvent DEF DaemonStep
<1>6. CASE UNCHANGED vars
  BY <1>6 DEF Solvent, vars
<1> QED  BY <1>1, <1>2, <1>3, <1>4, <1>5, <1>6, BurstSolvent, OfflineSolvent DEF Next

\* The renter's wallet never goes below zero, whatever is repeated, requeued, raced
\* or reported late: only what is not a pod can be charged for more than its quote
\* (providers.js, POST job-result), so metering must keep to the quote there.
THEOREM WalletNeverOverdrawn ==
  ASSUME PodsOverrun
  PROVE  Spec => []NoOverdraft
<1>1. Init => Solvent
  BY BoundsAssumption DEF Init, Solvent, Typed
<1>2. Sound /\ Solvent /\ [Next]_vars => Solvent'
  BY NextSolvent
<1>3. Solvent => NoOverdraft
  BY DEF Solvent, NoOverdraft
<1> QED  BY <1>1, <1>2, <1>3, SoundAlways, PTL DEF Spec
=============================================================================

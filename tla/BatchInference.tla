---------------------------- MODULE BatchInference ----------------------------
(***************************************************************************)
(* Batch inference: POST /api/batches stores a batch and its lines, and a  *)
(* worker process of its own (runBatchInferenceWorkerOnce) executes one    *)
(* batch at a time.  It settles the lines, if it runs with settlement on,  *)
(* through settleInferenceOnce, on the wallet that interactive requests    *)
(* debit meanwhile.  The two processes interleave, and may die, between    *)
(* autocommitted statements; marks that only the worker reads are one step *)
(* with the statement that follows them.                                   *)
(***************************************************************************)
EXTENDS InferenceBilling

CONSTANTS
  Batches,   \* batch_id values
  LineNos    \* the lines of a batch

Lines == Batches \X LineNos              \* 'batch-line:' batch_id ':' custom_id

ASSUME LinesAssumption == Lines \subseteq Requests \ Keys
ASSUME LineNosAssumption == IsFiniteSet(LineNos) /\ LineNos \subseteq Nat

VARIABLES
  batch,    \* batch_inference_jobs
  line,     \* batch_inference_job_lines
  worker,   \* what the worker process is doing
  creating  \* the batch whose lines the API process is inserting

batchVars == <<batch, line, worker>>
serviceVars == <<billingVars, batchVars, creating>>

NoLine == [status |-> "absent", cost |-> 0, settlement |-> "unsettled", node |-> "none"]
NoWork == [phase |-> "idle"]

LineRow ==
  [status : {"absent", "pending", "succeeded", "failed"}, cost : Costs,
   settlement : {"unsettled", "not_required", "settled", "already_settled", "failed"},
   node : Nodes \cup {"none"}]

BatchTypeOK ==
  /\ batch \in [Batches ->
       [status : {"absent", "created", "running", "completed", "failed"}, total : Nat]]
  /\ line \in [Lines -> LineRow]
  /\ worker \in [phase : {"executing", "applying", "settling"}, batch : Batches,
                 settles : BOOLEAN, todo : SUBSET Lines] \cup {NoWork}
  /\ creating \subseteq Batches

BatchInit ==
  /\ batch = [b \in Batches |-> [status |-> "absent", total |-> 0]]
  /\ line = [l \in Lines |-> NoLine]
  /\ worker = NoWork
  /\ creating = {}

LinesOf(b) == {l \in Lines : l[1] = b}
Inserted(b) == {l \in LinesOf(b) : line[l].status # "absent"}
Billable(l) == line[l].status = "succeeded" /\ line[l].cost > 0
CostOf(ls) == SumFunction([l \in ls |-> line[l].cost])

\* createBatchInferenceJob; the worker may take the batch before its lines are there.
CreateBatch(b) ==
  /\ creating = {}
  /\ batch[b].status = "absent"
  /\ batch' = [batch EXCEPT ![b].status = "created"]
  /\ creating' = {b}
  /\ UNCHANGED <<line, worker, billingVars>>

InsertLine(l) ==
  LET missing == LinesOf(l[1]) \ Inserted(l[1])
  IN  /\ l[1] \in creating /\ l \in missing
      /\ \A m \in missing : l[2] <= m[2]
      /\ line' = [line EXCEPT ![l].status = "pending"]
      /\ creating' = IF missing = {l} THEN {} ELSE creating
      /\ UNCHANGED <<batch, worker, billingVars>>

\* The worker takes the next `created` batch and hands it to the executor.
StartBatch(b, settles) ==
  /\ worker = NoWork
  /\ batch[b].status = "created"
  /\ batch' = [batch EXCEPT ![b].status = "running"]
  /\ worker' = [phase |-> "executing", batch |-> b, settles |-> settles, todo |-> {}]
  /\ UNCHANGED <<line, billingVars>>

\* applyExecutionLineProofs: one proof for each line that it finds
AcceptProofs ==
  /\ worker.phase = "executing"
  /\ worker' = [worker EXCEPT !.phase = "applying", !.todo = Inserted(worker.batch)]
  /\ UNCHANGED <<batch, line, billingVars>>

ApplyProof(l, outcome, n) ==
  /\ worker.phase = "applying"
  /\ l \in worker.todo
  /\ line' = [line EXCEPT ![l].status = outcome.status, ![l].cost = outcome.cost,
                          ![l].node = n]
  /\ worker' = [worker EXCEPT !.todo = @ \ {l}]
  /\ UNCHANGED <<batch, billingVars>>

Proved == worker.phase = "applying" /\ worker.todo = {}

\* settleBatchInferenceLines up to its loop: lines with nothing to charge are
\* marked, and the gate compares the whole batch with the wallet.
Preflight ==
  LET lines == Inserted(worker.batch)
      billable == {l \in lines : Billable(l)}
  IN  /\ Proved /\ worker.settles
      /\ Spendable >= CostOf(billable)
      /\ line' = [l \in Lines |->
           IF l \in lines \ billable
           THEN [line[l] EXCEPT !.settlement = "not_required"] ELSE line[l]]
      /\ worker' = [worker EXCEPT !.phase = "settling", !.todo = billable]
      /\ UNCHANGED <<batch, billingVars>>

FailBatch ==
  /\ batch' = [batch EXCEPT ![worker.batch] = [status |-> "failed", total |-> 0]]
  /\ worker' = NoWork

\* The gate refuses: every billable line and the batch fail.
PreflightRefused ==
  /\ Proved /\ worker.settles
  /\ Spendable < CostOf({l \in Inserted(worker.batch) : Billable(l)})
  /\ line' = [l \in Lines |->
       IF l \notin Inserted(worker.batch) THEN line[l]
       ELSE [line[l] EXCEPT !.settlement =
              IF Billable(l) THEN "failed" ELSE "not_required"]]
  /\ FailBatch
  /\ UNCHANGED billingVars

\* settleInferenceOnce commits; the line is marked by the next statement.
SettleLine(l) ==
  /\ worker.phase = "settling"
  /\ l \in worker.todo
  /\ SettleInferenceOnce(l, line[l].node, line[l].cost)
  /\ UNCHANGED <<call, inflight, cache, expired, ledger, batchVars>>

\* Mutant: a line is marked settled before its charge commits.
MarkLineEarly(l) ==
  /\ worker.phase = "settling"
  /\ l \in worker.todo
  /\ line' = [line EXCEPT ![l].settlement = "settled"]
  /\ worker' = [worker EXCEPT !.todo = @ \ {l}]
  /\ UNCHANGED <<batch, billingVars>>

MarkLine(l) ==
  /\ worker.phase = "settling"
  /\ l \in worker.todo
  /\ ~ Unclaimed(l)
  /\ line' = [line EXCEPT ![l].settlement = "settled"]
  /\ worker' = [worker EXCEPT !.todo = @ \ {l}]
  /\ UNCHANGED <<batch, billingVars>>

\* Mutant: the loop goes on after a line that could not be charged.
LineSkipped(l) ==
  /\ worker.phase = "settling"
  /\ l \in worker.todo
  /\ Unclaimed(l)
  /\ ~ Affords(line[l].cost)
  /\ line' = [line EXCEPT ![l].settlement = "failed"]
  /\ worker' = [worker EXCEPT !.todo = @ \ {l}]
  /\ UNCHANGED <<batch, billingVars>>

\* Interactive requests drained the wallet after the gate: the lines already
\* charged stay charged, the batch fails with a total of zero.
LineShort(l) ==
  /\ worker.phase = "settling"
  /\ l \in worker.todo
  /\ Unclaimed(l)
  /\ ~ Affords(line[l].cost)
  /\ line' = [line EXCEPT ![l].settlement = "failed"]
  /\ FailBatch
  /\ UNCHANGED billingVars

\* With settlement off nothing is charged, and the lines stay `unsettled`.
Finished ==
  \/ worker.phase = "settling" /\ worker.todo = {}
  \/ Proved /\ ~ worker.settles

CompleteWith(total) ==
  /\ batch' = [batch EXCEPT ![worker.batch] = [status |-> "completed", total |-> total]]
  /\ worker' = NoWork
  /\ UNCHANGED <<line, billingVars>>

CompleteBatch == Finished /\ CompleteWith(CostOf(LinesOf(worker.batch)))

\* The executor reports a total, by default 0, and no lines.
CompleteUnproved(total) ==
  /\ worker.phase = "executing" /\ ~ worker.settles
  /\ CompleteWith(total)

\* The executor rejects, its proofs do not match the lines or are missing, an update
\* refuses one of them, or the final update refuses the storage key of the results.
BatchThrows ==
  /\ \/ worker.phase = "executing"
     \/ worker.phase = "applying" /\ worker.todo # {}
     \/ Finished
  /\ FailBatch
  /\ UNCHANGED <<line, billingVars>>

\* The worker process dies: the batch stays `running`, which no run picks up.
WorkerCrash ==
  /\ worker # NoWork
  /\ worker' = NoWork
  /\ UNCHANGED <<batch, line, billingVars>>

\* What the executor may report of a line, its provider aside.
Outcome == [status : {"failed"}, cost : {0, 1}]
  \cup [status : {"succeeded"}, cost : Costs]

WorkerStep ==
  \/ AcceptProofs
  \/ \E l \in worker.todo, outcome \in Outcome, n \in Nodes : ApplyProof(l, outcome, n)
  \/ Preflight
  \/ PreflightRefused
  \/ \E l \in worker.todo : SettleLine(l) \/ MarkLine(l) \/ LineShort(l)
  \/ CompleteBatch
  \/ \E total \in Costs : CompleteUnproved(total)
  \/ BatchThrows
  \/ WorkerCrash

BatchNext ==
  \/ \E b \in Batches : CreateBatch(b)
  \/ \E l \in Lines : InsertLine(l)
  \/ /\ \/ \E b \in Batches, settles \in BOOLEAN : StartBatch(b, settles)
        \/ worker # NoWork /\ WorkerStep
     /\ UNCHANGED creating

ServiceInit == BillingInit /\ BatchInit

\* While the API process inserts lines, it does nothing else but die.
ServiceNext ==
  \/ BatchNext
  \/ /\ BillingNext /\ (creating = {} \/ Crash)
     /\ creating' = {}
     /\ UNCHANGED batchVars

ServiceSpec == ServiceInit /\ [][ServiceNext]_serviceVars

ServiceTypeOK == BillingTypeOK /\ BatchTypeOK
-----------------------------------------------------------------------------
\* A line marked settled has been charged: a worker that dies or an interactive
\* request that wins the last of the wallet never leaves a free `settled` line.
SettledLinesAreCharged ==
  \A l \in Lines :
    line[l].settlement \in {"settled", "already_settled"} =>
      /\ attempt[l].status = "settled"
      /\ attempt[l].cost = line[l].cost

\* A completed batch was settled whole or not at all: with settlement on, every
\* billable line was charged and marked, none after an interactive request has drained
\* the wallet or a crash; with settlement off (DCP_BATCH_SETTLEMENT_ENABLED, the
\* default) no line was.  Either way its total covers what was charged.
CompletedBatchSettledWhole ==
  \A b \in Batches : batch[b].status = "completed" =>
    LET charged == {l \in LinesOf(b) : attempt[l].status = "settled"}
    IN  /\ \/ /\ charged = {l \in LinesOf(b) : Billable(l)}
              /\ \A l \in charged : line[l].settlement = "settled"
           \/ \A l \in LinesOf(b) :
                line[l].settlement = "unsettled" /\ attempt[l].status = "none"
        /\ batch[b].total >= SumFunction([l \in charged |-> attempt[l].cost])

\* What the account shows of an attempt
Disposition(r) ==
  CASE attempt[r].status = "none"    -> [status |-> "open"]
    [] attempt[r].status = "settled" ->
         [status |-> "charged", node |-> attempt[r].node, price |-> attempt[r].cost]
    [] OTHER                         -> [status |-> "waived"]

Account ==
  INSTANCE ChargeAccount WITH
    Prices <- 1 .. MaxCost,
    Funds <- Deposit + SumFunction(Grants),
    funds <- balance + (SumFunction(Grants) - SumFunction(consumed)),
    outcome <- [r \in Requests |-> Disposition(r)],
    income <- earned

\* Interactive requests and batches together keep the charge account: whatever is
\* retried, failed over, run in a batch or cut off by a crash, each step charges
\* one request id for the first and last time, waives one, or moves no money
\* (billingService.settleInferenceOnce).
KeepsAccount == Account!Spec
=============================================================================

------------------------------ MODULE MissionBoard -----------------------------
(***************************************************************************)
(* Mission Control: tasks that agents claim under a lease, that people     *)
(* edit, and that the dispatcher process resets when a lease has run out   *)
(* and creates when a provider is down.  The dispatcher acts over HTTP on  *)
(* a list it read earlier; while the service is flaky any call may fail    *)
(* and the process may die.  It is modelled with DISPATCHER_DRY_RUN=0.     *)
(***************************************************************************)
EXTENDS Integers, FiniteSets

CONSTANTS
  Tasks,      \* bound: ids of mission_tasks rows
  Agents,     \* assignees with a key of their own
  NoAgent,    \* NULL
  Incidents,  \* external ids of offline providers
  FleetLimit  \* offline providers that GET /fleet lists

ASSUME BoardAssumption ==
  /\ NoAgent \notin Agents
  /\ FleetLimit \in Nat \ {0}

VARIABLES
  task,      \* mission_tasks
  down,      \* providers that are offline (external)
  tick,      \* the dispatcher's tick, in the memory of its process
  pending,   \* the incident whose task is about to be created, if any
  flaky      \* calls may fail (external)

boardVars == <<task, down, tick, pending, flaky>>

Statuses == {"todo", "in_progress", "blocked", "review", "done", "cancelled"}
Working == {"in_progress", "blocked"}
Rows ==
  [status : Statuses \cup {"unborn", "deleted"}, assignee : Agents \cup {NoAgent},
   claimedBy : Agents \cup {NoAgent}, lease : {"none", "live", "expired"},
   external : SUBSET Incidents]
Idle == [phase |-> "idle", resets |-> {}, known |-> {}, repairs |-> {}]

BoardTypeOK ==
  /\ task \in [Tasks -> Rows]
  /\ down \subseteq Incidents
  /\ tick \in [phase : {"idle", "listed", "acting"}, resets : SUBSET Tasks,
               known : SUBSET Incidents, repairs : SUBSET Incidents]
  /\ pending \subseteq Incidents
  /\ flaky \in BOOLEAN

\* A row: the external id is a set of at most one, the empty set being NULL.
NewRow(status, assignee, external) ==
  [status |-> status, assignee |-> assignee, claimedBy |-> NoAgent,
   lease |-> "none", external |-> external]

BoardInit ==
  /\ task = [t \in Tasks |-> NewRow("unborn", NoAgent, {})]
  /\ down = {}
  /\ tick = Idle
  /\ pending = {}
  /\ flaky = TRUE

Exists(t) == task[t].status \in Statuses
Unborn(t) == task[t].status = "unborn"
Update(t, row) == task' = [task EXCEPT ![t] = row]
Overdue(row) == row.status \in Working /\ row.lease = "expired"
Pooled(row) ==
  [row EXCEPT !.status = "todo", !.assignee = NoAgent, !.claimedBy = NoAgent, !.lease = "none"]
-----------------------------------------------------------------------------
(* Agents: the lease protocol of lib/missionClaims.js, and PATCH *)

Claimable(row, a) ==
  \/ row.status = "todo" /\ row.assignee \in {a, NoAgent}
  \/ Overdue(row)

ClaimTask(a, t) ==
  /\ Claimable(task[t], a)
  /\ Update(t, [task[t] EXCEPT !.status = "in_progress", !.assignee = a,
                               !.claimedBy = a, !.lease = "live"])
  /\ UNCHANGED <<down, tick, pending, flaky>>

Holds(a, t) == task[t].claimedBy = a /\ task[t].status \in Working

\* Also when the lease has run out, as long as nobody else took the task
RenewLease(a, t) ==
  /\ Holds(a, t)
  /\ Update(t, [task[t] EXCEPT !.lease = "live"])
  /\ UNCHANGED <<down, tick, pending, flaky>>

ReleaseTask(a, t) ==
  /\ Holds(a, t)
  /\ Update(t, Pooled(task[t]))
  /\ UNCHANGED <<down, tick, pending, flaky>>

\* PATCH: review hands the task over and drops the claim.
Moved(row, status) ==
  IF status = "review"
  THEN [row EXCEPT !.status = status, !.claimedBy = NoAgent, !.lease = "none"]
  ELSE [row EXCEPT !.status = status]

\* agentWritePolicy: the holder of the claim, whatever the status of the task
AgentPatch(a, t, status) ==
  /\ Exists(t) /\ task[t].claimedBy = a
  /\ status \in Working \cup {"review"}
  /\ Update(t, Moved(task[t], status))
  /\ UNCHANGED <<down, tick, pending, flaky>>

\* Time
LeaseExpires(t) ==
  /\ task[t].lease = "live"
  /\ Update(t, [task[t] EXCEPT !.lease = "expired"])
  /\ UNCHANGED <<down, tick, pending, flaky>>
-----------------------------------------------------------------------------
(* People, with an admin token or the shared key *)

CreateTask(t, status, assignee) ==
  /\ Unborn(t)
  /\ Update(t, NewRow(status, assignee, {}))
  /\ UNCHANGED <<down, tick, pending, flaky>>

\* A claim survives every status but review.
Patch(t, status, assignee) ==
  /\ Exists(t)
  /\ Update(t, [Moved(task[t], status) EXCEPT !.assignee = assignee])
  /\ UNCHANGED <<down, tick, pending, flaky>>

Reassign(t, assignee) ==
  /\ Exists(t) /\ assignee # NoAgent
  /\ Update(t, [task[t] EXCEPT !.assignee = assignee,
                 !.status = IF @ \in {"done", "cancelled"} THEN "todo" ELSE @])
  /\ UNCHANGED <<down, tick, pending, flaky>>

Delete(t) ==
  /\ Exists(t)
  /\ Update(t, NewRow("deleted", NoAgent, {}))
  /\ UNCHANGED <<down, tick, pending, flaky>>

\* Providers (external)
FleetChanges(i) ==
  /\ down' = IF i \in down THEN down \ {i} ELSE down \cup {i}
  /\ UNCHANGED <<task, tick, pending, flaky>>
-----------------------------------------------------------------------------
(* The dispatcher: one tick at a time, three reads and its actions in order *)

\* Mutant: a blocked task is not planned.
PlannableInProgress(row) == row.status = "in_progress" /\ row.lease = "expired"

Plannable(row) == Overdue(row)

External(i) == {t \in Tasks : Exists(t) /\ i \in task[t].external}

ListTasks ==
  /\ tick = Idle
  /\ tick' = [Idle EXCEPT !.phase = "listed",
                          !.resets = {t \in Tasks : Plannable(task[t])},
                          !.known = {i \in Incidents : External(i) # {}}]
  /\ UNCHANGED <<task, down, pending, flaky>>

\* The tick goes on with an empty list.
ListFails ==
  /\ flaky
  /\ tick = Idle
  /\ tick' = [Idle EXCEPT !.phase = "listed"]
  /\ UNCHANGED <<task, down, pending, flaky>>

\* GET /fleet lists the first offline providers only.
Listed(offline) ==
  {s \in SUBSET offline :
     Cardinality(s) = IF Cardinality(offline) < FleetLimit THEN Cardinality(offline) ELSE FleetLimit}

Plan(offline) ==
  /\ tick.phase = "listed"
  /\ tick' = [tick EXCEPT !.phase = "acting", !.repairs = offline \ tick.known]
  /\ UNCHANGED <<task, down, pending, flaky>>

ReadFleet == \E offline \in Listed(down) : Plan(offline)
FleetFails == flaky /\ Plan({})

\* Mutant: the route trusts the dispatcher's plan.
ResettableWorking(row) == row.status \in Working /\ row.lease # "none"

\* The WHERE of POST reset-lease; otherwise 404 or 409, which is skipped.
Resettable(row) == Overdue(row)

ResetLease(t) ==
  /\ t \in tick.resets /\ tick.phase = "acting"
  /\ tick' = [tick EXCEPT !.resets = @ \ {t}]
  /\ Update(t, IF Resettable(task[t]) THEN Pooled(task[t]) ELSE task[t])
  /\ UNCHANGED <<down, pending, flaky>>

\* The call fails, or the lease limiter refuses it.
ResetFails(t) ==
  /\ flaky
  /\ t \in tick.resets /\ tick.phase = "acting"
  /\ tick' = [tick EXCEPT !.resets = @ \ {t}]
  /\ UNCHANGED <<task, down, pending, flaky>>

Repairing(i) ==
  /\ tick.phase = "acting" /\ tick.resets = {} /\ pending = {}
  /\ i \in tick.repairs
  /\ tick' = [tick EXCEPT !.repairs = @ \ {i}]
  /\ UNCHANGED <<task, down, flaky>>

\* Mutants: the second look is left out; it asks for any external id.
AbsentAlways(i) == TRUE
AbsentAny(i) == \A j \in Incidents : External(j) = {}

\* getTaskByExternalId found nothing.
Absent(i) == External(i) = {}

CheckRepair(i) == Repairing(i) /\ pending' = IF Absent(i) THEN {i} ELSE {}
CheckFails(i) == flaky /\ Repairing(i) /\ UNCHANGED pending

CreateRepairTask(i) ==
  LET fresh == {t \in Tasks : Unborn(t)}
  IN  /\ i \in pending
      /\ IF fresh = {} THEN UNCHANGED task
         ELSE \E t \in fresh : Update(t, NewRow("todo", NoAgent, {i}))
      /\ pending' = {}
      /\ UNCHANGED <<down, tick, flaky>>

CreateFails ==
  /\ flaky
  /\ pending # {}
  /\ pending' = {}
  /\ UNCHANGED <<task, down, tick, flaky>>

EndTick ==
  /\ tick.phase = "acting" /\ tick.resets = {} /\ tick.repairs = {} /\ pending = {}
  /\ tick' = Idle
  /\ UNCHANGED <<task, down, pending, flaky>>

Crash ==
  /\ flaky /\ tick # Idle
  /\ tick' = Idle
  /\ pending' = {}
  /\ UNCHANGED <<task, down, flaky>>
-----------------------------------------------------------------------------
AgentStep(t) ==
  \E a \in Agents :
    \/ ClaimTask(a, t) \/ RenewLease(a, t) \/ ReleaseTask(a, t)
    \/ \E s \in Statuses : AgentPatch(a, t, s)

PersonStep(t) ==
  \/ Delete(t)
  \/ \E a \in Agents \cup {NoAgent} :
       \/ Reassign(t, a)
       \/ \E s \in Statuses : CreateTask(t, s, a) \/ Patch(t, s, a)

TickStep ==
  \/ ListTasks \/ ReadFleet \/ EndTick
  \/ \E t \in Tasks : ResetLease(t)
  \/ \E i \in Incidents : CheckRepair(i) \/ CreateRepairTask(i)

Fault ==
  \/ ListFails \/ FleetFails \/ CreateFails \/ Crash
  \/ \E t \in Tasks : ResetFails(t)
  \/ \E i \in Incidents : CheckFails(i)

Settles == flaky /\ flaky' = FALSE /\ UNCHANGED <<task, down, tick, pending>>

BoardNext ==
  \/ \E t \in Tasks : AgentStep(t) \/ LeaseExpires(t) \/ PersonStep(t)
  \/ \E i \in Incidents : FleetChanges(i)
  \/ TickStep \/ Fault \/ Settles

\* setInterval starts a tick every five minutes, pm2 restarts the process, and calls
\* over the loopback interface do not fail for ever.
DispatcherFairness == WF_boardVars(TickStep) /\ WF_boardVars(Settles)

BoardSpec == BoardInit /\ [][BoardNext]_boardVars /\ DispatcherFairness
-----------------------------------------------------------------------------
(* Properties *)

\* While its lease runs, nobody takes a task from the agent that works on it: it ends
\* by the agent's own release, in review, or by deletion.  A reset planned on a lease
\* that has been renewed since is refused (mission.js:516 "so the dispatcher never
\* silently evicts an active agent").
LiveClaimIsKept ==
  [][\A t \in Tasks :
       task[t].lease = "live" /\ task[t].status \in Working =>
         \/ task'[t].claimedBy = task[t].claimedBy
         \/ task'[t].status \in {"review", "deleted"}
         \/ \E a \in Agents : ReleaseTask(a, t)]_boardVars

\* An incident has at most one task, although the list may have failed, the answer to
\* a creation may be lost, and the process may die between the look and the creation
\* (run.js:241 "Double-check").
OneRepairTask == \A i \in Incidents : Cardinality(External(i)) <= 1

\* A task whose lease has run out goes back to the pool, is claimed or renewed, or
\* moves on (reset_lease of planActions).
ExpiredClaimEnds ==
  \A t \in Tasks : Overdue(task[t]) ~> ~ Overdue(task[t])

\* An outage whose external id is on no row gets an open task, although the list or
\* the look may fail and both may be older than the outage; it may end first, drop off
\* the list of GET /fleet, or find the rows of the bound used up.  Nothing more is
\* promised: the id is static and matches a row of any status (rules.js:189), so while
\* an old task stands, even closed, a later outage of the provider gets none.
UnlistedOutageGetsTask ==
  \A i \in Incidents :
    (i \in down /\ External(i) = {}) ~>
      \/ i \notin down
      \/ \E t \in External(i) : task[t].status \notin {"done", "cancelled"}
      \/ Cardinality(down) > FleetLimit
      \/ \A t \in Tasks : ~ Unborn(t)
=============================================================================

------------------------------ MODULE MissionProofs ----------------------------
(***************************************************************************)
(* Theorems about MissionBoard, for any number of tasks, agents and        *)
(* incidents: the type invariant, a live claim is kept, and an incident    *)
(* has at most one task.                                                   *)
(***************************************************************************)
EXTENDS MissionBoard, FiniteSetTheorems, TLAPS

\* NewRow builds a row of mission_tasks.
LEMMA RowIsRow ==
  ASSUME NEW s \in Statuses \cup {"unborn", "deleted"}, NEW a \in Agents \cup {NoAgent},
         NEW e \in SUBSET Incidents
  PROVE  NewRow(s, a, e) \in Rows
BY DEF NewRow, Rows

\* A PATCH to any status leaves a row.
LEMMA MovedIsRow ==
  ASSUME NEW row \in Rows, NEW s \in Statuses
  PROVE  /\ Moved(row, s) \in Rows
         /\ Moved(row, s).external = row.external /\ Moved(row, s).status = s
BY DEF Moved, Rows

\* Releasing or resetting a task leaves a row.
LEMMA PooledIsRow ==
  ASSUME NEW row \in Rows
  PROVE  /\ Pooled(row) \in Rows
         /\ Pooled(row).external = row.external /\ Pooled(row).status \in Statuses
BY DEF Pooled, Rows, Statuses

\* The inductive invariant: only a task that exists has an incident, no two tasks have
\* the same one, and the task about to be created has none yet.
BoardInv ==
  /\ BoardTypeOK
  /\ \A t \in Tasks : task[t].external # {} => Exists(t)
  /\ \A i \in Incidents, t, u \in Tasks :
       i \in task[t].external /\ i \in task[u].external => t = u
  /\ \A i \in pending : External(i) = {}
  /\ \A i, j \in pending : i = j

\* Agents, people and the reset change one row.  It keeps its incident, or is deleted.
Changed(t) ==
  \E row \in Rows :
    /\ Update(t, row)
    /\ row.external # {} => row.external = task[t].external /\ row.status \in Statuses

\* A claim, renewal, release or PATCH by an agent writes one row and keeps its external id.
LEMMA AgentStepChanges ==
  ASSUME BoardInv, NEW t \in Tasks, AgentStep(t)
  PROVE  Changed(t) /\ UNCHANGED <<down, tick, pending, flaky>>
<1>1. PICK a \in Agents :
        \/ ClaimTask(a, t) \/ RenewLease(a, t) \/ ReleaseTask(a, t)
        \/ \E s \in Statuses : AgentPatch(a, t, s)
  BY DEF AgentStep
<1>2. task[t] \in Rows
  BY DEF BoardInv, BoardTypeOK
<1>3. CASE ClaimTask(a, t)
  <2> DEFINE row == [task[t] EXCEPT !.status = "in_progress", !.assignee = a,
                                    !.claimedBy = a, !.lease = "live"]
  <2>1. row \in Rows /\ row.external = task[t].external /\ row.status \in Statuses
    BY <1>2 DEF Rows, Statuses
  <2> QED  BY <1>3, <2>1 DEF ClaimTask, Changed
<1>4. CASE RenewLease(a, t)
  <2> DEFINE row == [task[t] EXCEPT !.lease = "live"]
  <2>1. row \in Rows /\ row.external = task[t].external /\ row.status \in Statuses
    BY <1>2, <1>4 DEF Rows, RenewLease, Holds, Working, Statuses
  <2> QED  BY <1>4, <2>1 DEF RenewLease, Changed
<1>5. CASE ReleaseTask(a, t)
  BY <1>2, <1>5, PooledIsRow DEF ReleaseTask, Changed
<1>6. CASE \E s \in Statuses : AgentPatch(a, t, s)
  BY <1>2, <1>6, MovedIsRow DEF AgentPatch, Changed, Working, Statuses
<1> QED  BY <1>1, <1>3, <1>4, <1>5, <1>6

\* A lease that runs out changes nothing but the lease.
LEMMA ExpiryChanges ==
  ASSUME BoardInv, NEW t \in Tasks, LeaseExpires(t)
  PROVE  Changed(t) /\ UNCHANGED <<down, tick, pending, flaky>>
<1> DEFINE row == [task[t] EXCEPT !.lease = "expired"]
<1>1. /\ row \in Rows /\ row.external = task[t].external
      /\ row.external # {} => row.status \in Statuses
  BY DEF BoardInv, BoardTypeOK, Rows, Exists
<1> QED  BY <1>1 DEF LeaseExpires, Changed

\* An admin or key holder writes one row: it keeps its external id, or loses it.
LEMMA PersonStepChanges ==
  ASSUME BoardInv, NEW t \in Tasks, PersonStep(t)
  PROVE  Changed(t) /\ UNCHANGED <<down, tick, pending, flaky>>
<1>1. task[t] \in Rows
  BY DEF BoardInv, BoardTypeOK
<1>2. CASE Delete(t)
  <2>1. NewRow("deleted", NoAgent, {}) \in Rows /\ NewRow("deleted", NoAgent, {}).external = {}
    BY RowIsRow DEF NewRow
  <2> QED  BY <1>2, <2>1 DEF Delete, Changed
<1>3. ASSUME NEW a \in Agents \cup {NoAgent}, Reassign(t, a)
      PROVE  Changed(t) /\ UNCHANGED <<down, tick, pending, flaky>>
  <2> DEFINE row == [task[t] EXCEPT !.assignee = a,
                       !.status = IF @ \in {"done", "cancelled"} THEN "todo" ELSE @]
  <2>1. row \in Rows /\ row.external = task[t].external /\ row.status \in Statuses
    BY <1>1, <1>3 DEF Rows, Statuses, Reassign, Exists
  <2> QED  BY <1>3, <2>1 DEF Reassign, Changed
<1>4. ASSUME NEW a \in Agents \cup {NoAgent}, NEW s \in Statuses, CreateTask(t, s, a)
      PROVE  Changed(t) /\ UNCHANGED <<down, tick, pending, flaky>>
  <2>1. NewRow(s, a, {}) \in Rows /\ NewRow(s, a, {}).external = {}
    BY RowIsRow DEF NewRow
  <2> QED  BY <1>4, <2>1 DEF CreateTask, Changed
<1>5. ASSUME NEW a \in Agents \cup {NoAgent}, NEW s \in Statuses, Patch(t, s, a)
      PROVE  Changed(t) /\ UNCHANGED <<down, tick, pending, flaky>>
  <2> DEFINE row == [Moved(task[t], s) EXCEPT !.assignee = a]
  <2>1. row \in Rows /\ row.external = task[t].external /\ row.status \in Statuses
    <3>1. /\ Moved(task[t], s) \in Rows
          /\ Moved(task[t], s).external = task[t].external /\ Moved(task[t], s).status = s
      BY <1>1, MovedIsRow
    <3> QED  BY <3>1 DEF Rows
  <2> QED  BY <1>5, <2>1 DEF Patch, Changed
<1> QED  BY <1>2, <1>3, <1>4, <1>5 DEF PersonStep

\* POST reset-lease writes one row, or none, and keeps its external id.
LEMMA ResetChanges ==
  ASSUME BoardInv, NEW t \in Tasks, ResetLease(t)
  PROVE  Changed(t)
<1>1. task[t] \in Rows
  BY DEF BoardInv, BoardTypeOK
<1>2. CASE Resettable(task[t])
  BY <1>1, <1>2, PooledIsRow DEF ResetLease, Changed
<1>3. CASE ~ Resettable(task[t])
  BY <1>1, <1>3 DEF ResetLease, Changed, BoardInv, Exists
<1> QED  BY <1>2, <1>3

\* Such a step keeps the invariant, whatever it does to the tick.
LEMMA ChangedKeeps ==
  ASSUME BoardInv, NEW t \in Tasks, Changed(t), BoardTypeOK', UNCHANGED pending
  PROVE  BoardInv'
<1>1. PICK row \in Rows :
        /\ task' = [task EXCEPT ![t] = row]
        /\ row.external # {} => row.external = task[t].external /\ row.status \in Statuses
  BY DEF Changed, Update
<1>2. /\ task \in [Tasks -> Rows]
      /\ task'[t] = row
      /\ \A u \in Tasks \ {t} : task'[u] = task[u]
  BY <1>1 DEF BoardInv, BoardTypeOK
<1>3. \A u \in Tasks : task'[u].external # {} =>
        task'[u].external = task[u].external /\ task'[u].status \in Statuses
  BY <1>1, <1>2 DEF BoardInv, Exists
<1>4. (\A u \in Tasks : task[u].external # {} => Exists(u))'
  BY <1>3 DEF Exists
<1>5. (\A i \in Incidents, u, v \in Tasks :
         i \in task[u].external /\ i \in task[v].external => u = v)'
  BY <1>3 DEF BoardInv
<1>6. (\A i \in pending : External(i) = {})'
  <2> SUFFICES ASSUME NEW i \in pending, NEW u \in Tasks, i \in task'[u].external
               PROVE  FALSE
    BY DEF External
  <2>1. i \in task[u].external /\ Exists(u)
    BY <1>3 DEF BoardInv
  <2> QED  BY <2>1 DEF BoardInv, External
<1>7. (\A i, j \in pending : i = j)'
  BY DEF BoardInv
<1> QED  BY <1>4, <1>5, <1>6, <1>7 DEF BoardInv
-----------------------------------------------------------------------------
(* The dispatcher *)

\* A step of the tick that writes one row keeps the invariant.
LEMMA TickTyped ==
  ASSUME BoardInv, NEW t \in Tasks, Changed(t), UNCHANGED <<down, pending, flaky>>,
         tick' \in [phase : {"idle", "listed", "acting"}, resets : SUBSET Tasks,
                    known : SUBSET Incidents, repairs : SUBSET Incidents]
  PROVE  BoardInv'
<1>1. BoardTypeOK'
  BY DEF BoardInv, BoardTypeOK, Changed, Update
<1> QED  BY <1>1, ChangedKeeps

\* A step that leaves the rows alone and does not look for a repair task
LEMMA TickKeeps ==
  ASSUME BoardInv, UNCHANGED task, down' \subseteq Incidents, flaky' \in BOOLEAN,
         pending' \subseteq pending,
         tick' \in [phase : {"idle", "listed", "acting"}, resets : SUBSET Tasks,
                    known : SUBSET Incidents, repairs : SUBSET Incidents]
  PROVE  BoardInv'
BY DEF BoardInv, BoardTypeOK, External, Exists

\* getTaskByExternalId marks an incident as pending only when it has no task.
LEMMA CheckKeeps ==
  ASSUME BoardInv, NEW i \in Incidents, CheckRepair(i)
  PROVE  BoardInv'
<1>1. /\ tick' = [tick EXCEPT !.repairs = @ \ {i}]
      /\ UNCHANGED <<task, down, flaky>>
      /\ pending' \subseteq {i} /\ (pending' # {} => External(i) = {})
  BY DEF CheckRepair, Repairing, Absent
<1>2. BoardTypeOK'
  BY <1>1 DEF BoardInv, BoardTypeOK
<1>3. \A j \in Incidents : External(j)' = External(j)
  BY <1>1 DEF External, Exists
<1>4. (\A j \in pending : External(j) = {})' /\ (\A j, k \in pending : j = k)'
  BY <1>1, <1>3
<1> QED  BY <1>1, <1>2, <1>4 DEF BoardInv, Exists

\* The creation gives a pending incident its first task, and none to any other.
LEMMA CreateKeeps ==
  ASSUME BoardInv, NEW i \in Incidents, CreateRepairTask(i)
  PROVE  BoardInv'
<1>1. i \in pending /\ pending' = {} /\ UNCHANGED <<down, tick, flaky>>
  BY DEF CreateRepairTask
<1>2. CASE UNCHANGED task
  BY <1>1, <1>2, TickKeeps DEF BoardInv, BoardTypeOK
<1>3. CASE \E t \in Tasks : Unborn(t) /\ Update(t, NewRow("todo", NoAgent, {i}))
  <2>1. PICK t \in Tasks : Unborn(t) /\ Update(t, NewRow("todo", NoAgent, {i}))
    BY <1>3
  <2>2. NewRow("todo", NoAgent, {i}) \in Rows
    BY RowIsRow DEF Statuses
  <2>3. BoardTypeOK'
    BY <1>1, <2>1, <2>2 DEF BoardInv, BoardTypeOK, Update
  <2>4. /\ task'[t] = NewRow("todo", NoAgent, {i})
        /\ \A u \in Tasks \ {t} : task'[u] = task[u]
    BY <2>1 DEF BoardInv, BoardTypeOK, Update
  <2>5. (\A u \in Tasks : task[u].external # {} => Exists(u))'
    BY <2>4 DEF BoardInv, Exists, NewRow, Statuses
  <2>6. \A u \in Tasks : i \notin task[u].external
    BY <1>1 DEF BoardInv, External
  <2>7. (\A j \in Incidents, u, v \in Tasks :
           j \in task[u].external /\ j \in task[v].external => u = v)'
    BY <2>4, <2>6 DEF BoardInv, NewRow
  <2> QED  BY <1>1, <2>3, <2>5, <2>7 DEF BoardInv
<1> QED  BY <1>2, <1>3 DEF CreateRepairTask
-----------------------------------------------------------------------------
\* The empty board satisfies the invariant.
LEMMA BoardInitInv == BoardInit => BoardInv
<1> SUFFICES ASSUME BoardInit PROVE BoardInv
  OBVIOUS
<1>1. NewRow("unborn", NoAgent, {}) \in Rows
  BY RowIsRow
<1> QED  BY <1>1 DEF BoardInit, BoardInv, BoardTypeOK, Idle, External, NewRow

\* Every step of agents, people, the fleet and the dispatcher keeps it.
LEMMA BoardStep == BoardInv /\ [BoardNext]_boardVars => BoardInv'
<1> SUFFICES ASSUME BoardInv, [BoardNext]_boardVars PROVE BoardInv'
  OBVIOUS
<1>1. /\ BoardTypeOK
      /\ tick \in [phase : {"idle", "listed", "acting"}, resets : SUBSET Tasks,
                   known : SUBSET Incidents, repairs : SUBSET Incidents]
  BY DEF BoardInv, BoardTypeOK
<1>2. ASSUME NEW t \in Tasks, AgentStep(t) \/ LeaseExpires(t) \/ PersonStep(t) PROVE BoardInv'
  BY <1>1, <1>2, AgentStepChanges, ExpiryChanges, PersonStepChanges, TickTyped
<1>3. ASSUME NEW i \in Incidents, FleetChanges(i) PROVE BoardInv'
  BY <1>1, <1>3, TickKeeps DEF FleetChanges, BoardTypeOK
<1>4. CASE ListTasks \/ ListFails
  <2>1. tick' \in [phase : {"idle", "listed", "acting"}, resets : SUBSET Tasks,
                   known : SUBSET Incidents, repairs : SUBSET Incidents]
    BY <1>4 DEF ListTasks, ListFails, Idle
  <2> QED  BY <1>1, <1>4, <2>1, TickKeeps DEF ListTasks, ListFails, BoardTypeOK
<1>5. CASE ReadFleet \/ FleetFails
  <2>1. PICK offline \in SUBSET Incidents : Plan(offline)
    BY <1>1, <1>5 DEF ReadFleet, FleetFails, Listed, BoardTypeOK
  <2>2. tick' \in [phase : {"idle", "listed", "acting"}, resets : SUBSET Tasks,
                   known : SUBSET Incidents, repairs : SUBSET Incidents]
    BY <1>1, <2>1 DEF Plan
  <2> QED  BY <1>1, <2>1, <2>2, TickKeeps DEF Plan, BoardTypeOK
<1>6. ASSUME NEW t \in Tasks, ResetLease(t) PROVE BoardInv'
  <2>1. Changed(t)
    BY <1>6, ResetChanges
  <2>2. /\ UNCHANGED <<down, pending, flaky>>
        /\ tick' = [tick EXCEPT !.resets = @ \ {t}]
    BY <1>6 DEF ResetLease
  <2>3. tick' \in [phase : {"idle", "listed", "acting"}, resets : SUBSET Tasks,
                   known : SUBSET Incidents, repairs : SUBSET Incidents]
    BY <1>1, <2>2
  <2> QED  BY <2>1, <2>2, <2>3, TickTyped
<1>7. ASSUME NEW t \in Tasks, ResetFails(t) PROVE BoardInv'
  BY <1>1, <1>7, TickKeeps DEF ResetFails, BoardTypeOK
<1>8. ASSUME NEW i \in Incidents, CheckFails(i) PROVE BoardInv'
  BY <1>1, <1>8, TickKeeps DEF CheckFails, Repairing, BoardTypeOK
<1>9. CASE CreateFails
  BY <1>1, <1>9, TickKeeps DEF CreateFails, BoardTypeOK
<1>10. CASE EndTick \/ Crash
  <2>1. Idle \in [phase : {"idle", "listed", "acting"}, resets : SUBSET Tasks,
                  known : SUBSET Incidents, repairs : SUBSET Incidents]
    BY DEF Idle
  <2> QED  BY <1>1, <1>10, <2>1, TickKeeps DEF EndTick, Crash, BoardTypeOK
<1>11. CASE Settles
  BY <1>1, <1>11, TickKeeps DEF Settles, BoardTypeOK
<1>12. CASE UNCHANGED boardVars
  BY <1>1, <1>12, TickKeeps DEF boardVars, BoardTypeOK
<1> QED
  BY <1>2, <1>3, <1>4, <1>5, <1>6, <1>7, <1>8, <1>9, <1>10, <1>11, <1>12,
     CheckKeeps, CreateKeeps DEF BoardNext, TickStep, Fault

\* Hence it always holds.
LEMMA BoardAlways == BoardSpec => []BoardInv
<1>1. BoardInit => BoardInv
  BY BoardInitInv
<1>2. BoardInv /\ [BoardNext]_boardVars => BoardInv'
  BY BoardStep
<1> QED  BY <1>1, <1>2, PTL DEF BoardSpec
-----------------------------------------------------------------------------
\* Every row, the tick and the pending creation keep their types, whatever agents,
\* people and a dying dispatcher do.
THEOREM BoardTypes == BoardSpec => []BoardTypeOK
<1>1. BoardInv => BoardTypeOK
  BY DEF BoardInv
<1> QED  BY <1>1, BoardAlways, PTL

\* The double check before POST /tasks (run.js, create_repair_task) keeps repair tasks
\* unique however many tasks and incidents there are.
THEOREM RepairTasksAreUnique == BoardSpec => []OneRepairTask
<1>1. BoardInv => OneRepairTask
  <2> SUFFICES ASSUME BoardInv, NEW i \in Incidents PROVE Cardinality(External(i)) <= 1
    BY DEF OneRepairTask
  <2>1. CASE External(i) = {}
    BY <2>1, FS_EmptySet
  <2>2. CASE External(i) # {}
    <3>1. PICK t \in External(i) : TRUE
      BY <2>2
    <3>2. External(i) = {t}
      BY <3>1 DEF External, BoardInv
    <3>3. Cardinality({t}) = 1
      BY FS_Singleton
    <3> QED  BY <3>2, <3>3
  <2> QED  BY <2>1, <2>2
<1> QED  BY <1>1, BoardAlways, PTL

\* lib/missionClaims.js and POST reset-lease: while its lease runs nobody takes a task
\* from the agent that works on it, whatever the dispatcher planned.
THEOREM LiveClaimsAreKept == BoardSpec => LiveClaimIsKept
<1> DEFINE Kept(t) ==
      task[t].lease = "live" /\ task[t].status \in Working =>
        \/ task'[t].claimedBy = task[t].claimedBy
        \/ task'[t].status \in {"review", "deleted"}
        \/ \E a \in Agents : ReleaseTask(a, t)
<1>1. ASSUME BoardInv, [BoardNext]_boardVars, NEW t \in Tasks,
             task[t].lease = "live", task[t].status \in Working
      PROVE  \/ task'[t].claimedBy = task[t].claimedBy
             \/ task'[t].status \in {"review", "deleted"}
             \/ \E a \in Agents : ReleaseTask(a, t)
  <2>0. task \in [Tasks -> Rows] /\ ~ Overdue(task[t]) /\ ~ Unborn(t)
    BY <1>1 DEF BoardInv, BoardTypeOK, Overdue, Working, Unborn
  <2>1. ASSUME NEW u \in Tasks, u # t, NEW row, Update(u, row)
        PROVE  task'[t] = task[t]
    BY <2>0, <2>1 DEF Update
  <2>2. ASSUME NEW row, Update(t, row) PROVE task'[t] = row
    BY <2>0, <2>2 DEF Update
  <2>3. CASE UNCHANGED task
    BY <2>3
  <2>4. ASSUME NEW u \in Tasks, u # t,
               AgentStep(u) \/ LeaseExpires(u) \/ PersonStep(u) \/ ResetLease(u)
        PROVE  task'[t] = task[t]
    BY <2>1, <2>4 DEF AgentStep, LeaseExpires, PersonStep, ResetLease, ClaimTask, RenewLease,
       ReleaseTask, AgentPatch, Delete, Reassign, CreateTask, Patch
  <2>5. ASSUME NEW a \in Agents, ClaimTask(a, t) PROVE FALSE
    BY <2>0, <2>5, <1>1 DEF ClaimTask, Claimable, Working
  <2>6. CASE \E a \in Agents : RenewLease(a, t)
    BY <2>0, <2>2, <2>6 DEF RenewLease, Rows
  <2>7. \A s \in Statuses : s = "review" \/ Moved(task[t], s).claimedBy = task[t].claimedBy
    BY <2>0 DEF Moved, Rows
  <2>8. \A s \in Statuses : Moved(task[t], s) \in Rows /\ Moved(task[t], s).status = s
    BY <2>0, MovedIsRow
  <2>9. ASSUME NEW a \in Agents, NEW s \in Statuses, AgentPatch(a, t, s)
        PROVE  task'[t].claimedBy = task[t].claimedBy \/ task'[t].status = "review"
    BY <2>2, <2>7, <2>8, <2>9 DEF AgentPatch
  <2>10. CASE AgentStep(t)
    BY <2>5, <2>6, <2>9, <2>10 DEF AgentStep
  <2>11. CASE LeaseExpires(t)
    BY <2>0, <2>2, <2>11 DEF LeaseExpires, Rows
  <2>12. CASE Delete(t)
    BY <2>2, <2>12 DEF Delete, NewRow
  <2>13. ASSUME NEW a \in Agents \cup {NoAgent}, Reassign(t, a)
         PROVE  task'[t].claimedBy = task[t].claimedBy
    BY <2>0, <2>2, <2>13 DEF Reassign, Rows
  <2>14. ASSUME NEW a \in Agents \cup {NoAgent}, NEW s \in Statuses, CreateTask(t, s, a)
         PROVE  FALSE
    BY <2>0, <2>14 DEF CreateTask
  <2>15. ASSUME NEW a \in Agents \cup {NoAgent}, NEW s \in Statuses, Patch(t, s, a)
         PROVE  task'[t].claimedBy = task[t].claimedBy \/ task'[t].status = "review"
    <3>1. task'[t] = [Moved(task[t], s) EXCEPT !.assignee = a]
      BY <2>2, <2>15 DEF Patch
    <3>2. /\ task'[t].claimedBy = Moved(task[t], s).claimedBy
          /\ task'[t].status = Moved(task[t], s).status
      BY <3>1, <2>8 DEF Rows
    <3> QED  BY <3>2, <2>7, <2>8
  <2>16. CASE PersonStep(t)
    BY <2>12, <2>13, <2>14, <2>15, <2>16 DEF PersonStep
  <2>17. CASE ResetLease(t)
    BY <2>0, <2>2, <2>17 DEF ResetLease, Resettable
  <2>18. ASSUME NEW i \in Incidents, CreateRepairTask(i) PROVE task'[t] = task[t]
    BY <2>0, <2>1, <2>18 DEF CreateRepairTask
  <2>19. CASE \/ ListTasks \/ ReadFleet \/ EndTick \/ ListFails \/ FleetFails
              \/ CreateFails \/ Crash \/ Settles \/ UNCHANGED boardVars
    BY <2>3, <2>19 DEF ListTasks, ReadFleet, EndTick, ListFails, FleetFails, Plan,
       CreateFails, Crash, Settles, boardVars
  <2>20. ASSUME NEW u \in Tasks, ResetFails(u) PROVE UNCHANGED task
    BY <2>20 DEF ResetFails
  <2>21. ASSUME NEW i \in Incidents, CheckRepair(i) \/ CheckFails(i) \/ FleetChanges(i)
         PROVE  UNCHANGED task
    BY <2>21 DEF CheckRepair, CheckFails, Repairing, FleetChanges
  <2> QED
    BY <1>1, <2>3, <2>4, <2>10, <2>11, <2>16, <2>17, <2>18, <2>19, <2>20, <2>21
       DEF BoardNext, TickStep, Fault
<1>2. BoardInv /\ [BoardNext]_boardVars => [\A t \in Tasks : Kept(t)]_boardVars
  BY <1>1
<1> QED  BY <1>2, BoardAlways, PTL DEF BoardSpec, LiveClaimIsKept
=============================================================================

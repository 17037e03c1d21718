------------------------------- MODULE MCMission -------------------------------
(***************************************************************************)
(* The board in two slices.  Work: agents, people and the dispatcher on    *)
(* one task, beside an outage.  Outages: several incidents, whose tasks    *)
(* nobody claims, are closed, reopened and deleted.                        *)
(***************************************************************************)
EXTENDS MissionBoard

CONSTANTS Worked,   \* the task of the slice "work"
          Broken    \* its incident

VARIABLE slice

\* No constraint of a slice ever disables a step of the dispatcher.
Untouched(t) ==
  /\ task'[t].assignee = NoAgent
  /\ task'[t].status \in {"unborn", "todo", "done", "deleted"}

Work ==
  /\ slice = "work"
  /\ \A t \in Tasks \ {Worked} :
       UNCHANGED task[t] \/ task'[t] = NewRow("todo", NoAgent, {Broken})
  /\ down' \subseteq {Broken}

Outages == slice = "outages" /\ \A t \in Tasks : Untouched(t)

MCInit == BoardInit /\ slice \in {"work", "outages"}
MCNext == BoardNext /\ (Work \/ Outages) /\ UNCHANGED slice
MCSpec == MCInit /\ [][MCNext]_<<boardVars, slice>> /\ DispatcherFairness
=============================================================================

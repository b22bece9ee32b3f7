--------------------------- MODULE OrganizeTasks ---------------------------
(***************************************************************************)
(* One task of internal/mediaorganize: handlers plan it, apply the plan,   *)
(* do both (RunTask), stop, edit and delete it, and a runner goroutine     *)
(* does the work.  A handler looks at the task, at the progress and at the *)
(* running mark in sections of their own before startRunner takes the      *)
(* mark; handlers and runner store the whole row they have read.           *)
(*                                                                         *)
(* A plan is known by its number and by the settings it was made for.      *)
(* Changes of single actions of a plan are left out.                       *)
(***************************************************************************)
EXTENDS Naturals, FiniteSets

CONSTANTS Callers,   \* goroutines of handlers
          MaxPlans,  \* bound: plans that are made
          MaxEdits   \* bound: changes of the settings

VARIABLES row,       \* the task as stored: its status and its settings
          file,      \* the plan file
          marked,    \* the task is in running
          stop,      \* the task is in stopRequests
          progress,  \* the field "running" of taskProgress
          runner,    \* the goroutines of startRunner
          call,      \* the callers
          plans,     \* number of plans made so far
          edits,     \* number of changes of the settings so far
          applied,   \* history: the plans that were applied
          again      \* history: a plan was applied a second time

vars == <<row, file, marked, stop, progress, runner, call, plans, edits, applied, again>>
ownVars == <<marked, stop, progress>>
bounds == <<plans, edits, applied, again>>

Goroutines == 1..2
Status == {"idle", "planning", "running", "stopping"}
Active == {"planning", "running", "stopping"}
Rows == [status : Status \cup {"gone"}, cfg : 0..MaxEdits]
NoPlan == [id |-> 0, cfg |-> 0]
Plans == [id : 0..MaxPlans, cfg : 0..MaxEdits]
Ops == {"plan", "apply", "run", "stop", "update", "delete"}
NoRow == [status |-> "gone", cfg |-> 0]
Idle == [at |-> "idle", op |-> "stop", row |-> NoRow, plan |-> NoPlan]
NoRunner == [at |-> "none", kind |-> "run", row |-> NoRow, plan |-> NoPlan]

TypeOK ==
  /\ row \in Rows /\ file \in Plans
  /\ marked \in BOOLEAN /\ stop \in BOOLEAN /\ progress \in BOOLEAN
  /\ runner \in [Goroutines ->
       [at : {"none", "begin", "build", "save", "finish", "settle", "rest", "enter", "apply",
              "discard", "result", "unplan", "unmark"},
        kind : {"plan", "apply", "run"}, row : Rows, plan : Plans]]
  /\ call \in [Callers ->
       [at : {"idle", "check", "prepare", "start", "request", "store", "unplan", "discard", "erase"},
        op : Ops, row : Rows, plan : Plans]]
  /\ plans \in 0..MaxPlans /\ edits \in 0..MaxEdits
  /\ applied \subseteq 1..MaxPlans /\ again \in BOOLEAN

Init ==
  /\ row = [status |-> "idle", cfg |-> 0] /\ file = NoPlan
  /\ marked = FALSE /\ stop = FALSE /\ progress = FALSE
  /\ runner = [g \in Goroutines |-> NoRunner] /\ call = [c \in Callers |-> Idle]
  /\ plans = 0 /\ edits = 0 /\ applied = {} /\ again = FALSE

-----------------------------------------------------------------------------
(***************************************************************************)
(* Handlers                                                                *)
(***************************************************************************)
Store(r) == row' = IF row.status = "gone" THEN row ELSE r
Goto(c, at) == call' = [call EXCEPT ![c].at = at]
Return(c) == call' = [call EXCEPT ![c] = Idle]

Get(c, op) ==
  /\ call[c] = Idle /\ row.status # "gone"
  /\ op = "update" => edits < MaxEdits
  /\ call' = [call EXCEPT ![c] = [at |-> IF op = "update" THEN "store" ELSE "check",
                                  op |-> op, row |-> row, plan |-> NoPlan]]
  /\ UNCHANGED <<row, file, ownVars, runner, bounds>>

\* PlanTaskAsync, ApplyTaskAsync, RunTask and the two that stop the runner.
Busy(op) == marked \/ (op \in {"plan", "apply"} /\ progress)
Check(c) ==
  LET op == call[c].op
      active == call[c].row.status \in Active \/ marked
  IN  /\ call[c].at = "check"
      /\ CASE op \in {"plan", "run"} -> IF Busy(op) THEN Return(c) ELSE Goto(c, "prepare")
           [] op = "apply" -> IF Busy(op) \/ file = NoPlan THEN Return(c)
                              ELSE call' = [call EXCEPT ![c].at = "prepare", ![c].plan = file]
           [] op = "stop" -> IF active THEN Goto(c, "request") ELSE Return(c)
           [] op = "delete" -> Goto(c, IF active THEN "request" ELSE "unplan")
      /\ UNCHANGED <<row, file, ownVars, runner, bounds>>

\* The progress is set up before the runner is started.
Prepare(c) ==
  /\ call[c].at = "prepare" /\ Goto(c, "start")
  /\ stop' = FALSE /\ progress' = (call[c].op = "plan" \/ progress)
  /\ UNCHANGED <<row, file, marked, runner, bounds>>

\* startRunner: nothing when the task runs.
StartRunner(c) ==
  /\ call[c].at = "start" /\ Return(c)
  /\ IF ~marked
     THEN \E g \in Goroutines :
            /\ runner[g] = NoRunner /\ marked' = TRUE
            /\ runner' = [runner EXCEPT ![g] =
                 [at |-> IF call[c].op = "apply" THEN "enter" ELSE "begin",
                  kind |-> call[c].op, row |-> call[c].row, plan |-> call[c].plan]]
     ELSE UNCHANGED <<marked, runner>>
  /\ UNCHANGED <<row, file, stop, progress, bounds>>

RequestStop(c) ==
  /\ call[c].at = "request" /\ stop' = TRUE
  /\ Goto(c, IF call[c].op = "stop" THEN "store" ELSE "unplan")
  /\ UNCHANGED <<row, file, marked, progress, runner, bounds>>

\* UpdateTask, for the form and for the handler that stops: the row as read before,
\* with other settings or with another status; then the plan file goes.  Both end when
\* the row is gone.
UpdateTask(c) ==
  /\ call[c].at = "store"
  /\ IF row.status = "gone" THEN Return(c) /\ UNCHANGED <<row, edits>>
     ELSE /\ Goto(c, "unplan")
          /\ IF call[c].op = "stop"
             THEN row' = [call[c].row EXCEPT !.status = "stopping"] /\ UNCHANGED edits
             ELSE /\ edits < MaxEdits /\ edits' = edits + 1
                  /\ row' = [call[c].row EXCEPT !.cfg = edits + 1]
  /\ UNCHANGED <<file, ownVars, runner, plans, applied, again>>
DeletePlanFile(c) ==
  /\ call[c].at = "unplan" /\ file' = NoPlan
  /\ IF call[c].op = "delete" THEN Goto(c, "discard") ELSE Return(c)
  /\ UNCHANGED <<row, ownVars, runner, bounds>>

\* DeleteTask
DiscardStop(c) ==
  /\ call[c].at = "discard" /\ stop' = FALSE /\ Goto(c, "erase")
  /\ UNCHANGED <<row, file, marked, progress, runner, bounds>>
Erase(c) ==
  /\ call[c].at = "erase" /\ row' = [row EXCEPT !.status = "gone"] /\ Return(c)
  /\ UNCHANGED <<file, ownVars, runner, bounds>>

-----------------------------------------------------------------------------
(***************************************************************************)
(* The runner                                                              *)
(***************************************************************************)
To(g, at) == runner' = [runner EXCEPT ![g].at = at]
Mine(g, status) == Store([runner[g].row EXCEPT !.status = status])

Begin(g) ==
  /\ runner[g].at = "begin" /\ Mine(g, "planning") /\ To(g, "build")
  /\ UNCHANGED <<file, ownVars, call, bounds>>

\* buildPlan succeeds, fails, or sees the stop at one of its checks.
Build(g) ==
  /\ runner[g].at = "build"
  /\ \/ ~stop /\ plans < MaxPlans /\ To(g, "save")
     \/ To(g, IF runner[g].kind = "plan" THEN "finish" ELSE "rest")
  /\ UNCHANGED <<row, file, ownVars, call, bounds>>
SavePlan(g) ==
  LET plan == [id |-> plans + 1, cfg |-> runner[g].row.cfg]
  IN  /\ runner[g].at = "save" /\ plans < MaxPlans
      /\ file' = plan /\ plans' = plans + 1
      /\ runner' = [runner EXCEPT ![g].plan = plan,
                                  ![g].at = IF runner[g].kind = "plan" THEN "finish" ELSE "enter"]
      /\ UNCHANGED <<row, ownVars, call, edits, applied, again>>

\* finish of PlanTaskAsync: the row, then the progress.
Finish(g) ==
  /\ runner[g].at = "finish" /\ Mine(g, "idle") /\ To(g, "settle")
  /\ UNCHANGED <<file, ownVars, call, bounds>>
SettleIfPlanned(g) ==
  /\ runner[g].at = "settle" /\ progress' = (progress /\ runner[g].plan = NoPlan)
  /\ To(g, "unmark")
  /\ UNCHANGED <<row, file, marked, stop, call, bounds>>
Settle(g) ==
  /\ runner[g].at = "settle" /\ progress' = FALSE /\ To(g, "unmark")
  /\ UNCHANGED <<row, file, marked, stop, call, bounds>>
Rest(g) ==
  /\ runner[g].at = "rest" /\ Mine(g, "idle") /\ To(g, "unmark")
  /\ UNCHANGED <<file, ownVars, call, bounds>>

\* applyPlanRunner: the actions end, at the latest at the check after a stop.
Enter(g) ==
  /\ runner[g].at = "enter" /\ Mine(g, "running") /\ To(g, "apply")
  /\ applied' = applied \cup {runner[g].plan.id}
  /\ again' = (again \/ runner[g].plan.id \in applied)
  /\ UNCHANGED <<file, ownVars, call, plans, edits>>
Apply(g) ==
  /\ runner[g].at = "apply" /\ To(g, "discard")
  /\ UNCHANGED <<row, file, ownVars, call, bounds>>
Discard(g) ==
  /\ runner[g].at = "discard" /\ stop' = FALSE /\ To(g, "result")
  /\ UNCHANGED <<row, file, marked, progress, call, bounds>>
Result(g) ==
  /\ runner[g].at = "result" /\ Mine(g, "idle") /\ To(g, "unplan")
  /\ UNCHANGED <<file, ownVars, call, bounds>>
KeepPlan(g) ==
  /\ runner[g].at = "unplan" /\ To(g, "unmark")
  /\ UNCHANGED <<row, file, ownVars, call, bounds>>
Unplan(g) ==
  /\ runner[g].at = "unplan" /\ file' = NoPlan /\ To(g, "unmark")
  /\ UNCHANGED <<row, ownVars, call, bounds>>
Unmark(g) ==
  /\ runner[g].at = "unmark" /\ marked' = FALSE
  /\ runner' = [runner EXCEPT ![g] = NoRunner]
  /\ UNCHANGED <<row, file, stop, progress, call, bounds>>

Handles(c) ==
  \/ Check(c) \/ Prepare(c) \/ StartRunner(c) \/ RequestStop(c) \/ UpdateTask(c)
  \/ DeletePlanFile(c) \/ DiscardStop(c) \/ Erase(c)
RunnerStep(g) ==
  \/ Begin(g) \/ Build(g) \/ SavePlan(g) \/ Finish(g) \/ Settle(g) \/ Rest(g) \/ Enter(g)
  \/ Apply(g) \/ Discard(g) \/ Result(g) \/ Unplan(g) \/ Unmark(g)
Next ==
  \/ \E c \in Callers : (\E op \in Ops : Get(c, op)) \/ Handles(c)
  \/ \E g \in Goroutines : RunnerStep(g)

Spec == Init /\ [][Next]_vars

\* Handlers and runners go on; calls to the drive return.
Fairness ==
  (\A c \in Callers : WF_vars(Handles(c))) /\ (\A g \in Goroutines : WF_vars(RunnerStep(g)))
FairSpec == Spec /\ Fairness

-----------------------------------------------------------------------------
\* A task has one runner: two would move the same files.
OneRunner == Cardinality({g \in Goroutines : runner[g] # NoRunner}) <= 1

\* A plan is carried out once: its actions name files that are elsewhere afterwards
\* (it goes, and only then may the next runner start).
PlanAppliedOnce == ~again

\* A plan whose generation was announced comes to an end for those who watch the
\* progress, and for the next request, which is refused until then (service.go:318).
ProgressSettles == []<>(~progress)

\* What a handler stores is not undone by the end of a runner that read the task
\* before.
SettingsSurvive == [][row.status # "gone" => row'.cfg >= row.cfg]_vars

\* Deleting a task that runs stops it (MediaOrganizePanel.vue:570: "the task is
\* running, the stop was requested").
DeleteStops ==
  \A g \in Goroutines : row.status = "gone" /\ runner[g].at = "apply" => stop

\* A task that says it is active has a runner, or a handler that is about to say so.
ActiveRuns ==
  row.status \in Active => marked \/ \E c \in Callers : call[c] # Idle

=============================================================================

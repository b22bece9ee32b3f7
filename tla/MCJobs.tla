------------------------------- MODULE MCJobs -------------------------------
(***************************************************************************)
(* The built-in downloader together with one instance each of three        *)
(* components that share no state with it: a behaviour is about one of the *)
(* four, the focus, and the others stay where they start.                  *)
(*                                                                         *)
(* The constants of a component bear its name (those of the downloader are *)
(* the ones of OfflineTasks), so that the .cfg chooses a small instance    *)
(* and JobsProofs speaks of all of them.                                   *)
(***************************************************************************)
EXTENDS OfflineTasks, Sequences, TLC

CONSTANTS
  one, two, three,                            \* ids of tasks, rules and callers
  StrmIds, StrmAccount, StrmLimit, StrmCallers, StrmRuns, StrmRestarts,
  Rules, NoRule, MaxSubmits,
  OrganizeCallers, MaxPlans, MaxEdits

ASSUME JobsAssumption ==
  /\ StrmRuns \in Nat /\ StrmRestarts \in Nat /\ IsFiniteSet(StrmIds)
  /\ NoRule \notin Rules /\ MaxSubmits \in Nat
  /\ MaxPlans \in Nat /\ MaxEdits \in Nat

OneAccount == [t \in StrmIds |-> "account"]
StrmOps == {"pause", "resume", "toggle", "update", "delete", "run", "stop"}

VARIABLE focus   \* the component that this behaviour is about

VARIABLES strmRow, strmMarks, strmPending, strmDirty, strmFiles, strmReady, strmTick,
          strmStale, strmRun, strmCall, strmRestarts
Strm == INSTANCE StrmTasks WITH
  Tasks <- StrmIds, Account <- StrmAccount, Limit <- StrmLimit,
  Callers <- StrmCallers, Ops <- StrmOps, MaxRuns <- StrmRuns,
  Restarts <- StrmRestarts, row <- strmRow, marks <- strmMarks,
  pending <- strmPending, dirty <- strmDirty, files <- strmFiles, ready <- strmReady,
  tick <- strmTick, stale <- strmStale, run <- strmRun, call <- strmCall,
  restarts <- strmRestarts
strmVars == <<strmRow, strmMarks, strmPending, strmDirty, strmFiles, strmReady,
              strmTick, strmStale, strmRun, strmCall, strmRestarts>>

VARIABLES autoRow, autoPending, autoCount, autoRunning, autoReady, autoRun, autoSched,
          autoHandoff, autoAccepted, autoStarted
Automate == INSTANCE Automation WITH row <- autoRow,
  pending <- autoPending, count <- autoCount, running <- autoRunning,
  ready <- autoReady, run <- autoRun, sched <- autoSched, handoff <- autoHandoff,
  accepted <- autoAccepted, started <- autoStarted
autoVars == <<autoRow, autoPending, autoCount, autoRunning, autoReady, autoRun,
              autoSched, autoHandoff, autoAccepted, autoStarted>>

VARIABLES organizeRow, organizeFile, organizeMarked, organizeStop, organizeProgress,
          organizeRunner, organizeCall, organizePlans, organizeEdits, organizeApplied,
          organizeAgain
Organize == INSTANCE OrganizeTasks WITH
  Callers <- OrganizeCallers, row <- organizeRow,
  file <- organizeFile, marked <- organizeMarked, stop <- organizeStop,
  progress <- organizeProgress, runner <- organizeRunner, call <- organizeCall,
  plans <- organizePlans, edits <- organizeEdits, applied <- organizeApplied,
  again <- organizeAgain
organizeVars == <<organizeRow, organizeFile, organizeMarked, organizeStop,
                  organizeProgress, organizeRunner, organizeCall, organizePlans,
                  organizeEdits, organizeApplied, organizeAgain>>

sumVars == <<focus, vars, strmVars, autoVars, organizeVars>>

SumInit ==
  /\ focus \in {"strm", "auto", "organize", "offline"}
  /\ Strm!Init /\ Automate!Init /\ Organize!Init /\ Init
  \* of the starts of a component that nobody looks at one will do
  /\ (focus # "offline" => slots.limit = 1)

\* The focus moves and the others do not.
SumNext ==
  /\ UNCHANGED focus
  /\ \/ focus = "strm" /\ Strm!Next /\ UNCHANGED <<autoVars, organizeVars, vars>>
     \/ focus = "auto" /\ Automate!Next /\ UNCHANGED <<strmVars, organizeVars, vars>>
     \/ focus = "organize" /\ Organize!Next /\ UNCHANGED <<strmVars, autoVars, vars>>
     \/ focus = "offline" /\ Next /\ UNCHANGED <<strmVars, autoVars, organizeVars>>

\* The fairness of each component, as its module gives and explains it.
StrmFairness ==
  /\ \A i \in 1..StrmRuns : WF_strmVars(focus = "strm" /\ Strm!RunStep(i))
  /\ \A c \in StrmCallers :
       WF_strmVars(focus = "strm" /\ (Strm!Handles(c) \/ Strm!Starts(c)))
  /\ WF_strmVars(focus = "strm" /\ Strm!Starts("scheduler"))
AutoFairness ==
  /\ WF_autoVars(focus = "auto" /\ Automate!Release)
  /\ \A g \in 1..2 : WF_autoVars(focus = "auto" /\ Automate!RunStep(g))
OrganizeFairness ==
  /\ \A c \in OrganizeCallers : WF_organizeVars(focus = "organize" /\ Organize!Handles(c))
  /\ \A g \in 1..2 : WF_organizeVars(focus = "organize" /\ Organize!RunnerStep(g))
OfflineFairness ==
  /\ \A t \in Tasks : WF_vars(focus = "offline" /\ Runner(t))
  /\ \A c \in Savers : WF_vars(focus = "offline" /\ SaveCloses(c))
  /\ WF_vars(focus = "offline" /\ Launch) /\ WF_vars(focus = "offline" /\ Cleaner)

SumFairness == StrmFairness /\ AutoFairness /\ OrganizeFairness /\ OfflineFairness

SumSpec == SumInit /\ [][SumNext]_sumVars /\ SumFairness

-----------------------------------------------------------------------------
\* Automation: rules run one at a time, accepted runs are neither forgotten nor
\* overtaken, and the counters of waiting runs, which decide what the scheduler
\* drops, agree with the queue (service_run.go:646, 670, 676).
RunsQueueUp ==
  /\ Automate!TypeOK /\ Automate!OneRuleAtATime
  /\ Automate!FirstComeFirstServed /\ Automate!CountsAgree

\* Automation: every accepted run is started some time (service_run.go:676).
AcceptedIsStarted == Automate!AcceptedIsStarted

\* StrmTasks: a task's files have one owner at a time, also after a forced stop,
\* and no mark outlives the run it was set for (service_stop.go:21).
FilesAndMarksMatch == Strm!TypeOK /\ Strm!FilesHaveOneOwner /\ Strm!NoStuckMarks

\* StrmTasks: the end of a scan does not undo a pause made during it
\* (service_pause.go:28).
ScanEndKeepsPause == Strm!ScanEndKeepsPause

\* StrmTasks: an account that a run has taken is free again some time
\* (service_schedule.go:125).
AccountIsFreed == Strm!AccountIsFreed

\* OrganizeTasks: a task has one runner, and a plan is carried out once
\* (service.go:863, 873).
OnePlanOneRunner == Organize!TypeOK /\ Organize!OneRunner /\ Organize!PlanAppliedOnce

\* OrganizeTasks: a plan that is being made comes to an end for those who watch
\* (service.go:319).
ProgressSettles == Organize!ProgressSettles

=============================================================================

----------------------------- MODULE Automation -----------------------------
(***************************************************************************)
(* internal/automation: the queue of rule runs and the rows of the rules.  *)
(* The scheduler, the bus (a finished download), web hooks and the user    *)
(* submit runs; one runs at a time, in a goroutine of its own that starts  *)
(* the next one when it ends.  Until the start-up gate is open submitted   *)
(* runs only queue up.                                                     *)
(*                                                                         *)
(* Of a row it matters whether the rule is switched on; whether its        *)
(* next_run_at has come is a free choice.  The scheduler and the runs      *)
(* store the whole row they have read, so what changed in between is       *)
(* undone.                                                                 *)
(***************************************************************************)
EXTENDS Naturals, Sequences, FiniteSets

CONSTANTS Rules, NoRule,
          MaxSubmits  \* bound: submitted runs

VARIABLES row,       \* "on", "off" or "gone": the rules as stored
          pending,   \* pendingRuns
          count,     \* pendingCount
          running,   \* runningRuleID
          ready,     \* startupReady
          run,       \* the goroutines of runRule
          sched,     \* the rules the scheduler has listed and not looked at yet
          handoff,   \* the rule the scheduler is about to submit
          accepted,  \* history: the runs that were submitted and not refused
          started    \* history: the runs for which a goroutine was started

vars == <<row, pending, count, running, ready, run, sched, handoff, accepted, started>>
queueVars == <<pending, count, running, run, accepted, started>>

Goroutines == 1..2
Sources == {"schedule", "offline_download", "webhook", "manual"}
Queued == [rule : Rules, source : Sources]
NoRun == [at |-> "none"]
Runs == {NoRun} \cup [at : {"read", "end"}, rule : Rules, source : Sources]
        \cup [at : {"act"}, rule : Rules, source : Sources, row : {"on", "off"}]
Of(queue) == [i \in 1..Len(queue) |-> queue[i].rule]

TypeOK ==
  /\ row \in [Rules -> {"on", "off", "gone"}] /\ pending \in Seq(Queued)
  /\ count \in [Rules -> 0..MaxSubmits] /\ running \in Rules \cup {NoRule}
  /\ ready \in BOOLEAN /\ run \in [Goroutines -> Runs]
  /\ sched \subseteq Rules /\ handoff \in Rules \cup {NoRule}
  /\ accepted \in Seq(Rules) /\ started \in Seq(Rules)

Init ==
  /\ row = [r \in Rules |-> "on"]
  /\ pending = <<>> /\ count = [r \in Rules |-> 0] /\ running = NoRule /\ ready = FALSE
  /\ run = [g \in Goroutines |-> NoRun]
  /\ sched = {} /\ handoff = NoRule
  /\ accepted = <<>> /\ started = <<>>

-----------------------------------------------------------------------------
(***************************************************************************)
(* The queue                                                               *)
(***************************************************************************)
\* The goroutines are interchangeable: the first one that is free will do.
Go(rule, source, runs) ==
  /\ \E g \in Goroutines :
       /\ runs[g] = NoRun /\ \A other \in 1..(g - 1) : runs[other] # NoRun
       /\ run' = [runs EXCEPT ![g] = [at |-> "read", rule |-> rule, source |-> source]]
  /\ started' = Append(started, rule)

Busy == ~ready \/ running # NoRule

\* submitRun: a run that may be left out is, while the same rule waits.
Submit(rule, source, dedupe) ==
  IF dedupe /\ count[rule] > 0 THEN UNCHANGED queueVars
  ELSE /\ Len(accepted) < MaxSubmits /\ accepted' = Append(accepted, rule)
       /\ IF Busy
          THEN /\ pending' = Append(pending, [rule |-> rule, source |-> source])
               /\ count' = [count EXCEPT ![rule] = @ + 1]
               /\ UNCHANGED <<running, run, started>>
          ELSE /\ running' = rule /\ Go(rule, source, run)
               /\ UNCHANGED <<pending, count>>

\* takePendingRunLocked, and the start of what it takes.
CountAfter(rule) == count[rule] - 1
StartNext(runs) ==
  /\ running' = Head(pending).rule /\ pending' = Tail(pending)
  /\ count' = [count EXCEPT ![Head(pending).rule] = CountAfter(Head(pending).rule)]
  /\ Go(Head(pending).rule, Head(pending).source, runs)

\* releaseStartupQueue
OpenOnly ==
  /\ ~ready /\ ready' = TRUE
  /\ UNCHANGED <<queueVars, row, sched, handoff>>
Release ==
  /\ ~ready /\ ready' = TRUE
  /\ IF running = NoRule /\ pending # <<>> THEN StartNext(run)
     ELSE UNCHANGED <<running, pending, count, run, started>>
  /\ UNCHANGED <<row, sched, handoff, accepted>>

\* endRun
EndsIdle(g) ==
  /\ run[g].at = "end" /\ run' = [run EXCEPT ![g] = NoRun]
  /\ running' = IF running = run[g].rule THEN NoRule ELSE running
  /\ UNCHANGED <<pending, count, started, row, ready, sched, handoff, accepted>>
EndRun(g) ==
  LET runs == [run EXCEPT ![g] = NoRun]
  IN  /\ run[g].at = "end"
      /\ IF running = run[g].rule /\ pending # <<>> THEN StartNext(runs)
         ELSE /\ run' = runs /\ running' = IF running = run[g].rule THEN NoRule ELSE running
              /\ UNCHANGED <<pending, count, started>>
      /\ UNCHANGED <<row, ready, sched, handoff, accepted>>

-----------------------------------------------------------------------------
(***************************************************************************)
(* Those who submit                                                        *)
(***************************************************************************)
RunAsync(r) ==
  /\ Submit(r, "manual", FALSE) /\ UNCHANGED <<row, ready, sched, handoff>>
TriggerWebhook(r) ==
  /\ row[r] # "gone" /\ Submit(r, "webhook", FALSE)
  /\ UNCHANGED <<row, ready, sched, handoff>>
OnOfflineDownloadCompleted(r) ==
  /\ row[r] = "on" /\ Submit(r, "offline_download", TRUE)
  /\ UNCHANGED <<row, ready, sched, handoff>>

\* scheduleOnce lists the rules and looks at one after the other: the next time of
\* a rule that is due is stored with the rest of the row as it was listed, and the
\* rule is submitted; one that is not due may have its next time corrected the same
\* way.  When a row cannot be stored, the rule is left for later.
NextTimes == {"later", "corrected", "due"}
ScheduleList ==
  /\ ready /\ handoff = NoRule /\ sched = {}
  /\ sched' = {r \in Rules : row[r] = "on"} /\ sched' # {}
  /\ UNCHANGED <<row, queueVars, ready, handoff>>
Stored(r, new) == [row EXCEPT ![r] = IF @ = "gone" THEN @ ELSE new]
ScheduleRule(r, time) ==
  /\ r \in sched /\ handoff = NoRule /\ sched' = sched \ {r}
  /\ row' = IF time = "later" THEN row ELSE Stored(r, "on")
  /\ handoff' = IF time = "due" THEN r ELSE handoff
  /\ UNCHANGED <<queueVars, ready>>
ScheduleSubmit ==
  /\ handoff # NoRule /\ Submit(handoff, "schedule", TRUE) /\ handoff' = NoRule
  /\ UNCHANGED <<row, ready, sched>>

-----------------------------------------------------------------------------
(***************************************************************************)
(* Runs and rows                                                           *)
(***************************************************************************)
\* The rule is read and the record of the run is created; when either fails the run
\* ends, and the row is not written.
ReadRule(g) ==
  LET r == run[g].rule
  IN  /\ run[g].at = "read"
      /\ \/ run' = [run EXCEPT ![g] = [at |-> "end", rule |-> r, source |-> run[g].source]]
         \/ /\ row[r] # "gone"
            /\ run' = [run EXCEPT ![g] =
                         [at |-> "act", rule |-> r, source |-> run[g].source, row |-> row[r]]]
      /\ UNCHANGED <<row, pending, count, running, ready, sched, handoff, accepted, started>>

\* The end of the actions: the row that was read before them is stored, or cannot be,
\* which is ignored.
WriteRule(g) ==
  /\ run[g].at = "act" /\ row' \in {row, Stored(run[g].rule, run[g].row)}
  /\ run' = [run EXCEPT ![g] = [at |-> "end", rule |-> run[g].rule, source |-> run[g].source]]
  /\ UNCHANGED <<pending, count, running, ready, sched, handoff, accepted, started>>

\* ToggleRule and UpdateRule
SwitchRule(r, to) ==
  /\ row[r] # "gone" /\ row' = [row EXCEPT ![r] = to]
  /\ UNCHANGED <<queueVars, ready, sched, handoff>>
DeleteRule(r) ==
  /\ row[r] # "gone" /\ row' = [row EXCEPT ![r] = "gone"]
  /\ UNCHANGED <<queueVars, ready, sched, handoff>>

RunStep(g) == ReadRule(g) \/ WriteRule(g) \/ EndRun(g)
Next ==
  \/ Release \/ ScheduleList \/ ScheduleSubmit
  \/ \E r \in Rules :
       \/ RunAsync(r) \/ TriggerWebhook(r) \/ OnOfflineDownloadCompleted(r)
       \/ DeleteRule(r) \/ (\E time \in NextTimes : ScheduleRule(r, time))
       \/ (\E to \in {"on", "off"} : SwitchRule(r, to))
  \/ \E g \in Goroutines : RunStep(g)

Spec == Init /\ [][Next]_vars

\* The gate opens at last (AuthScheduler) and the actions of a run end.
Fairness == WF_vars(Release) /\ \A g \in Goroutines : WF_vars(RunStep(g))
FairSpec == Spec /\ Fairness

-----------------------------------------------------------------------------
\* Rules run one at a time: their actions move and generate the same files.
OneRuleAtATime == Cardinality({g \in Goroutines : run[g].at # "none"}) <= 1

\* Nothing that was accepted is forgotten or overtaken, not at the opening of the
\* gate and not when a run ends while another one is submitted.
FirstComeFirstServed == accepted = started \o Of(pending)

\* The counter that decides whether a scheduled run is left out agrees with the
\* queue: too high, the rule would never be scheduled again.
CountsAgree ==
  \A r \in Rules : count[r] = Cardinality({i \in 1..Len(pending) : pending[i].rule = r})

\* Every run that was accepted is started some time, also those of the time before
\* the gate opened (accepted runs are finitely many here).
AcceptedIsStarted == []<>(Len(started) = Len(accepted))

\* A rule that was switched off is not switched on by the end of a run.
OffStaysOff ==
  [][\A g \in Goroutines, r \in Rules :
       run[g].at = "act" /\ run'[g].at = "end" /\ run[g].rule = r /\ row[r] = "off"
       => row'[r] = "off"]_vars

=============================================================================

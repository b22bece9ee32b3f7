--------------------------- MODULE PendingRestore ---------------------------
(***************************************************************************)
(* internal/backuprestore: a restore is prepared while the application     *)
(* runs, and applied by ApplyPending when it starts again, before the      *)
(* store is opened.  Everything it keeps is in files that outlive the      *)
(* process.  One backup of each scope exists and its password is right.    *)
(*                                                                         *)
(* A database is reduced to whose settings it has, whose secret its        *)
(* credentials are encrypted with, and how many changes users and services *)
(* have made in it; secret.key and the favourites to whose they are.       *)
(* Opening a database that is not there creates an empty one: the side     *)
(* files of SQLite are left out, createRollback folds them into the        *)
(* database before it is replaced.                                         *)
(***************************************************************************)
EXTENDS Naturals, Sequences

CONSTANTS MaxChanges,   \* bound: changes made while the application runs
          MaxPrepares,  \* bound: calls of PrepareRestore
          MaxFaults,    \* bound: crashes and failures together
          Breakable     \* where a crash may fall: "run", "prepare", "cancel", "boot"

VARIABLES main,     \* the files of the application
          stage,    \* the staging directory of the plan
          plan,     \* restore.pending: the scope, or "none"
          result,   \* restore.result.json: its state, or "none"
          copy,     \* the rollback directory of this start
          proc,     \* "up", "down", or "boot" while ApplyPending runs
          step,     \* what the process does next
          faults, prepares,
          changes,  \* history: changes made so far
          before,   \* history: the files when the application last ran
          asked     \* history: a restore was prepared, not canceled, not applied

fileVars == <<main, stage, plan, result, copy>>
vars == <<fileVars, proc, step, faults, prepares, changes, before, asked>>

Files == <<"db", "secret", "favs">>   \* in the order they are replaced in
Scopes == {"settings", "full"}
Origins == {"live", "backup"}
Empty == [settings |-> "none", key |-> "none", changes |-> 0]
Databases == [settings : Origins, key : Origins, changes : 0..MaxChanges] \cup {Empty}
Mains == [db : Databases, secret : Origins, favs : Origins]
NoStage == [present |-> {}, dir |-> FALSE, db |-> Empty]
Steps == [at : {"idle", "plan", "answer", "empty", "unplan", "validate", "copy", "check"}]
         \cup [at : {"replace", "undo"}, file : 1..4]
         \cup [at : {"result", "done", "clear"}, state : {"success", "rolledback"}]
Idle == [at |-> "idle"]

TypeOK ==
  /\ main \in Mains /\ copy \in Mains /\ before \in Mains
  /\ stage \in [present : SUBSET {"db", "secret", "favs"}, dir : BOOLEAN, db : Databases]
  /\ plan \in {"none"} \cup Scopes /\ result \in {"none", "success", "rolledback"}
  /\ proc \in {"up", "down", "boot"} /\ step \in Steps
  /\ faults \in 0..MaxFaults /\ prepares \in 0..MaxPrepares /\ changes \in 0..MaxChanges
  /\ asked \in BOOLEAN

Init ==
  /\ main = [db |-> [settings |-> "live", key |-> "live", changes |-> 0],
             secret |-> "live", favs |-> "live"]
  /\ copy = main /\ before = main
  /\ stage = NoStage /\ plan = "none" /\ result = "none"
  /\ proc = "up" /\ step = Idle /\ faults = 0 /\ prepares = 0 /\ changes = 0
  /\ asked = FALSE

-----------------------------------------------------------------------------
Staged(scope) == IF scope = "full" THEN {"db", "secret", "favs"} ELSE {"db"}
Goto(s) == step' = s
Fault == faults < MaxFaults /\ faults' = faults + 1

\* Users and services go on writing while a restore is prepared and waits.
Change ==
  /\ proc = "up" /\ changes < MaxChanges /\ main.db # Empty
  /\ changes' = changes + 1
  /\ main' = [main EXCEPT !.db.changes = @ + 1]
  /\ UNCHANGED <<stage, plan, result, copy, proc, step, faults, prepares, before, asked>>

\* PrepareRestore, with Service.mu: the staging directory is written.  A
\* settings restore starts from a snapshot of the present database; a failure
\* removes the directory again.
PrepareStage(scope) ==
  /\ proc = "up" /\ step = Idle /\ plan = "none" /\ prepares < MaxPrepares
  /\ prepares' = prepares + 1
  /\ stage' = [present |-> Staged(scope), dir |-> TRUE,
               db |-> IF scope = "settings" THEN [main.db EXCEPT !.settings = "backup"]
                      ELSE [settings |-> "backup", key |-> "backup", changes |-> 0]]
  /\ Goto([at |-> "plan"])
  /\ UNCHANGED <<main, plan, result, copy, proc, faults, changes, before, asked>>

\* restore.pending appears with a rename, then the last result is removed.
PreparePlan ==
  /\ proc = "up" /\ step.at = "plan"
  /\ \/ /\ plan' = IF "secret" \in stage.present THEN "full" ELSE "settings"
        /\ asked' = TRUE /\ Goto([at |-> "answer"]) /\ UNCHANGED <<stage, faults>>
     \/ Fault /\ stage' = NoStage /\ Goto(Idle) /\ UNCHANGED <<plan, asked>>
  /\ UNCHANGED <<main, result, copy, proc, prepares, changes, before>>
PrepareAnswer ==
  /\ proc = "up" /\ step.at = "answer"
  /\ result' = "none" /\ Goto(Idle)
  /\ UNCHANGED <<main, stage, plan, copy, proc, faults, prepares, changes, before, asked>>

\* CancelPending, with Service.mu: RemoveAll of the staging directory unlinks
\* the files and then removes the directories; then restore.pending goes (one
\* that cannot be removed stays like after a crash here).
Unplanned == proc = "up" /\ step.at = "unplan"
CancelStage ==
  /\ proc = "up" /\ step = Idle /\ plan # "none"
  /\ \/ stage' = [stage EXCEPT !.present = {}] /\ Goto([at |-> "empty"]) /\ UNCHANGED faults
     \/ Fault /\ Goto([at |-> "unplan"]) /\ UNCHANGED stage
  /\ UNCHANGED <<main, plan, result, copy, proc, prepares, changes, before, asked>>
CancelDir ==
  /\ proc = "up" /\ step.at = "empty"
  /\ stage' = NoStage /\ Goto([at |-> "unplan"])
  /\ UNCHANGED <<main, plan, result, copy, proc, faults, prepares, changes, before, asked>>
CancelPlan ==
  /\ Unplanned /\ plan' = "none" /\ asked' = FALSE /\ Goto(Idle)
  /\ UNCHANGED <<main, stage, result, copy, proc, faults, prepares, changes, before>>

\* CleanupOrphanTempCandidates, with Service.mu: what no plan refers to.
Cleanup ==
  /\ proc = "up" /\ step = Idle /\ stage.dir /\ plan = "none" /\ stage' = NoStage
  /\ UNCHANGED <<main, plan, result, copy, proc, step, faults, prepares, changes, before, asked>>

-----------------------------------------------------------------------------
(***************************************************************************)
(* The process ends and starts                                             *)
(***************************************************************************)
Phase == IF proc = "boot" THEN "boot"
         ELSE CASE step = Idle -> "run"
                [] step.at \in {"plan", "answer"} -> "prepare"
                [] OTHER -> "cancel"
Down == proc' = "down" /\ Goto(Idle)
Remember == before' = IF proc = "up" THEN main ELSE before
Exit ==
  /\ proc = "up" /\ step = Idle /\ Down /\ Remember
  /\ UNCHANGED <<fileVars, faults, prepares, changes, asked>>
Crash ==
  /\ proc # "down" /\ Phase \in Breakable /\ Fault /\ Down /\ Remember
  /\ UNCHANGED <<fileVars, prepares, changes, asked>>

\* New calls ApplyPending; without a plan it returns at once.
Start ==
  /\ proc = "down"
  /\ IF plan = "none" THEN proc' = "up" /\ asked' = FALSE /\ UNCHANGED step
     ELSE proc' = "boot" /\ Goto([at |-> "validate"]) /\ UNCHANGED asked
  /\ UNCHANGED <<fileVars, faults, prepares, changes, before>>

\* An error ends the start; whoever supervises the process starts it again.
Refuse == Down /\ UNCHANGED <<main, stage, plan, result, copy>>

\* Opening the staged database creates it when only its directory is left.
Usable == stage.dir /\ (plan = "full" => "secret" \in stage.present)
Validate ==
  /\ proc = "boot" /\ step.at = "validate"
  /\ \/ ~Usable /\ Refuse /\ UNCHANGED faults
     \/ /\ Usable
        /\ stage' = [stage EXCEPT !.present = @ \cup {"db"},
                                  !.db = IF "db" \in stage.present THEN @ ELSE Empty]
        /\ Goto([at |-> "copy"]) /\ UNCHANGED <<main, plan, result, copy, proc, faults>>
     \/ Fault /\ Refuse
  /\ UNCHANGED <<prepares, changes, before, asked>>

\* createRollback into a directory of its own
RollbackCopy ==
  /\ proc = "boot" /\ step.at = "copy"
  /\ \/ /\ copy' = main /\ Goto([at |-> "replace", file |-> 1])
        /\ UNCHANGED <<main, stage, plan, result, proc, faults>>
     \/ Fault /\ Refuse
  /\ UNCHANGED <<prepares, changes, before, asked>>

\* applyStagedFiles: one atomic rename per file; a failure starts the rollback.
Replaced(f) == [main EXCEPT ![f] = IF f = "db" THEN stage.db ELSE "backup"]
LastFile == IF plan = "full" THEN 3 ELSE 1
FailureIgnored == [at |-> "result", state |-> "success"]
AfterFailure == [at |-> "undo", file |-> 1]
Replace ==
  LET n == step.file
  IN  /\ proc = "boot" /\ step.at = "replace"
      /\ \/ /\ Files[n] \in stage.present /\ main' = Replaced(Files[n]) /\ UNCHANGED faults
            /\ Goto(IF n = LastFile THEN [at |-> "check"] ELSE [step EXCEPT !.file = n + 1])
         \/ /\ Files[n] \notin stage.present /\ Goto(AfterFailure)
            /\ UNCHANGED <<main, faults>>
         \/ Fault /\ Goto(AfterFailure) /\ UNCHANGED main
      /\ UNCHANGED <<stage, plan, result, copy, proc, prepares, changes, before, asked>>

\* validateStagedDatabase on the new database
Check ==
  /\ proc = "boot" /\ step.at = "check"
  /\ \/ Goto([at |-> "result", state |-> "success"]) /\ UNCHANGED faults
     \/ Fault /\ Goto(AfterFailure)
  /\ UNCHANGED <<fileVars, proc, prepares, changes, before, asked>>

\* restoreRollback: all three files, whatever was replaced
DatabaseOnly == 1
Undone == 3
Undo ==
  LET n == step.file
  IN  /\ proc = "boot" /\ step.at = "undo"
      /\ \/ /\ main' = [main EXCEPT ![Files[n]] = copy[Files[n]]] /\ UNCHANGED <<proc, faults>>
            /\ Goto(IF n = Undone THEN [at |-> "result", state |-> "rolledback"]
                    ELSE [step EXCEPT !.file = n + 1])
         \/ Fault /\ Down /\ UNCHANGED main
      /\ UNCHANGED <<stage, plan, result, copy, prepares, changes, before, asked>>

\* finishPendingRestore: the result, the plan, the staging directory.
FinishResult ==
  /\ proc = "boot" /\ step.at = "result"
  /\ \/ /\ result' = step.state /\ Goto([step EXCEPT !.at = "done"])
        /\ UNCHANGED <<main, stage, plan, copy, proc, faults>>
     \/ Fault /\ Refuse
  /\ UNCHANGED <<prepares, changes, before, asked>>
FinishPlan ==
  /\ proc = "boot" /\ step.at = "done"
  /\ \/ /\ plan' = "none" /\ Goto([step EXCEPT !.at = "clear"])
        /\ UNCHANGED <<main, stage, result, copy, proc, faults>>
     \/ Fault /\ Refuse
  /\ UNCHANGED <<prepares, changes, before, asked>>
FinishStage ==
  /\ proc = "boot" /\ step.at = "clear"
  /\ \/ stage' = NoStage /\ proc' = "up" /\ Goto(Idle) /\ asked' = FALSE /\ UNCHANGED faults
     \/ Fault /\ Down /\ UNCHANGED <<stage, asked>>
  /\ UNCHANGED <<main, plan, result, copy, prepares, changes, before>>

Service ==
  \/ Change \/ (\E s \in Scopes : PrepareStage(s)) \/ PreparePlan \/ PrepareAnswer
  \/ CancelStage \/ CancelDir \/ CancelPlan \/ Cleanup \/ Exit
Boot == Validate \/ RollbackCopy \/ Replace \/ Check \/ Undo \/ FinishResult \/ FinishPlan \/ FinishStage
Next == Service \/ Crash \/ Start \/ Boot

Spec == Init /\ [][Next]_vars
Fairness == WF_vars(Start) /\ WF_vars(Boot)
FairSpec == Spec /\ Fairness

-----------------------------------------------------------------------------
\* The application never starts on half a restore: the credentials in the
\* database are encrypted with the secret that is there, the favourites are from
\* the same side, whichever file could not be replaced, and wherever the process
\* died (pending.go:33).
StartsWhole ==
  proc = "up" /\ main.db # Empty => main.secret = main.db.key /\ main.favs = main.secret

\* A start that reports that it has rolled back, and one that nobody prepared a
\* restore for or whose restore was canceled, leaves every file as the
\* application last had it (pending.go:88).
RolledBackIsUntouched ==
  [][proc # "up" /\ proc' = "up" /\ (~asked \/ result' = "rolledback") => main' = before]_vars

\* A restore that was prepared and not canceled ends with a result: a crash on
\* the way does not make it vanish.
PreparedEndsWithResult ==
  [][proc # "up" /\ proc' = "up" /\ asked => result' # "none"]_vars

\* As long as a plan waits, what it refers to is complete: no clean-up and no
\* failed preparation takes it away.
StageKept ==
  plan # "none" /\ step.at \notin {"empty", "unplan"} => Staged(plan) \subseteq stage.present

\* Whatever happens to a restore, the application starts again.
StartsAgain == []<>(proc = "up")

\* A settings restore keeps the accounts there are
\* (TestSettingsRestoreKeepsCurrentAccountsAndAdmin).
SettingsRestoreKeepsAccounts ==
  proc = "up" /\ main.db.key = "live" => main.db.changes = changes

\* The database is never replaced by an empty one.
NeverEmpty == main.db # Empty

=============================================================================

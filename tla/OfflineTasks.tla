---------------------------- MODULE OfflineTasks ----------------------------
(***************************************************************************)
(* The built-in downloader of internal/offlinedownload: one runner per      *)
(* task, slots shared by all of them, a wake channel that is replaced on    *)
(* every change, one BitTorrent client that is restarted when its settings  *)
(* change and nobody uses it, the hand-over of a finished download to the   *)
(* upload queue, the clean-up of task directories, deletion, shutdown,      *)
(* crash and restart.                                                       *)
(*                                                                          *)
(* patchBuiltinTask changes the record under the lock and writes its row    *)
(* afterwards; only the runner of a task does so, hence both are one step.  *)
(* Writes that fail (they are logged) are left out, except the deletion of  *)
(* a handed over record.  What a transfer does between its start and its    *)
(* end is one step: progress, resumption and verification are left out, and *)
(* so are RemoveTasksByAccount and the tasks a cloud drive downloads.       *)
(***************************************************************************)
EXTENDS Naturals, FiniteSets

CONSTANTS Tasks,
          Magnets,     \* the tasks that use the BitTorrent client
          Savers,      \* requests that save settings
          MaxLimit,    \* bound: largest concurrency setting
          MaxEvents,   \* bound: changes of settings, periodic clean-ups,
                       \* shutdowns and crashes taken together
          Unreliable   \* whether remote servers and the database may fail

ASSUME OfflineAssumption ==
  IsFiniteSet(Tasks) /\ Magnets \subseteq Tasks /\ MaxLimit \in Nat

VARIABLES proc,     \* the process: "off", "boot" (before Start), "up", "stopping"
          rec, row, \* Service.tasks and the table offline_download_tasks
          born,     \* tasks that were created: "live" until somebody deletes them
          dir,      \* tasks whose directory exists
          upload,   \* the task of the upload queue that took a download over
          run,      \* the runner of each task
          cancelled,\* tasks whose run context Delete has cancelled
          slots,    \* builtinLimit, builtinRunning, builtinMagnetRunning
          magnet,   \* magnetRestartPending, magnetRestarting, client open
          saver,    \* what RefreshRuntimeSettings of each request is doing
          clean,    \* CleanupOrphanTempDirs
          launch,   \* what Start has still to start
          del,      \* the task a Delete waits for, {} if none
          events    \* how many of these happened

tables == <<rec, row, born, dir, upload>>
gates  == <<slots, magnet>>
vars == <<proc, tables, run, cancelled, gates, saver, clean, launch, del, events>>

States == {"none", "active", "failed", "success"}
Active(t) == rec[t] = "active"
NoClean == [at |-> "idle", keep |-> {}, known |-> {}]
Waiting == {"acquire", "parked"}
Granted == {"work", "busy", "loaded", "handed", "release"}
Cancelled(t) == t \in cancelled \/ proc = "stopping"
Event == events < MaxEvents /\ events' = events + 1

\* wakeBuiltinQueue: whoever waits on the channel looks again.
Unwoken(r) == r
Woken(r) == [t \in Tasks |-> IF r[t] = "parked" THEN "acquire" ELSE r[t]]
Goes(t, pc) == run' = [run EXCEPT ![t] = pc]
WakesAnd(t, pc) == run' = Woken([run EXCEPT ![t] = pc])
Becomes(t, s) == rec' = [rec EXCEPT ![t] = s] /\ row' = [row EXCEPT ![t] = s]

Init ==
  /\ proc = "off"
  /\ rec = [t \in Tasks |-> "none"] /\ row = rec /\ dir = {}
  /\ born = [t \in Tasks |-> "no"]
  /\ upload = [t \in Tasks |-> "none"]
  /\ run = [t \in Tasks |-> "off"] /\ cancelled = {}
  /\ slots \in [limit : 1..MaxLimit, running : {0}, magnets : {0}]
  /\ magnet = [pending |-> FALSE, restarting |-> FALSE, open |-> FALSE]
  /\ saver = [c \in Savers |-> "idle"]
  /\ clean = NoClean /\ launch = {} /\ del = {}
  /\ events = 0

-----------------------------------------------------------------------------
(***************************************************************************)
(* The process.                                                             *)
(***************************************************************************)
Boot ==
  /\ proc = "off" /\ proc' = "boot"
  /\ rec' = row
  /\ UNCHANGED <<row, born, dir, upload, run, cancelled, gates, saver, clean, launch, del, events>>

\* Start cleans up before it starts the tasks it found; the server listens later.
Start ==
  /\ proc = "boot" /\ proc' = "up"
  /\ launch' = {t \in Tasks : Active(t)}
  /\ clean' = [at |-> "tasks", keep |-> {}, known |-> {}]
  /\ UNCHANGED <<tables, run, cancelled, gates, saver, del, events>>

Launch ==
  /\ launch # {} /\ clean.at = "idle" /\ proc = "up"
  /\ run' = [t \in Tasks |-> IF t \in launch /\ Active(t) /\ run[t] = "off"
                             THEN "acquire" ELSE run[t]]
  /\ launch' = {}
  /\ UNCHANGED <<proc, tables, cancelled, gates, saver, clean, del, events>>

Stop ==
  /\ proc = "up" /\ proc' = "stopping" /\ launch = {}
  /\ Event
  /\ UNCHANGED <<tables, run, cancelled, gates, saver, clean, launch, del>>

\* A crash; the end of a shutdown, and of one that ran out of time, are the same.
Off ==
  /\ proc \in {"up", "stopping"} /\ proc' = "off"
  /\ IF proc = "up" THEN Event ELSE UNCHANGED events
  /\ rec' = [t \in Tasks |-> "none"]
  /\ run' = [t \in Tasks |-> "off"] /\ cancelled' = {}
  /\ slots' = [slots EXCEPT !.running = 0, !.magnets = 0]
  /\ magnet' = [pending |-> FALSE, restarting |-> FALSE, open |-> FALSE]
  /\ saver' = [c \in Savers |-> "idle"]
  /\ clean' = NoClean /\ launch' = {} /\ del' = {}
  /\ UNCHANGED <<row, born, dir, upload>>

\* addBuiltinURLs
Add(t) ==
  /\ proc = "up" /\ born[t] = "no"      \* no id is used twice
  /\ Becomes(t, "active") /\ born' = [born EXCEPT ![t] = "live"]
  /\ Goes(t, "acquire")
  /\ UNCHANGED <<proc, dir, upload, cancelled, gates, saver, clean, launch, del, events>>

-----------------------------------------------------------------------------
(***************************************************************************)
(* The runner of a task.                                                    *)
(***************************************************************************)
BlockedByPending(t) == t \in Magnets /\ magnet.pending
MagnetBlocked(t) == t \in Magnets /\ (magnet.pending \/ magnet.restarting)

Acquire(t) ==
  /\ run[t] = "acquire"
  /\ IF ~Active(t) \/ proc # "up" THEN Goes(t, "clear") /\ UNCHANGED slots
     ELSE IF ~MagnetBlocked(t) /\ slots.running < slots.limit
     THEN /\ Goes(t, "work")
          /\ slots' = [slots EXCEPT !.running = @ + 1,
                                    !.magnets = IF t \in Magnets THEN @ + 1 ELSE @]
     ELSE Goes(t, "parked") /\ UNCHANGED slots
  /\ UNCHANGED <<proc, tables, cancelled, magnet, saver, clean, launch, del, events>>

Leave(t) ==
  /\ run[t] = "parked" /\ Cancelled(t) /\ Goes(t, "clear")
  /\ UNCHANGED <<proc, tables, cancelled, gates, saver, clean, launch, del, events>>

Open(t) ==
  /\ run[t] = "work" /\ Goes(t, "busy")
  /\ dir' = dir \cup {t}
  /\ magnet' = [magnet EXCEPT !.open = @ \/ t \in Magnets]
  /\ UNCHANGED <<proc, rec, row, born, upload, cancelled, slots, saver, clean, launch, del, events>>

Downloaded(t) ==
  /\ run[t] = "busy" /\ Goes(t, "loaded")
  /\ UNCHANGED <<proc, tables, cancelled, gates, saver, clean, launch, del, events>>

\* The loops of both executors look at the context: the task stays as it is.
Quit(t) ==
  /\ run[t] = "busy" /\ Cancelled(t) /\ Goes(t, "release")
  /\ UNCHANGED <<proc, tables, cancelled, gates, saver, clean, launch, del, events>>

\* An error of the transfer, among them the one of a request that was under way
\* when its context was cancelled.
Fail(t) ==
  /\ run[t] \in {"busy", "loaded"} /\ (Unreliable \/ Cancelled(t))
  /\ Becomes(t, "failed") /\ Goes(t, "release")
  /\ UNCHANGED <<proc, born, dir, upload, cancelled, gates, saver, clean, launch, del, events>>

HandOverUnchecked(t) ==
  /\ run[t] = "loaded" /\ Goes(t, "handed")
  /\ upload' = IF Cancelled(t) THEN upload ELSE [upload EXCEPT ![t] = "active"]
  /\ UNCHANGED <<proc, rec, row, born, dir, cancelled, gates, saver, clean, launch, del, events>>

\* CreateServerLocalTask knows the task by its ClientTaskID, and looks at the file.
HandOver(t) ==
  /\ run[t] = "loaded"
  /\ IF upload[t] # "none" THEN Goes(t, "handed") /\ UNCHANGED <<rec, row, upload>>
     ELSE IF t \in dir
     THEN /\ upload' = [upload EXCEPT ![t] = "active"]
          /\ Goes(t, "handed") /\ UNCHANGED <<rec, row>>
     ELSE Becomes(t, "failed") /\ Goes(t, "release") /\ UNCHANGED upload
  /\ UNCHANGED <<proc, born, dir, cancelled, gates, saver, clean, launch, del, events>>

\* completeBuiltinHandoff
Complete(t) ==
  /\ run[t] = "handed"
  /\ \/ Becomes(t, "none")
     \/ (Unreliable \/ Cancelled(t)) /\ Becomes(t, "success")
  /\ Goes(t, "release")
  /\ UNCHANGED <<proc, born, dir, upload, cancelled, gates, saver, clean, launch, del, events>>

MayRestart(magnets) == magnets = 0 /\ ~magnet.restarting
Restarting == [magnet EXCEPT !.pending = FALSE, !.restarting = TRUE]

Released(t) == [slots EXCEPT !.running = @ - 1,
                             !.magnets = IF t \in Magnets THEN @ - 1 ELSE @]
Release(t) ==
  /\ run[t] = "release"
  /\ slots' = Released(t)
  /\ IF magnet.pending /\ MayRestart(Released(t).magnets)
     THEN magnet' = Restarting /\ Goes(t, "close")
     ELSE WakesAnd(t, "clear") /\ UNCHANGED magnet
  /\ UNCHANGED <<proc, tables, cancelled, saver, clean, launch, del, events>>

Reopened == [magnet EXCEPT !.restarting = FALSE, !.open = FALSE]
Close(t) ==
  /\ run[t] = "close" /\ magnet' = Reopened /\ WakesAnd(t, "clear")
  /\ UNCHANGED <<proc, tables, cancelled, slots, saver, clean, launch, del, events>>

Clear(t) ==
  /\ run[t] = "clear" /\ WakesAnd(t, "off")
  /\ cancelled' = cancelled \ {t}
  /\ UNCHANGED <<proc, tables, gates, saver, clean, launch, del, events>>

-----------------------------------------------------------------------------
(***************************************************************************)
(* RefreshRuntimeSettings, called by the request that saved the settings.   *)
(***************************************************************************)
Save(c, limit, port) ==
  LET asked == magnet.pending \/ port
  IN
  /\ proc = "up" /\ saver[c] = "idle" /\ Event
  /\ slots' = [slots EXCEPT !.limit = limit]
  /\ IF asked /\ MayRestart(slots.magnets)
     THEN /\ magnet' = Restarting
          /\ saver' = [saver EXCEPT ![c] = "close"] /\ UNCHANGED run
     ELSE /\ magnet' = [magnet EXCEPT !.pending = asked]
          /\ run' = Woken(run) /\ UNCHANGED saver
  /\ UNCHANGED <<proc, tables, cancelled, clean, launch, del>>

SaveCloses(c) ==
  /\ saver[c] = "close" /\ saver' = [saver EXCEPT ![c] = "idle"]
  /\ magnet' = Reopened /\ run' = Woken(run)
  /\ UNCHANGED <<proc, tables, cancelled, slots, clean, launch, del, events>>

-----------------------------------------------------------------------------
(***************************************************************************)
(* activeBuiltinTempPaths and CleanupBuiltinTempDirs, at start and every    *)
(* ten minutes: the records, then the uploads, then the directories.        *)
(***************************************************************************)
Known == {t \in Tasks : rec[t] # "none" \/ upload[t] # "none"}
KeptRecords == {t \in Tasks : rec[t] \in {"active", "failed"}}
KeptUploads == {t \in Tasks : upload[t] = "active"}
UploadsFirst(first) == IF first THEN KeptUploads ELSE KeptRecords
Kept(first) == IF first THEN KeptRecords ELSE KeptUploads
CleanStep(at, keep, known) == clean' = [at |-> at, keep |-> keep, known |-> known]

CleanTick ==
  /\ proc = "up" /\ clean.at = "idle" /\ launch = {} /\ Event
  /\ CleanStep("tasks", {}, {})
  /\ UNCHANGED <<proc, tables, run, cancelled, gates, saver, launch, del>>

CleanTasks ==
  /\ clean.at = "tasks" /\ CleanStep("uploads", Kept(TRUE), Known)
  /\ UNCHANGED <<proc, tables, run, cancelled, gates, saver, launch, del, events>>

CleanUploads ==
  /\ clean.at = "uploads" /\ CleanStep("remove", clean.keep \cup Kept(FALSE), clean.known)
  /\ UNCHANGED <<proc, tables, run, cancelled, gates, saver, launch, del, events>>

CleanRemove ==
  /\ clean.at = "remove" /\ clean' = NoClean
  /\ dir' = dir \cap clean.keep
  /\ UNCHANGED <<proc, rec, row, born, upload, run, cancelled, gates, saver, launch, del, events>>

\* The upload is done and has removed the directory (external).
Uploaded(t) ==
  /\ proc \in {"up", "stopping"} /\ upload[t] = "active" /\ t \in dir
  /\ upload' = [upload EXCEPT ![t] = "done"] /\ dir' = dir \ {t}
  /\ UNCHANGED <<proc, rec, row, born, run, cancelled, gates, saver, clean, launch, del, events>>

-----------------------------------------------------------------------------
(***************************************************************************)
(* Delete: cancel the runner, wait for it, remove the row, the record and   *)
(* what was downloaded.                                                     *)
(***************************************************************************)
Delete(t) ==
  /\ proc = "up" /\ launch = {} /\ del = {} /\ rec[t] # "none"
  /\ del' = {t}
  /\ cancelled' = IF run[t] = "off" THEN cancelled ELSE cancelled \cup {t}
  /\ run' = Woken(run)
  /\ UNCHANGED <<proc, tables, gates, saver, clean, launch, events>>

DeleteGoesOn(t) ==
  /\ t \in del /\ run[t] = "off" /\ del' = {}
  /\ IF rec[t] = "none" THEN UNCHANGED <<rec, row, born, dir>>
     ELSE /\ Becomes(t, "none") /\ born' = [born EXCEPT ![t] = "deleted"]
          /\ dir' = IF rec[t] = "success" THEN dir ELSE dir \ {t}
  /\ UNCHANGED <<proc, upload, run, cancelled, gates, saver, clean, launch, events>>

-----------------------------------------------------------------------------
Runner(t) ==
  \/ Acquire(t) \/ Leave(t) \/ Open(t) \/ Downloaded(t) \/ Quit(t) \/ Fail(t)
  \/ HandOver(t) \/ Complete(t) \/ Release(t) \/ Close(t) \/ Clear(t)
Cleaner == CleanTasks \/ CleanUploads \/ CleanRemove

Next ==
  \/ Boot \/ Start \/ Launch \/ Stop \/ Off
  \/ \E t \in Tasks : Add(t) \/ Runner(t) \/ Uploaded(t) \/ Delete(t) \/ DeleteGoesOn(t)
  \/ \E c \in Savers : SaveCloses(c)
                       \/ \E l \in 1..MaxLimit, p \in BOOLEAN : Save(c, l, p)
  \/ CleanTick \/ Cleaner

Spec == Init /\ [][Next]_vars

(***************************************************************************)
(* A runner and a clean-up go on, a transfer ends or notices that it was    *)
(* cancelled, a saved setting is applied.  Nobody has to add, delete, save  *)
(* or upload anything.                                                      *)
(***************************************************************************)
Fairness ==
  /\ \A t \in Tasks : WF_vars(Runner(t))
  /\ \A c \in Savers : WF_vars(SaveCloses(c))
  /\ WF_vars(Launch) /\ WF_vars(Cleaner)
FairSpec == Spec /\ Fairness

-----------------------------------------------------------------------------
\* Types, and the counters are what the runners hold: no slot is leaked, and none
\* is given back twice (the guards `> 0' of releaseBuiltinSlot never hide one).
TypeOK ==
  /\ proc \in {"off", "boot", "up", "stopping"}
  /\ rec \in [Tasks -> States] /\ row \in [Tasks -> States]
  /\ born \in [Tasks -> {"no", "live", "deleted"}]
  /\ dir \subseteq Tasks /\ cancelled \subseteq Tasks
  /\ upload \in [Tasks -> {"none", "active", "done"}]
  /\ run \in [Tasks -> Waiting \cup Granted \cup {"off", "close", "clear"}]
  /\ slots.running = Cardinality({t \in Tasks : run[t] \in Granted})
  /\ slots.magnets = Cardinality({t \in Magnets : run[t] \in Granted})

\* The BitTorrent client is never closed under a transfer that uses it, however
\* changes of settings, ends of transfers and new tasks interleave.
ClientStaysOpen ==
  \A t \in Magnets : run[t] \in {"busy", "loaded", "handed"} => magnet.open

\* A download that was accepted and that nobody deleted is, after any crash or
\* restart, either still in the table or in the hands of the upload queue.
AcceptedIsKept == \A t \in Tasks : born[t] = "live" => row[t] # "none" \/ upload[t] # "none"

\* A clean-up removes no directory of a task it could know of while a download or
\* an upload still needs it, also when the task is handed over in between.
CleanUpKeepsData ==
  [][CleanRemove => \A t \in clean.known :
       (rec[t] = "active" \/ upload[t] = "active") /\ t \in dir => t \in dir']_vars

\* A task that waits for a slot gets one or goes away, as long as transfers end and
\* the tasks that come after it are finitely many (slots are not given in order).
HttpIsServed ==
  \A t \in Tasks \ Magnets : []<>(run[t] \notin Waiting)

\* The same for a task that needs the BitTorrent client: a change of its settings
\* is applied (registry.go:472) and lets the tasks go on.
MagnetsAreServed ==
  \A t \in Magnets : []<>(run[t] \notin Waiting)

\* Tasks are resumed after a restart: a shutdown fails none (docs/GUIDE.md:288).
ShutdownKeepsTasks ==
  [][proc = "stopping" => \A t \in Tasks : Active(t) => rec'[t] # "failed"]_vars

=============================================================================

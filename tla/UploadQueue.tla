---------------------------- MODULE UploadQueue ----------------------------
(***************************************************************************)
(* The scheduler of internal/upload.Manager: the tasks in memory, one      *)
(* worker goroutine (runTask) per run of a task, the two pools of run      *)
(* slots, the condition variable the workers park on, and the calls of the *)
(* HTTP handlers (create, pause, resume, delete, stop, change the limit).  *)
(*                                                                         *)
(* One action is one critical section under Manager.mu, or one step taken  *)
(* between two of them (calling a stored cancel function, waiting for a    *)
(* channel, the answer of a driver).  What is written to the database is   *)
(* the subject of UploadPersist, what subscribers are told of              *)
(* UploadBroadcast; progress numbers, messages and speeds are left out.    *)
(* Statuses "success" and "skipped" are one status, "success": no code     *)
(* path tells them apart.                                                  *)
(***************************************************************************)
EXTENDS Naturals, Sequences, FiniteSets

CONSTANTS Tasks,    \* task ids; newTaskID never returns one twice
          Cross,    \* the tasks of SourceType cross_transfer: download, then upload
          Batches,  \* the parameter lists CreateBatch may be called with
          Callers,  \* goroutines of HTTP handlers; each runs one call at a time
          Limits,   \* values the setting upload_task_concurrency may take
          Gated,      \* whether the manager was given a StartupGate
          WritesFail, \* whether a database write of createBatch may fail
          Shutdown,   \* whether the process is shut down
          MaxRun    \* bound: number of runs (one create, then resumes) of a task

ASSUME QueueAssumption ==
  /\ IsFiniteSet(Tasks) /\ Cross \subseteq Tasks
  /\ Batches \subseteq Seq(Tasks)
  /\ Limits # {} /\ Limits \subseteq Nat \ {0}
  /\ MaxRun \in Nat \ {0}
  /\ {Gated, WritesFail, Shutdown} \subseteq BOOLEAN

VARIABLES task,      \* Manager.tasks, with the fields of taskState
          queueOrder,\* Manager.queueOrder
          limit,     \* Manager.limit
          runningUploads, runningDownloads,
          stopping,  \* Manager.stopping; runCtx is canceled with it
          gateOpen,  \* Options.StartupGate is closed, i.e. lets workers pass
          open,      \* batches added to memory whose createBatch has not returned
          pc,        \* control state of the worker of each run
          done,      \* the runDone channel a worker read when it started
          canceled,  \* runs whose own context was canceled by a stored CancelFunc
          note,      \* local variables of a worker: mode, then the status to write
          closed,    \* runDone channels that are closed
          call       \* the call each handler goroutine is in the middle of

taskVars  == <<task, queueOrder>>
slotVars  == <<limit, runningUploads, runningDownloads>>
runVars   == <<pc, done, canceled, note, closed>>
mgrVars   == <<stopping, gateOpen, open>>
vars == <<taskVars, slotVars, runVars, mgrVars, call>>

Runs == Tasks \X (1..MaxRun)   \* <<t, n>>: the n-th run, and its runDone channel
Channels == Tasks \X (0..MaxRun)
NoRun == <<>>                  \* a nil CancelFunc, a nil channel

Absent == {"none", "gone"}     \* never created; removed from Manager.tasks
Active == {"pending", "running"}
Stopped == {"paused", "failed", "canceled"}
Statuses == Absent \cup Active \cup Stopped \cup {"success"}

TaskState == [status : Statuses, phase : {"downloading", "uploading"},
              prio : BOOLEAN, order : Nat, mode : {"", "pause", "delete"},
              run : 0..MaxRun, cancel : Runs \cup {NoRun}]

DownloadPCs == {"dlInit", "dl", "dlErr", "dlPatch", "dlRel", "dlNext"}
UploadPCs   == {"upInit", "up", "upErr", "upPatch", "upRel"}
PCs == {"none", "start", "gate", "acquire", "wait", "exit", "end", "lost"}
         \cup DownloadPCs \cup UploadPCs

Idle == [op |-> "idle"]
CallState == {Idle}
  \cup [op : {"pauseCancel", "delCancel"}, t : Tasks, run : 0..MaxRun,
        cancel : Runs \cup {NoRun}]
  \cup [op : {"resumeWait", "delWait"}, t : Tasks, run : 0..MaxRun]
  \cup [op : {"delPop"}, t : Tasks]

InMap(t) == task[t].status \notin Absent
\* Pending, but no goroutine runs or is about to run it.
Orphan(t) ==
  /\ task[t].status = "pending"
  /\ \A r \in Runs : r[1] = t => pc[r] \in {"none", "end", "lost"}
  /\ ~ \E b \in open : \E i \in DOMAIN b : b[i] = t
Canceled(r) == r \in canceled \/ stopping      \* runCtx.Err() != nil in run r

\* removeTaskLocked: the record leaves the map.
Dropped(s) == [s EXCEPT !.status = "gone", !.prio = FALSE, !.mode = "", !.cancel = NoRun]

\* runCond.Broadcast: every parked worker contends for the mutex again.
Woken(p) == [r \in Runs |-> IF p[r] = "wait" THEN "acquire" ELSE p[r]]
Go(r, to) == pc' = [pc EXCEPT ![r] = to]

-----------------------------------------------------------------------------
Init ==
  /\ task = [t \in Tasks |->
       [status |-> "none", phase |-> "uploading", prio |-> FALSE, order |-> 0,
        mode |-> "", run |-> 0, cancel |-> NoRun]]
  /\ queueOrder = 0
  /\ limit \in Limits
  /\ runningUploads = 0 /\ runningDownloads = 0
  /\ stopping = FALSE /\ gateOpen = ~Gated /\ open = {}
  /\ pc = [r \in Runs |-> "none"]
  /\ done = [r \in Runs |-> NoRun]
  /\ canceled = {} /\ note = [r \in Runs |-> ""] /\ closed = {}
  /\ call = [c \in Callers |-> Idle]

(***************************************************************************)
(* CreateBatch.  The tasks of a batch enter the map in one critical        *)
(* section, are persisted one by one outside the lock, and only then get   *)
(* their workers; one failed write removes the whole batch again.          *)
(***************************************************************************)
Create(b) ==
  /\ ~stopping
  /\ \A i \in DOMAIN b : task[b[i]].status = "none"
  /\ task' = [t \in Tasks |->
       IF \E i \in DOMAIN b : b[i] = t
       THEN [task[t] EXCEPT
               !.status = "pending",
               !.phase = IF t \in Cross THEN "downloading" ELSE "uploading",
               !.order = queueOrder + (CHOOSE i \in DOMAIN b : b[i] = t),
               !.run = 1]
       ELSE task[t]]
  /\ queueOrder' = queueOrder + Len(b)
  /\ open' = open \cup {b}
  /\ UNCHANGED <<slotVars, runVars, stopping, gateOpen, call>>

CreateStart(b) ==
  /\ b \in open
  /\ open' = open \ {b}
  /\ pc' = [r \in Runs |->
       IF r[2] = 1 /\ \E i \in DOMAIN b : b[i] = r[1] THEN "start" ELSE pc[r]]
  /\ UNCHANGED <<taskVars, slotVars, done, canceled, note, closed,
                 stopping, gateOpen, call>>

CreateRollback(b) ==
  /\ WritesFail /\ b \in open
  /\ open' = open \ {b}
  /\ task' = [t \in Tasks |->
       IF \E i \in DOMAIN b : b[i] = t
       THEN Dropped(task[t]) ELSE task[t]]
  /\ UNCHANGED <<queueOrder, slotVars, runVars, stopping, gateOpen, call>>

-----------------------------------------------------------------------------
(***************************************************************************)
(* runTask                                                                 *)
(***************************************************************************)
\* The goroutine looks its task up; it ends at once when the task is gone,
\* before the deferred close of runDone is registered.
RunStart(r) ==
  /\ pc[r] = "start"
  /\ IF InMap(r[1])
     THEN /\ Go(r, "gate")
          /\ done' = [done EXCEPT ![r] = <<r[1], task[r[1]].run>>]
     ELSE Go(r, "lost") /\ UNCHANGED done
  /\ UNCHANGED <<taskVars, slotVars, canceled, note, closed, mgrVars, call>>

\* startupwait.Ready selects between the gate and the context.
RunGate(r) ==
  /\ pc[r] = "gate"
  /\ \/ gateOpen /\ Go(r, "acquire")
     \/ Canceled(r) /\ Go(r, "exit")
  /\ UNCHANGED <<taskVars, slotVars, done, canceled, note, closed, mgrVars, call>>

Kind(t) == IF t \in Cross /\ task[t].phase = "downloading" THEN "download" ELSE "upload"

Precedes(t, u) ==
  IF task[t].prio # task[u].prio THEN task[t].prio
  ELSE task[t].order < task[u].order

IsNextUnfinished(t) ==
  \A u \in Tasks \ {t} :
    ~ (task[u].status \in {"pending", "paused"} /\ Kind(u) = Kind(t) /\ Precedes(u, t))
IsNextPending(t) ==
  \A u \in Tasks \ {t} :
    ~ (task[u].status = "pending" /\ Kind(u) = Kind(t) /\ Precedes(u, t))

SlotFreeLax(k) == IF k = "download" THEN runningDownloads <= limit
                                    ELSE runningUploads <= limit
SlotFree(k) == IF k = "download" THEN runningDownloads < limit
                                 ELSE runningUploads < limit

MayRun(r) ==   \* the early return of acquireRunSlot is not taken
  /\ ~stopping
  /\ task[r[1]].status = "pending"
  /\ <<r[1], task[r[1]].run>> = done[r]

\* The task keeps status pending while its worker holds the slot, until the
\* worker's own first patch.
Acquire(r) ==
  LET t == r[1] IN
  /\ pc[r] = "acquire" /\ MayRun(r)
  /\ SlotFree(Kind(t)) /\ IsNextPending(t)
  /\ task' = [task EXCEPT ![t] = [@ EXCEPT !.prio = FALSE, !.cancel = r]]
  /\ \/ /\ Kind(t) = "download" /\ Go(r, "dlInit")
        /\ runningDownloads' = runningDownloads + 1 /\ UNCHANGED runningUploads
     \/ /\ Kind(t) = "upload" /\ Go(r, "upInit")
        /\ runningUploads' = runningUploads + 1 /\ UNCHANGED runningDownloads
  /\ UNCHANGED <<queueOrder, limit, done, canceled, note, closed, mgrVars, call>>

Park(r) ==
  /\ pc[r] = "acquire" /\ MayRun(r)
  /\ ~ (SlotFree(Kind(r[1])) /\ IsNextPending(r[1]))
  /\ Go(r, "wait")
  /\ UNCHANGED <<taskVars, slotVars, done, canceled, note, closed, mgrVars, call>>

GiveUp(r) ==
  /\ pc[r] = "acquire" /\ ~MayRun(r)
  /\ Go(r, "exit")
  /\ UNCHANGED <<taskVars, slotVars, done, canceled, note, closed, mgrVars, call>>

HeldKindByPhase(r) == Kind(r[1])
HeldKind(r) == IF pc[r] \in DownloadPCs THEN "download" ELSE "upload"

Decremented(n) == IF n > 0 THEN n - 1 ELSE n

\* What executeCrossTransferDownload returned decides between the next turn of
\* runTask's loop and its end; an upload always ends the run.
NeverContinues(r) == "exit"
AfterRelease(r) == IF pc[r] = "dlNext" THEN "acquire" ELSE "exit"

\* releaseSlot with the kind acquireRunSlot returned.
Release(r) ==
  /\ pc[r] \in {"dlRel", "dlNext", "upRel"}
  /\ \/ /\ HeldKind(r) = "download"
        /\ runningDownloads' = Decremented(runningDownloads)
        /\ UNCHANGED runningUploads
     \/ /\ HeldKind(r) = "upload"
        /\ runningUploads' = Decremented(runningUploads)
        /\ UNCHANGED runningDownloads
  /\ pc' = [Woken(pc) EXCEPT ![r] = AfterRelease(r)]
  /\ UNCHANGED <<taskVars, limit, done, canceled, note, closed, mgrVars, call>>

\* The deferred function: forget the CancelFunc, close runDone.
ClosedBeforeStop(r) == IF stopping THEN closed ELSE closed \cup {done[r]}
ClosedBy(r) == closed \cup {done[r]}

Exit(r) ==
  /\ pc[r] = "exit"
  /\ Go(r, "end")
  /\ task' = IF InMap(r[1]) /\ <<r[1], task[r[1]].run>> = done[r]
             THEN [task EXCEPT ![r[1]].cancel = NoRun] ELSE task
  /\ closed' = ClosedBy(r)
  /\ UNCHANGED <<queueOrder, slotVars, done, canceled, note, mgrVars, call>>

-----------------------------------------------------------------------------
(***************************************************************************)
(* executeCrossTransferDownload and executeUpload.  Patch(t, s) is         *)
(* Manager.patch: nothing happens when the task is not in the map.         *)
(***************************************************************************)
Patch(t, s) == task' = IF InMap(t) THEN [task EXCEPT ![t] = s] ELSE task

\* The checks before the first patch: a missing task ends the run, a failed
\* check ends it with failTask, which overwrites whatever status there is.
TransferRefused(r) ==
  /\ pc[r] \in {"dlInit", "upInit"}
  /\ \/ /\ ~InMap(r[1]) /\ UNCHANGED task
     \/ /\ pc[r] = "dlInit"
        /\ Patch(r[1], [task[r[1]] EXCEPT !.status = "failed"])
  /\ Go(r, IF pc[r] = "dlInit" THEN "dlRel" ELSE "upRel")
  /\ UNCHANGED <<queueOrder, slotVars, done, canceled, note, closed, mgrVars, call>>

\* The first patch: running, unless the context is canceled or the status is
\* no longer pending.
TransferStart(r) ==
  LET t == r[1]
      dl == pc[r] = "dlInit"
      started == InMap(t) /\ ~Canceled(r) /\ task[t].status = "pending"
  IN
  /\ pc[r] \in {"dlInit", "upInit"}
  /\ task' = IF started
             THEN [task EXCEPT ![t] = [@ EXCEPT !.status = "running",
                     !.phase = IF dl THEN "downloading" ELSE "uploading"]]
             ELSE task
  /\ Go(r, IF dl THEN (IF started THEN "dl" ELSE "dlRel")
                 ELSE (IF started THEN "up" ELSE "upRel"))
  /\ UNCHANGED <<queueOrder, slotVars, done, canceled, note, closed, mgrVars, call>>

\* updateDownloadProgress and updateProgress write status running whatever the
\* status is; only the former spares a finished task.
Progress(r) ==
  LET t == r[1] IN
  /\ pc[r] \in {"dl", "up"} /\ InMap(t)
  /\ \/ /\ pc[r] = "dl" /\ task[t].status # "success"
        /\ task' = [task EXCEPT ![t] = [@ EXCEPT !.status = "running",
                                                  !.phase = "downloading"]]
     \/ /\ pc[r] = "up"
        /\ task' = [task EXCEPT ![t] = [@ EXCEPT !.status = "running",
                                                  !.phase = "uploading"]]
  /\ UNCHANGED <<queueOrder, slotVars, runVars, mgrVars, call>>

\* The transfer failed: cancelMode is read under the lock (first half of
\* finishCrossTransferDownloadError, and executeUpload after the driver call).
TransferFails(r) ==
  /\ pc[r] \in {"dl", "up"}
  /\ IF InMap(r[1])
     THEN /\ Go(r, IF pc[r] = "dl" THEN "dlErr" ELSE "upErr")
          /\ note' = [note EXCEPT ![r] = task[r[1]].mode]
     ELSE /\ Go(r, IF pc[r] = "dl" THEN "dlRel" ELSE "upRel")
          /\ UNCHANGED note
  /\ UNCHANGED <<taskVars, slotVars, done, canceled, closed, mgrVars, call>>

\* ctx.Err() is consulted after the lock is released: the status to write is
\* chosen from a cancelMode that may be stale by now.
Verdict(r) == IF ~Canceled(r) THEN "failed"
              ELSE IF note[r] = "pause" THEN "paused" ELSE "canceled"

FailureVerdict(r) ==
  /\ pc[r] \in {"dlErr", "upErr"}
  /\ note' = [note EXCEPT ![r] = Verdict(r)]
  /\ Go(r, IF pc[r] = "dlErr" THEN "dlPatch" ELSE "upPatch")
  /\ UNCHANGED <<taskVars, slotVars, done, canceled, closed, mgrVars, call>>

\* The driver reports success; the local source is removed, then the status is
\* written.
UploadSucceeds(r) ==
  /\ pc[r] = "up"
  /\ IF InMap(r[1])
     THEN Go(r, "upPatch") /\ note' = [note EXCEPT ![r] = "success"]
     ELSE Go(r, "upRel") /\ UNCHANGED note
  /\ UNCHANGED <<taskVars, slotVars, done, canceled, closed, mgrVars, call>>

TransferPatch(r) ==
  /\ pc[r] \in {"dlPatch", "upPatch"}
  /\ Patch(r[1], [task[r[1]] EXCEPT !.status = note[r],
       !.phase = IF pc[r] = "dlPatch" THEN "downloading"
                 ELSE IF note[r] = "success" THEN "uploading" ELSE task[r[1]].phase])
  /\ note' = [note EXCEPT ![r] = ""]
  /\ Go(r, IF pc[r] = "dlPatch" THEN "dlRel" ELSE "upRel")
  /\ UNCHANGED <<queueOrder, slotVars, done, canceled, closed, mgrVars, call>>

\* finishCrossTransferDownloadSuccess: back to pending, for the upload pool.
\* The patch looks at the context but not at the status.
DownloadSucceeds(r) ==
  /\ pc[r] = "dl"
  /\ InMap(r[1])
  /\ Patch(r[1], IF Canceled(r) THEN task[r[1]]
       ELSE [task[r[1]] EXCEPT !.status = "pending", !.phase = "uploading"])
  /\ Go(r, "dlNext")
  /\ UNCHANGED <<queueOrder, slotVars, done, canceled, note, closed, mgrVars, call>>

-----------------------------------------------------------------------------
(***************************************************************************)
(* The calls of the handlers.                                              *)
(***************************************************************************)
Begin(c, rec) == call' = [call EXCEPT ![c] = rec]
Return(c) == Begin(c, Idle)

Pausable(t) == task[t].status \in Active

Pause(c, t) ==
  /\ call[c] = Idle
  /\ ~stopping /\ Pausable(t)
  /\ task' = [task EXCEPT ![t] = [@ EXCEPT !.status = "paused", !.mode = "pause",
                                            !.prio = FALSE]]
  /\ Begin(c, [op |-> "pauseCancel", t |-> t, run |-> task[t].run,
               cancel |-> task[t].cancel])
  /\ UNCHANGED <<queueOrder, slotVars, runVars, mgrVars>>

\* cancel() and runCond.Broadcast, after the lock is released (pause and
\* stopTaskForDelete).
CancelDropped(c) == canceled
CancelCalled(c) == canceled \cup ({call[c].cancel} \ {NoRun})

CallCancel(c) ==
  /\ call[c].op \in {"pauseCancel", "delCancel"}
  /\ canceled' = CancelCalled(c)
  /\ pc' = Woken(pc)
  /\ IF call[c].op = "pauseCancel" THEN Return(c)
     ELSE Begin(c, [op |-> "delWait", t |-> call[c].t, run |-> call[c].run])
  /\ UNCHANGED <<taskVars, slotVars, done, note, closed, mgrVars>>

Resume(c, t) ==
  /\ call[c] = Idle
  /\ task[t].status \in Stopped
  /\ Begin(c, [op |-> "resumeWait", t |-> t, run |-> task[t].run])
  /\ UNCHANGED <<taskVars, slotVars, runVars, mgrVars>>

\* Resume's second critical section, once the previous run has closed its
\* channel.  Bound: a task is run at most MaxRun times.
WaitSkipped(c) == TRUE
PreviousRunEnded(c) == <<call[c].t, call[c].run>> \in closed

SameChannel(t) == task[t].run
NextRun(t) == task[t].run + 1      \* st.runDone = make(chan struct{})

ResumeQueue(c) ==
  LET t == call[c].t IN
  /\ call[c].op = "resumeWait"
  /\ PreviousRunEnded(c)
  /\ \/ /\ stopping \/ task[t].status \notin Stopped
        /\ UNCHANGED <<taskVars, pc>>
     \/ /\ ~stopping /\ task[t].status \in Stopped     \* local file missing
        /\ Kind(t) = "upload"
        /\ task' = [task EXCEPT ![t].status = "failed"]
        /\ UNCHANGED <<queueOrder, pc>>
     \/ /\ ~stopping /\ task[t].status \in Stopped
        /\ task[t].run < MaxRun
        /\ queueOrder' = queueOrder + 1
        /\ task' = [task EXCEPT ![t] = [@ EXCEPT !.order = queueOrder + 1,
             !.status = "pending", !.prio = TRUE, !.mode = "", !.run = NextRun(t)]]
        /\ Go(<<t, NextRun(t)>>, "start")
  /\ Return(c)
  /\ UNCHANGED <<slotVars, done, canceled, note, closed, mgrVars>>

\* The client went away while Resume was waiting.
ResumeAbandoned(c) ==
  /\ call[c].op = "resumeWait"
  /\ Return(c)
  /\ UNCHANGED <<taskVars, slotVars, runVars, mgrVars>>

\* Delete up to the first critical section of stopTaskForDelete.
NotActive(t) == task[t].status \notin Active
NothingToStop(t) ==
  \/ task[t].status \notin Active /\ task[t].cancel = NoRun
  \/ <<t, task[t].run>> \in closed

Delete(c, t) ==
  LET s == task[t]  IN
  /\ call[c] = Idle /\ InMap(t)
  /\ IF NothingToStop(t)
     THEN /\ Begin(c, [op |-> "delPop", t |-> t])
          /\ UNCHANGED task
     ELSE /\ task' = [task EXCEPT ![t] = [@ EXCEPT !.mode = "delete",
                        !.status = IF s.status \in Active THEN "canceled" ELSE s.status]]
          /\ Begin(c, [op |-> "delCancel", t |-> t, run |-> s.run,
                       cancel |-> s.cancel])
  /\ UNCHANGED <<queueOrder, slotVars, runVars, mgrVars>>

\* The wait of stopTaskForDelete: runDone, or its five second timer, or the
\* client going away.
DeleteWaited(c) ==
  /\ call[c].op = "delWait"
  /\ <<call[c].t, call[c].run>> \in closed
  /\ Begin(c, [op |-> "delPop", t |-> call[c].t])
  /\ UNCHANGED <<taskVars, slotVars, runVars, mgrVars>>

DeleteTimeout(c) ==
  /\ call[c].op = "delWait"
  /\ Return(c)
  /\ UNCHANGED <<taskVars, slotVars, runVars, mgrVars>>

\* popTask
DeletePop(c) ==
  /\ call[c].op = "delPop"
  /\ task' = IF InMap(call[c].t)
             THEN [task EXCEPT ![call[c].t] = Dropped(@)] ELSE task
  /\ Return(c)
  /\ UNCHANGED <<queueOrder, slotVars, runVars, mgrVars>>

RefreshConcurrencyLimit(l) ==
  /\ limit' = l
  /\ pc' = Woken(pc)
  /\ UNCHANGED <<taskVars, runningUploads, runningDownloads, done, canceled, note,
                 closed, mgrVars, call>>

\* Stop up to the point where it waits for the runDone channels.
Stop ==
  /\ Shutdown /\ ~stopping
  /\ stopping' = TRUE
  /\ task' = [t \in Tasks |-> IF task[t].status = "running"
                              THEN [task[t] EXCEPT !.mode = "pause"] ELSE task[t]]
  /\ pc' = Woken(pc)
  /\ UNCHANGED <<queueOrder, slotVars, done, canceled, note, closed, gateOpen,
                 open, call>>

\* The authentication scheduler closes the gate channel after its first round.
OpenGate ==
  /\ ~gateOpen
  /\ gateOpen' = TRUE
  /\ UNCHANGED <<taskVars, slotVars, runVars, stopping, open, call>>

-----------------------------------------------------------------------------
Worker(r) ==
  \/ RunStart(r) \/ RunGate(r) \/ Acquire(r) \/ Park(r) \/ GiveUp(r)
  \/ Release(r) \/ Exit(r)
  \/ TransferRefused(r) \/ TransferStart(r) \/ Progress(r)
  \/ TransferFails(r) \/ FailureVerdict(r) \/ UploadSucceeds(r)
  \/ TransferPatch(r) \/ DownloadSucceeds(r)

Handler(c) ==
  \/ \E t \in Tasks : Pause(c, t) \/ Resume(c, t) \/ Delete(c, t)
  \/ CallCancel(c) \/ ResumeQueue(c) \/ ResumeAbandoned(c)
  \/ DeleteWaited(c) \/ DeleteTimeout(c) \/ DeletePop(c)

Service ==
  \/ \E b \in Batches : Create(b) \/ CreateStart(b) \/ CreateRollback(b)
  \/ \E l \in Limits : RefreshConcurrencyLimit(l)
  \/ Stop \/ OpenGate

Next ==
  \/ \E r \in Runs : Worker(r)
  \/ \E c \in Callers : Handler(c)
  \/ Service

Spec == Init /\ [][Next]_vars

\* A driver call or an HTTP download comes back.
TransferReturns(r) == TransferFails(r) \/ UploadSucceeds(r) \/ DownloadSucceeds(r)

\* Every step of a worker that does not wait for a remote service.
RunMoves(r) ==
  \/ RunStart(r) \/ RunGate(r) \/ Acquire(r) \/ Park(r) \/ GiveUp(r)
  \/ Release(r) \/ Exit(r) \/ TransferRefused(r) \/ TransferStart(r)
  \/ FailureVerdict(r) \/ TransferPatch(r)

(***************************************************************************)
(* Fairness.  A goroutine that can run does run; createBatch returns; the  *)
(* startup gate is opened by the first check round.  A transfer is only    *)
(* known to return once its context is canceled (every driver takes ctx);  *)
(* FairSpec adds that it returns anyway.  Nothing makes users call         *)
(* anything.                                                               *)
(***************************************************************************)
Fairness ==
  /\ \A r \in Runs : WF_vars(RunMoves(r)) /\ WF_vars(Canceled(r) /\ TransferReturns(r))
  /\ \A c \in Callers : WF_vars(CallCancel(c) \/ ResumeQueue(c)
                                  \/ DeleteWaited(c) \/ DeletePop(c))
  /\ \A b \in Batches : WF_vars(CreateStart(b) \/ CreateRollback(b))
  /\ WF_vars(OpenGate)

CancelFairSpec == Spec /\ Fairness
FairSpec == CancelFairSpec /\ \A r \in Runs : WF_vars(TransferReturns(r))

-----------------------------------------------------------------------------
(***************************************************************************)
(* Properties                                                              *)
(***************************************************************************)
TypeOK ==
  /\ task \in [Tasks -> TaskState]
  /\ queueOrder \in Nat /\ limit \in Limits
  /\ runningUploads \in Nat /\ runningDownloads \in Nat
  /\ stopping \in BOOLEAN /\ gateOpen \in BOOLEAN
  /\ open \subseteq Batches
  /\ pc \in [Runs -> PCs]
  /\ done \in [Runs -> Channels \cup {NoRun}]
  /\ canceled \subseteq Runs
  /\ note \in [Runs -> {"", "pause", "delete", "paused", "canceled", "failed", "success"}]
  /\ closed \subseteq Channels \cup {NoRun}
  /\ call \in [Callers -> CallState]

Holders(S) == {r \in Runs : pc[r] \in S}
Transferring == Holders({"dl", "up"})
Live == {r \in Runs : pc[r] \notin {"none", "end", "lost"}}

\* The two counters of the manager count exactly the workers between
\* acquireRunSlot and releaseSlot, on every path out of a transfer
\* (queue.go: acquireSlotLocked, releaseSlot).
SlotAccounting ==
  /\ runningUploads = Cardinality(Holders(UploadPCs))
  /\ runningDownloads = Cardinality(Holders(DownloadPCs))

\* A task never has two workers: Resume starts a run only after the previous
\* one has closed its channel, whatever pauses, deletes and other resumes of
\* the same task are under way.
OneRunPerTask == \A r, s \in Live : r[1] = s[1] => r = s

\* close(done) in runTask's deferred function never panics: a worker that is
\* past its start holds the channel of its own run, still open.
ChannelClosedOnce ==
  \A r \in Live : pc[r] # "start" => done[r] = r /\ r \notin closed

\* A task that no worker will ever look at is pending only if a pause or a
\* delete raced with the end of its download (or at shutdown): never by
\* itself.
NoSilentOrphan ==
  \A t \in Tasks :
    Orphan(t) => task[t].mode # "" \/ stopping

\* "Wait for the task to exit before deleting it, so that nothing is still
\* being transferred in the background" (state.go, stopTaskForDelete): no
\* worker transfers a task that is not in the map.
NoTransferAfterDelete == \A r \in Transferring : InMap(r[1])

\* "An upload canceled by the shutdown must stay resumable", i.e. paused
\* (manager_test.go); a pause ends in paused as well: only a delete leaves a
\* task canceled.
CanceledOnlyByDelete ==
  \A t \in Tasks : task[t].status = "canceled" => task[t].mode = "delete"

\* Each queue as the abstract pool of SlotPool: its holders are the workers
\* between acquireRunSlot and releaseSlot, its cap is the limit of the moment.
UploadPool == INSTANCE SlotPool WITH
  Clients <- Runs, Caps <- Limits, holders <- Holders(UploadPCs), cap <- limit
DownloadPool == INSTANCE SlotPool WITH
  Clients <- Runs, Caps <- Limits, holders <- Holders(DownloadPCs), cap <- limit

\* Both queues respect the concurrency limit and share no slot
\* (settings/registry.go): each implements a pool that admits a worker only
\* below its cap, whose holders leave by their own release alone.
SlotsArePooled == UploadPool!Spec /\ DownloadPool!Spec

\* A pending task that nobody pauses or deletes is started some time, whatever
\* precedes it in its queue and however its worker was parked (acquireRunSlot).
PendingIsServed ==
  \A t \in Tasks :
    (task[t].status = "pending" /\ task[t].mode = "")
      ~> (task[t].status # "pending" \/ task[t].mode # "" \/ stopping)

\* "The upload phase was not entered after the cross-drive download completed"
\* is a test failure (manager_test.go): a task whose download is complete does
\* not stay pending for ever.
DownloadedIsUploaded ==
  \A t \in Cross :
    (task[t].status = "pending" /\ task[t].phase = "uploading")
      ~> (task[t].status # "pending" \/ stopping)

\* Pausing a task stops its transfer even when the remote side never answers.
PauseStopsTransfer ==
  \A r \in Runs :
    (pc[r] \in {"dl", "up"} /\ task[r[1]].status = "paused")
      ~> pc[r] \notin {"dl", "up"}

\* After Stop every worker ends, whether it was transferring, parked on the
\* condition variable, waiting for the gate or not yet started.
StopEndsWorkers == stopping ~> (Live = {} /\ open = {})

\* Whoever is told to stop does, by a pause as by the shutdown: the cancel
\* reaches the transfer under way, the run still at its start and the run
\* parked for a slot alike (lifecycle.go:72, manager.go:244).
StopsAreObeyed == PauseStopsTransfer /\ StopEndsWorkers

\* Resume does not wait forever for a previous run, unless the task was
\* removed meanwhile (bound: the task has runs left).
ResumeIsAnswered ==
  \A c \in Callers :
    call[c].op = "resumeWait"
      ~> \/ call[c].op # "resumeWait"
         \/ task[call[c].t].status = "gone" \/ task[call[c].t].run = MaxRun

=============================================================================

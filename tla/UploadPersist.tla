---------------------------- MODULE UploadPersist ----------------------------
(***************************************************************************)
(* What internal/upload.Manager leaves in the database and on the disk: the *)
(* records of the tasks in memory, their rows, their local temporary files, *)
(* the debounced timer that saves checkpoints, crashes, restarts and the    *)
(* shutdown.                                                                *)
(*                                                                          *)
(* persistTask reads the record without the lock, after the critical        *)
(* section that changed it: a writer (a worker, a timer, a handler, or the  *)
(* goroutine that starts and stops the manager) is in the middle of its     *)
(* `io', first reading the record, then writing the row, while the others   *)
(* go on; it finishes its io before its next action.  The fields are not    *)
(* read at one instant, but no property below relates two fields of a row.  *)
(*                                                                          *)
(* Tasks are uploads of a file of the manager's own TempDir that is removed *)
(* on success (source type manual).  Slots, priorities and waking up are    *)
(* the subject of UploadQueue: a queued worker starts some time.  A Resume  *)
(* that waited for a run that is not the last one is left to UploadQueue.   *)
(***************************************************************************)
EXTENDS Naturals, Sequences

CONSTANTS Tasks,    \* task ids
          Batches,  \* the parameter lists CreateBatch may be called with
          Callers,  \* goroutines of HTTP handlers
          Calls,    \* the calls they make, besides CreateBatch
          MaxCkpt,  \* bound: checkpoints a driver reports during the life of a task
          MaxBoot,  \* bound: restarts of the process
          Failing,  \* the database operations that may fail
          SlowStop  \* whether Stop may run out of its time budget

ASSUME PersistAssumption ==
  /\ Batches \subseteq Seq(Tasks) /\ <<>> \notin Batches
  /\ Calls \subseteq {"pause", "rename", "resume", "delete"}
  /\ MaxCkpt \in Nat /\ MaxBoot \in Nat
  /\ Failing \subseteq {"upsert", "delete", "list"} /\ SlowStop \in BOOLEAN
  /\ Callers \cap (({"worker", "timer"} \X Tasks) \cup {<<"main">>}) = {}

VARIABLES proc,     \* "up", "stopping", "flushing", "flushed", "off", "starting"
          boots,    \* restarts so far
          mem,      \* the taskState objects, in Manager.tasks or detached from it
          row,      \* table upload_tasks
          file,     \* the tasks whose local temporary file exists
          worker,   \* the goroutine of the last run of each task
          armed,    \* the keys of Manager.resumePersist
          io,       \* what each writer is doing with the database
          call,     \* the call each handler goroutine is in the middle of
          todo,     \* tasks that start-up or FlushPendingResume still has to persist
          promised, \* history: creation was acknowledged, not removed by a Delete
          stored,   \* history: the driver has reported success
          deleted,  \* history: Delete has returned success
          refused   \* history: createBatch has returned an error

memVars  == <<mem, file, worker, armed>>
procVars == <<proc, boots, todo>>
history  == <<promised, stored, deleted, refused>>
vars == <<procVars, memVars, row, io, call, history>>

Statuses == {"pending", "running", "paused", "failed", "canceled", "success"}
Active   == {"pending", "running"}
Stopped  == {"paused", "failed", "canceled"}
Modes    == {"", "pause", "delete"}
TaskState == [present : BOOLEAN, status : Statuses, ckpt : 0..MaxCkpt, mode : Modes]
Record == [status : Statuses, ckpt : 0..MaxCkpt]
Unborn == [present |-> FALSE, status |-> "pending", ckpt |-> 0, mode |-> ""]
NoRow  == [status |-> "none"]

\* "owed": runDone is open but the goroutine has not been started yet; "lost":
\* it is open for ever; "ended": it is closed.
WorkerPCs == {"none", "owed", "start", "up", "stored", "cleaned", "exit", "lost", "ended"}
HoldingCancel == {"up", "stored", "cleaned", "exit"}   \* taskState.cancel # nil

WorkerOf(t) == <<"worker", t>>
TimerOf(t)  == <<"timer", t>>
Main        == <<"main">>
Writers == Callers \cup ({"worker", "timer"} \X Tasks) \cup {Main}

NoIO == [st |-> "none"]
Failed == [st |-> "failed"]     \* the write whose error createBatch looks at
IOState == {NoIO, Failed}
  \cup [st : {"read", "delete"}, t : Tasks]
  \cup [st : {"upsert"}, t : Tasks, rec : Record]

Idle == [op |-> "idle"]
CallState == {Idle}
  \cup [op : {"create"}, b : Batches, i : Nat]      \* row i is being written
  \cup [op : {"undo"}, b : Batches, i : Nat]        \* row i is being deleted again
  \cup [op : {"go", "wait", "pop", "clean"}, t : Tasks]

In(b, t) == \E i \in DOMAIN b : b[i] = t
Persist(t) == [st |-> "read", t |-> t]       \* persistTask is called
Quiet(w) == io[w] = NoIO
Serving == proc = "up"
Running == proc \in {"up", "stopping", "flushing", "flushed"}

-----------------------------------------------------------------------------
(***************************************************************************)
(* persistTask and deletePersisted                                         *)
(***************************************************************************)
\* recordFromState; a task that has left the map is read all the same.
ReadRecord(w) ==
  /\ io[w].st = "read"
  /\ io' = [io EXCEPT ![w] = [st |-> "upsert", t |-> io[w].t,
       rec |-> [status |-> mem[io[w].t].status, ckpt |-> mem[io[w].t].ckpt]]]
  /\ UNCHANGED <<procVars, memVars, row, call, history>>

\* Only createBatch looks at the error; everybody else logs it.
AfterFailure(w) ==
  IF w \in Callers /\ call[w].op = "create" THEN Failed ELSE NoIO

Upsert(w) ==
  /\ io[w].st = "upsert"
  /\ \/ /\ row' = [row EXCEPT ![io[w].t] = io[w].rec]
        /\ io' = [io EXCEPT ![w] = NoIO]
     \/ /\ "upsert" \in Failing
        /\ io' = [io EXCEPT ![w] = AfterFailure(w)]
        /\ UNCHANGED row
  /\ UNCHANGED <<procVars, memVars, call, history>>

DeletePersisted(w) ==
  /\ io[w].st = "delete"
  /\ io' = [io EXCEPT ![w] = NoIO]
  /\ \/ row' = [row EXCEPT ![io[w].t] = NoRow]
     \/ "delete" \in Failing /\ UNCHANGED row
  /\ UNCHANGED <<procVars, memVars, call, history>>

-----------------------------------------------------------------------------
(***************************************************************************)
(* createBatch                                                             *)
(***************************************************************************)
Create(c, b) ==
  /\ Serving /\ call[c] = Idle /\ Quiet(c)
  /\ \A t \in Tasks : In(b, t) => worker[t] = "none"
  /\ mem' = [t \in Tasks |-> IF In(b, t) THEN [Unborn EXCEPT !.present = TRUE] ELSE mem[t]]
  /\ worker' = [t \in Tasks |-> IF In(b, t) THEN "owed" ELSE worker[t]]
  /\ file' = file \cup {t \in Tasks : In(b, t)}
  /\ call' = [call EXCEPT ![c] = [op |-> "create", b |-> b, i |-> 1]]
  /\ io' = [io EXCEPT ![c] = Persist(b[1])]
  /\ UNCHANGED <<procVars, armed, row, history>>

\* The next row of the batch is written.
CreateNext(c) ==
  /\ call[c].op = "create" /\ Quiet(c)
  /\ call[c].i < Len(call[c].b)
  /\ call' = [call EXCEPT ![c].i = @ + 1]
  /\ io' = [io EXCEPT ![c] = Persist(call[c].b[call[c].i + 1])]
  /\ UNCHANGED <<procVars, memVars, row, history>>

\* All rows are written: the workers start and the caller is told.
AllWritten(c) == call[c].i = Len(call[c].b)

CreateReturns(c) ==
  /\ call[c].op = "create" /\ Quiet(c) /\ AllWritten(c)
  /\ worker' = [t \in Tasks |-> IF In(call[c].b, t) THEN "start" ELSE worker[t]]
  /\ promised' = promised \cup {t \in Tasks : In(call[c].b, t) /\ mem[t].present}
  /\ call' = [call EXCEPT ![c] = Idle]
  /\ UNCHANGED <<procVars, mem, file, armed, row, io, stored, deleted, refused>>

\* One write failed: the whole batch leaves the memory, then the rows written
\* before are deleted one by one.
CreateFails(c) ==
  LET b == call[c].b IN
  /\ call[c].op = "create" /\ io[c] = Failed
  /\ mem' = [t \in Tasks |-> IF In(b, t) THEN [mem[t] EXCEPT !.present = FALSE] ELSE mem[t]]
  /\ worker' = [t \in Tasks |-> IF In(b, t) THEN "lost" ELSE worker[t]]
  /\ call' = [call EXCEPT ![c] = [op |-> "undo", b |-> b, i |-> call[c].i]]
  /\ io' = [io EXCEPT ![c] = NoIO]
  /\ UNCHANGED <<procVars, file, armed, row, history>>

AllUndone(c) == call[c].i = 1

Undo(c) ==
  /\ call[c].op = "undo" /\ Quiet(c)
  /\ IF AllUndone(c)
     THEN /\ call' = [call EXCEPT ![c] = Idle]
          /\ refused' = refused \cup {t \in Tasks : In(call[c].b, t)}
          /\ UNCHANGED io
     ELSE /\ call' = [call EXCEPT ![c].i = @ - 1]
          /\ io' = [io EXCEPT ![c] = [st |-> "delete", t |-> call[c].b[call[c].i - 1]]]
          /\ UNCHANGED refused
  /\ UNCHANGED <<procVars, memVars, row, promised, stored, deleted>>

-----------------------------------------------------------------------------
(***************************************************************************)
(* The worker: runTask and executeUpload.                                  *)
(***************************************************************************)
Patch(t, s) ==     \* Manager.patch
  IF mem[t].present
  THEN /\ mem' = [mem EXCEPT ![t] = s]
       /\ io' = [io EXCEPT ![WorkerOf(t)] = Persist(t)]
  ELSE UNCHANGED <<mem, io>>

WorkerGoes(t, to) == worker' = [worker EXCEPT ![t] = to]

WorkerStart(t) ==
  /\ Running /\ worker[t] = "start"
  /\ \/ /\ proc = "up" /\ mem[t].present /\ mem[t].status = "pending"
        /\ Patch(t, [mem[t] EXCEPT !.status = "running"])
        /\ WorkerGoes(t, "up")
     \/ /\ proc # "up" \/ mem[t].status # "pending"
        /\ mem[t].present
        /\ WorkerGoes(t, "ended") /\ UNCHANGED <<mem, io>>
     \/ /\ ~mem[t].present
        /\ WorkerGoes(t, "lost") /\ UNCHANGED <<mem, io>>
  /\ UNCHANGED <<procVars, file, armed, row, call, history>>

\* OnResumeState: applyResumeState and scheduleResumePersist, which arms the
\* timer of the task or resets it.
Checkpoint(t) ==
  /\ Running /\ worker[t] = "up" /\ Quiet(WorkerOf(t))
  /\ mem[t].present /\ mem[t].ckpt < MaxCkpt
  /\ mem' = [mem EXCEPT ![t].ckpt = @ + 1]
  /\ armed' = armed \cup {t}
  /\ UNCHANGED <<procVars, file, worker, row, io, call, history>>

\* OnProgress: updateProgress changes the status and saves nothing.
Progress(t) ==
  /\ Running /\ worker[t] = "up" /\ Quiet(WorkerOf(t))
  /\ mem[t].present /\ mem[t].status # "running"
  /\ mem' = [mem EXCEPT ![t].status = "running"]
  /\ UNCHANGED <<procVars, file, worker, armed, row, io, call, history>>

\* The verdict of a failed transfer depends on cancelMode; some errors discard
\* the checkpoint (shouldResetResumeState).
VerdictsAreModes(t) == {mem[t].mode}
Verdicts(t) == {"failed"}
  \cup (IF mem[t].mode = "pause" THEN {"paused"} ELSE {})
  \cup (IF mem[t].mode = "delete" THEN {"canceled"} ELSE {})

UploadFails(t) ==
  /\ Running /\ worker[t] = "up" /\ Quiet(WorkerOf(t))
  /\ \E s \in Verdicts(t) :
       \E k \in {mem[t].ckpt} \cup (IF s = "failed" THEN {0} ELSE {}) :
         Patch(t, [mem[t] EXCEPT !.status = s, !.ckpt = k])
  /\ WorkerGoes(t, "exit")
  /\ UNCHANGED <<procVars, file, armed, row, call, history>>

\* The driver has stored the file in the cloud.
UploadSucceeds(t) ==
  /\ Running /\ worker[t] = "up" /\ Quiet(WorkerOf(t))
  /\ stored' = stored \cup {t}
  /\ WorkerGoes(t, IF mem[t].present THEN "stored" ELSE "exit")
  /\ UNCHANGED <<procVars, mem, file, armed, row, io, call, promised, deleted, refused>>

\* cleanupLocalSource comes before the status is written.
CleanupSource(t) ==
  /\ Running /\ worker[t] = "stored"
  /\ file' = file \ {t}
  /\ WorkerGoes(t, "cleaned")
  /\ UNCHANGED <<procVars, mem, armed, row, io, call, history>>

FinishUpload(t) ==
  /\ Running /\ worker[t] = "cleaned"
  /\ Patch(t, [mem[t] EXCEPT !.status = "success", !.ckpt = 0])
  /\ WorkerGoes(t, "exit")
  /\ UNCHANGED <<procVars, file, armed, row, call, history>>

WorkerExit(t) ==
  /\ Running /\ worker[t] = "exit" /\ Quiet(WorkerOf(t))
  /\ WorkerGoes(t, "ended")
  /\ UNCHANGED <<procVars, mem, file, armed, row, io, call, history>>

\* flushResumePersist, called by the timer.  Bound: one such goroutine of a
\* task at a time.
TimerFires(t) ==
  /\ Running /\ t \in armed /\ Quiet(TimerOf(t))
  /\ armed' = armed \ {t}
  /\ io' = IF mem[t].present THEN [io EXCEPT ![TimerOf(t)] = Persist(t)] ELSE io
  /\ UNCHANGED <<procVars, mem, file, worker, row, call, history>>

-----------------------------------------------------------------------------
(***************************************************************************)
(* Pause, Resume, RenameTask, Delete.                                      *)
(***************************************************************************)
MayCall(c, kind) == Serving /\ kind \in Calls /\ call[c] = Idle /\ Quiet(c)

Pause(c, t) ==
  /\ MayCall(c, "pause") /\ mem[t].present /\ mem[t].status \in Active
  /\ mem' = [mem EXCEPT ![t] = [@ EXCEPT !.status = "paused", !.mode = "pause"]]
  /\ io' = [io EXCEPT ![c] = Persist(t)]
  /\ UNCHANGED <<procVars, file, worker, armed, row, call, history>>

\* RenameTask saves the record whether or not it may change it.
RenameTask(c, t) ==
  /\ MayCall(c, "rename") /\ mem[t].present
  /\ io' = [io EXCEPT ![c] = Persist(t)]
  /\ UNCHANGED <<procVars, memVars, row, call, history>>

Resume(c, t) ==
  /\ MayCall(c, "resume") /\ mem[t].present /\ mem[t].status \in Stopped
  /\ worker[t] = "ended"
  /\ io' = [io EXCEPT ![c] = Persist(t)]
  /\ IF t \in file
     THEN /\ mem' = [mem EXCEPT ![t] = [@ EXCEPT !.status = "pending", !.mode = ""]]
          /\ WorkerGoes(t, "owed")
          /\ call' = [call EXCEPT ![c] = [op |-> "go", t |-> t]]
     ELSE /\ mem' = [mem EXCEPT ![t].status = "failed"]
          /\ UNCHANGED <<worker, call>>
  /\ UNCHANGED <<procVars, file, armed, row, history>>

ResumeGoes(c) ==
  /\ call[c].op = "go" /\ Quiet(c)
  /\ WorkerGoes(call[c].t, "start")
  /\ call' = [call EXCEPT ![c] = Idle]
  /\ UNCHANGED <<procVars, mem, file, armed, row, io, history>>

\* stopTaskForDelete
InactiveEnough(t) == mem[t].status \notin Active
NothingToStop(t) ==
  \/ mem[t].status \notin Active /\ worker[t] \notin HoldingCancel
  \/ worker[t] = "ended"

Delete(c, t) ==
  LET active == mem[t].status \in Active IN
  /\ MayCall(c, "delete") /\ mem[t].present
  /\ IF NothingToStop(t)
     THEN /\ call' = [call EXCEPT ![c] = [op |-> "pop", t |-> t]]
          /\ UNCHANGED <<mem, io>>
     ELSE /\ mem' = [mem EXCEPT ![t] = [@ EXCEPT !.mode = "delete",
                       !.status = IF active THEN "canceled" ELSE mem[t].status]]
          /\ io' = IF active THEN [io EXCEPT ![c] = Persist(t)] ELSE io
          /\ call' = [call EXCEPT ![c] = [op |-> "wait", t |-> t]]
  /\ UNCHANGED <<procVars, file, worker, armed, row, history>>

DeleteWaited(c) ==
  /\ call[c].op = "wait" /\ Quiet(c)
  /\ \/ worker[call[c].t] = "ended" /\ call' = [call EXCEPT ![c].op = "pop"]
     \/ call' = [call EXCEPT ![c] = Idle]         \* timeout: Delete fails
  /\ UNCHANGED <<procVars, memVars, row, io, history>>

\* popTask; somebody else may have popped the task already.
DeletePop(c) ==
  LET t == call[c].t IN
  /\ call[c].op = "pop"
  /\ IF mem[t].present
     THEN /\ mem' = [mem EXCEPT ![t].present = FALSE]
          /\ io' = [io EXCEPT ![c] = [st |-> "delete", t |-> t]]
          /\ promised' = promised \ {t}
          /\ call' = [call EXCEPT ![c].op = "clean"]
     ELSE /\ call' = [call EXCEPT ![c] = Idle]
          /\ UNCHANGED <<mem, io, promised>>
  /\ UNCHANGED <<procVars, file, worker, armed, row, stored, deleted, refused>>

\* cleanupLocalSourceAfterDelete
DeleteReturns(c) ==
  /\ call[c].op = "clean" /\ Quiet(c)
  /\ file' = file \ {call[c].t}
  /\ deleted' = deleted \cup {call[c].t}
  /\ call' = [call EXCEPT ![c] = Idle]
  /\ UNCHANGED <<procVars, mem, worker, armed, row, io, promised, stored, refused>>

-----------------------------------------------------------------------------
(***************************************************************************)
(* Shutdown, crash, restart.                                               *)
(***************************************************************************)
Stop ==
  /\ proc = "up" /\ proc' = "stopping"
  /\ mem' = [t \in Tasks |-> IF mem[t].present /\ mem[t].status = "running"
                             THEN [mem[t] EXCEPT !.mode = "pause"] ELSE mem[t]]
  /\ UNCHANGED <<boots, todo, file, worker, armed, row, io, call, history>>

\* Stop returns when every runDone is closed, or its budget is used up; then
\* FlushPendingResume takes over the armed timers.
Flush ==
  /\ proc = "stopping" /\ proc' = "flushing"
  /\ SlowStop \/ \A t \in Tasks : mem[t].present => worker[t] = "ended"
  /\ todo' = armed /\ armed' = {}
  /\ UNCHANGED <<boots, mem, file, worker, row, io, call, history>>

\* One record of the list: FlushPendingResume skips a task that has left the
\* map, restoreTasks has none.
PersistNext(t) ==
  /\ proc \in {"flushing", "starting"} /\ t \in todo /\ Quiet(Main)
  /\ todo' = todo \ {t}
  /\ io' = IF mem[t].present THEN [io EXCEPT ![Main] = Persist(t)] ELSE io
  /\ UNCHANGED <<proc, boots, memVars, row, call, history>>

Flushed ==
  /\ proc = "flushing" /\ todo = {} /\ Quiet(Main)
  /\ proc' = "flushed"
  /\ UNCHANGED <<boots, todo, memVars, row, io, call, history>>

\* A crash at any time, or the end of a shutdown.  Bound: MaxBoot restarts.
Exit ==
  /\ proc # "off" /\ boots < MaxBoot
  /\ proc' = "off" /\ todo' = {} /\ armed' = {}
  /\ mem' = [t \in Tasks |-> Unborn]
  /\ worker' = [t \in Tasks |-> IF worker[t] = "none" THEN "none" ELSE "ended"]
  /\ io' = [w \in Writers |-> NoIO]
  /\ call' = [c \in Callers |-> Idle]
  /\ UNCHANGED <<boots, file, row, history>>

\* restoreTasks: what becomes of the row of a task.
RestoredVerbatim(t) == row[t].status
RestoredStatus(t) ==
  LET s == IF row[t].status = "running" THEN "paused" ELSE row[t].status
  IN  IF s # "success" /\ t \notin file THEN "failed" ELSE s

Restore ==
  /\ proc = "off" /\ proc' = "starting" /\ boots' = boots + 1
  /\ \/ /\ mem' = [t \in Tasks |->
             IF row[t] = NoRow THEN Unborn
             ELSE [present |-> TRUE, status |-> RestoredStatus(t), ckpt |-> row[t].ckpt,
                   mode |-> ""]]
        /\ todo' = {t \in Tasks : row[t] # NoRow /\ RestoredStatus(t) # row[t].status}
     \/ "list" \in Failing /\ UNCHANGED <<mem, todo>>
  /\ UNCHANGED <<file, worker, armed, row, io, call, history>>

\* activeTempPaths: the files initTempCleanup spares.
ActiveAtStartup == {t \in Tasks : mem[t].present /\ mem[t].status \in Active}
ActiveTempPaths == {t \in Tasks : mem[t].present}

\* The workers of the pending tasks start; initTempCleanup.
Started ==
  /\ proc = "starting" /\ todo = {} /\ Quiet(Main)
  /\ proc' = "up"
  /\ worker' = [t \in Tasks |-> IF mem[t].present /\ mem[t].status = "pending"
                                THEN "start" ELSE worker[t]]
  /\ file' = file \cap ActiveTempPaths
  /\ UNCHANGED <<boots, todo, mem, armed, row, io, call, history>>

-----------------------------------------------------------------------------
Init ==
  /\ proc = "up" /\ boots = 0 /\ todo = {}
  /\ mem = [t \in Tasks |-> Unborn]
  /\ row = [t \in Tasks |-> NoRow]
  /\ file = {} /\ armed = {}
  /\ worker = [t \in Tasks |-> "none"]
  /\ io = [w \in Writers |-> NoIO]
  /\ call = [c \in Callers |-> Idle]
  /\ promised = {} /\ stored = {} /\ deleted = {} /\ refused = {}

Database(w) == ReadRecord(w) \/ Upsert(w) \/ DeletePersisted(w)

Worker(t) ==
  \/ WorkerStart(t) \/ Checkpoint(t) \/ Progress(t) \/ UploadFails(t)
  \/ UploadSucceeds(t) \/ CleanupSource(t) \/ FinishUpload(t) \/ WorkerExit(t)
  \/ TimerFires(t)

Handler(c) ==
  \/ \E b \in Batches : Create(c, b)
  \/ CreateNext(c) \/ CreateReturns(c) \/ CreateFails(c) \/ Undo(c)
  \/ \E t \in Tasks : Pause(c, t) \/ RenameTask(c, t) \/ Resume(c, t) \/ Delete(c, t)
  \/ ResumeGoes(c) \/ DeleteWaited(c) \/ DeletePop(c) \/ DeleteReturns(c)

Lifecycle ==
  \/ Stop \/ Flush \/ Flushed \/ Exit \/ Restore \/ Started
  \/ \E t \in Tasks : PersistNext(t)

Next ==
  \/ \E w \in Writers : Database(w)
  \/ \E t \in Tasks : Worker(t)
  \/ \E c \in Callers : Handler(c)
  \/ Lifecycle

Spec == Init /\ [][Next]_vars

-----------------------------------------------------------------------------
(***************************************************************************)
(* Properties                                                              *)
(***************************************************************************)
TypeOK ==
  /\ proc \in {"up", "stopping", "flushing", "flushed", "off", "starting"}
  /\ boots \in 0..MaxBoot
  /\ mem \in [Tasks -> TaskState]
  /\ row \in [Tasks -> Record \cup {NoRow}]
  /\ worker \in [Tasks -> WorkerPCs]
  /\ io \in [Writers -> IOState]
  /\ call \in [Callers -> CallState]
  /\ \A S \in {file, armed, todo, promised, stored, deleted, refused} : S \subseteq Tasks

\* A task whose creation was acknowledged is in the database from then on, and
\* in memory again after every restart that could read the table, wherever the
\* process died and whatever writes failed, until a Delete removes it
\* (createBatch persists before it returns; restoreTasks).
AckedSurvives ==
  \A t \in promised :
    /\ row[t] # NoRow
    /\ proc \in {"up", "stopping"} /\ "list" \notin Failing => mem[t].present

\* The local file of such a task is only removed once the driver has reported
\* success: not by the start-up cleanup of temporary files, nor by a failure or
\* a rollback (temp.go, executeUpload).
SourceKept == \A t \in promised : t \in file \/ t \in stored

\* Nothing that was acknowledged is lost before it is uploaded, neither the task
\* nor the bytes it would be resumed from.
PromisesAreKept == AckedSurvives /\ SourceKept

\* "Tasks left running by an abnormal interruption are corrected after a
\* restart" (docs/GUIDE.md): an active task always has a worker, or a call that
\* is about to start one.
ActiveHasWorker ==
  proc = "up" => \A t \in Tasks :
    mem[t].present /\ mem[t].status \in Active
      => worker[t] \in {"owed", "start"} \cup HoldingCancel

\* A task whose deletion was reported as done has left no row behind that the
\* next restart would bring back (popTask).
DeletedStaysDeleted == \A t \in deleted : row[t] = NoRow

\* "After a failed persist the tasks are rolled back in memory and in the
\* database" (manager_test.go): a refused batch leaves nothing behind.
RefusedLeavesNothing == \A t \in refused : row[t] = NoRow /\ ~mem[t].present

\* No row comes back that was given up, by a deletion or with its batch, though
\* a persist of the same task may write it at any time in between.
NoRowComesBack == DeletedStaysDeleted /\ RefusedLeavesNothing

\* "All saved to the database and restored after a restart" (docs/GUIDE.md): the
\* row of a finished upload says so once nobody is writing it.
FinishedIsSaved ==
  Serving => \A t \in Tasks :
    (/\ mem[t].present /\ mem[t].status = "success"
     /\ \A w \in Writers : io[w] \in {NoIO, Failed} \/ io[w].t # t)
      => row[t] # NoRow /\ row[t].status = "success"

\* FlushPendingResume "writes the checkpoints that are not saved yet to the
\* database (called before the process is closed)" (resume.go): afterwards the
\* row of a task whose worker has ended is not behind its last checkpoint.
FlushedAtShutdown ==
  proc = "flushed" => \A t \in Tasks :
    mem[t].present /\ worker[t] = "ended" => row[t] # NoRow /\ row[t].ckpt >= mem[t].ckpt

=============================================================================

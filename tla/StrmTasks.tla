------------------------------ MODULE StrmTasks ------------------------------
(***************************************************************************)
(* The tasks of internal/strm: the scheduler's tick and RunTaskNow start   *)
(* runs, each a goroutine of its own; handlers and the pauses that follow  *)
(* a failed authentication stop them.  A run is known by the marks of the  *)
(* service (running, runningAccounts, taskCancels), by the file lock of    *)
(* its task and by the status in its row, and these are not changed        *)
(* together: the marks go as soon as a run is told to stop, the file lock  *)
(* when it has ended, and rows are written outside s.mu.                   *)
(*                                                                         *)
(* Whether another service works on an account (media organising, cache    *)
(* retention) and whether an interval has elapsed are free choices.        *)
(***************************************************************************)
EXTENDS Naturals, FiniteSets

CONSTANTS Tasks,
          Account,   \* the account of every task
          Limit,     \* strm_task_concurrency
          Callers,   \* goroutines of handlers and of the event bus
          Ops,       \* what they call
          MaxRuns,   \* bound: goroutines of runs at a time
          Restarts   \* bound: restarts of the process

VARIABLES row,       \* status of every task as stored
          marks,     \* running, runningAccounts and taskCancels
          pending,   \* pendingRun
          dirty,     \* dirtyAccounts
          files,     \* tasks in fileOperations
          ready,     \* the start-up gate and delay are over
          tick,      \* what the scheduler's round has still to look at
          stale,     \* tasks whose row is about to be set back from "running"
          run,       \* the goroutines of runs
          call,      \* the callers and the scheduler
          restarts

ownVars == <<marks, pending, dirty, files>>
envVars == <<ready, restarts>>
vars == <<row, ownVars, envVars, tick, stale, run, call>>

Slots == 1..MaxRuns
Accounts == {Account[t] : t \in Tasks}
Scheduler == "scheduler"
Paused == {"user", "auth"}
Status == {"none", "active", "running", "gone"} \cup Paused
NoRun == [at |-> "none"]
Idle == [at |-> "idle"]
Marked == {"register", "open", "scan", "read", "write", "authGet", "authPut", "peek", "drop", "clear"}
Working == Marked \cup {"release"}
NoMarks == [running |-> {}, accounts |-> {}, cancel |-> [t \in Tasks |-> 0]]

\* owed: a pause was stored while the scan was under way.
Runs == {NoRun} \cup [at : Working, task : Tasks, canceled : BOOLEAN, read : Status, owed : BOOLEAN]
Calls == {Idle} \cup [at : {"get", "put", "peek", "drop", "erase", "wipe", "start", "mark"},
                      op : Ops \cup {"tick"}, task : Tasks, value : Status, cancel : 0..MaxRuns]

TypeOK ==
  /\ row \in [Tasks -> Status]
  /\ marks \in [running : SUBSET Tasks, accounts : SUBSET Accounts, cancel : [Tasks -> 0..MaxRuns]]
  /\ pending \subseteq Tasks /\ dirty \subseteq Accounts /\ files \subseteq Tasks
  /\ ready \in BOOLEAN /\ restarts \in 0..Restarts
  /\ tick \subseteq Tasks /\ stale \subseteq Tasks
  /\ run \in [Slots -> Runs] /\ call \in [Callers \cup {Scheduler} -> Calls]

Init ==
  /\ row = [t \in Tasks |-> "none"]
  /\ marks = NoMarks /\ pending = {} /\ dirty = {} /\ files = {}
  /\ ready = FALSE /\ restarts = 0 /\ tick = {} /\ stale = {}
  /\ run = [i \in Slots |-> NoRun]
  /\ call = [c \in Callers \cup {Scheduler} |-> Idle]

-----------------------------------------------------------------------------
(***************************************************************************)
(* Rows and marks                                                          *)
(***************************************************************************)
Exists(t) == row[t] \notin {"none", "gone"}

\* Statements on a row that is gone change nothing.  A pause that is stored
\* while a run scans is noted in it, and forgotten when somebody resumes.
Store(t, s) ==
  /\ row' = IF Exists(t) THEN [row EXCEPT ![t] = s] ELSE row
Owe(t, s) == [i \in Slots |->
  IF run[i].at = "scan" /\ run[i].task = t /\ s \in Paused THEN [run[i] EXCEPT !.owed = TRUE]
  ELSE IF run[i].at # "none" /\ run[i].task = t /\ s \notin Paused THEN [run[i] EXCEPT !.owed = FALSE]
  ELSE run[i]]

\* clearTaskRunState, and what ForceStopTask deletes.
UnmarkTask(t) ==
  /\ marks' = [marks EXCEPT !.running = @ \ {t}, !.cancel[t] = 0]
  /\ pending' = pending \ {t}
Unmark(t) ==
  /\ marks' = [running |-> marks.running \ {t}, accounts |-> marks.accounts \ {Account[t]},
               cancel |-> [marks.cancel EXCEPT ![t] = 0]]
  /\ pending' = pending \ {t}

-----------------------------------------------------------------------------
(***************************************************************************)
(* Starting a run                                                          *)
(***************************************************************************)
Call(c, a) == call' = [call EXCEPT ![c] = a]
Goto(c, at) == Call(c, [call[c] EXCEPT !.at = at])
New(op, t, at) == [at |-> at, op |-> op, task |-> t, value |-> "none", cancel |-> 0]

\* A round of scheduleOnce: the rows are read once, then each task is judged.
Tick ==
  /\ ready /\ tick = {} /\ call[Scheduler] = Idle
  /\ tick' = {t \in Tasks : row[t] = "active"} /\ tick' # {}
  /\ UNCHANGED <<row, ownVars, envVars, stale, run, call>>

\* shouldRun: the mark of a changed account is used up by the first task it lets
\* through; auto stands for the schedule mode and the time window, elapsed for the
\* interval, free for the other services.
Judge(t, auto, elapsed, free) ==
  LET a == Account[t]
  IN  /\ t \in tick /\ call[Scheduler] = Idle /\ tick' = tick \ {t}
      /\ IF /\ auto \/ t \in pending
            /\ elapsed \/ a \in dirty
            /\ free /\ t \notin files /\ t \notin marks.running
         THEN dirty' = dirty \ {a} /\ Call(Scheduler, New("tick", t, "start"))
         ELSE UNCHANGED <<dirty, call>>
      /\ UNCHANGED <<row, marks, pending, files, envVars, stale, run>>

\* runTaskAsync: the other services, then the file lock, then the marks.
AlwaysBegins(t) == TRUE
MayBegin(t) == t \notin files
Start(c, free) ==
  LET t == call[c].task
  IN  /\ call[c].at = "start"
      /\ IF free /\ MayBegin(t)
         THEN files' = files \cup {t} /\ Goto(c, "mark")
         ELSE Call(c, Idle) /\ UNCHANGED files
      /\ UNCHANGED <<row, marks, pending, dirty, envVars, tick, stale, run>>

CanStart(t) ==
  t \notin marks.running /\ Account[t] \notin marks.accounts /\ Cardinality(marks.running) < Limit
Mark(c) ==
  LET t == call[c].task
  IN  /\ call[c].at = "mark" /\ Call(c, Idle)
      /\ IF CanStart(t)
         THEN \E i \in Slots :
                /\ run[i] = NoRun
                /\ run' = [run EXCEPT ![i] = [at |-> "register", task |-> t, canceled |-> FALSE,
                                              read |-> "none", owed |-> FALSE]]
                /\ marks' = [marks EXCEPT !.running = @ \cup {t}, !.accounts = @ \cup {Account[t]}]
                /\ UNCHANGED files
         ELSE files' = files \ {t} /\ UNCHANGED <<run, marks>>
      /\ UNCHANGED <<row, pending, dirty, envVars, tick, stale>>

-----------------------------------------------------------------------------
(***************************************************************************)
(* Handlers                                                                *)
(***************************************************************************)
Create(t) ==
  /\ row[t] = "none" /\ row' = [row EXCEPT ![t] = "active"]
  /\ UNCHANGED <<ownVars, envVars, tick, stale, run, call>>

\* UpdateTask holds the file lock of the task; ForceStopTask reads no row first.
Begin(c, op, t) ==
  /\ call[c] = Idle /\ Exists(t)
  /\ IF op = "update" THEN MayBegin(t) /\ files' = files \cup {t} ELSE UNCHANGED files
  /\ Call(c, New(op, t, IF op = "stop" THEN "peek" ELSE "get"))
  /\ UNCHANGED <<row, marks, pending, dirty, envVars, tick, stale, run>>

\* What the handler does with the status it has read, as the next step and the
\* status it will store; Idle when it returns.
Put(c, s) == [call[c] EXCEPT !.at = "put", !.value = s]
Decides(c, s) ==
  CASE call[c].op = "pause"  -> IF s \in Paused THEN Idle ELSE Put(c, "auth")
    [] call[c].op = "resume" -> IF s = "auth" THEN Put(c, "active") ELSE Idle
    [] call[c].op = "toggle" -> IF s \in Paused THEN Put(c, "active")
                                ELSE [Put(c, "user") EXCEPT !.at = IF s = "running" THEN "peek" ELSE "put"]
    [] call[c].op = "update" -> Put(c, s)
    [] call[c].op = "delete" -> [call[c] EXCEPT !.at = "peek"]
Get(c) ==
  LET t == call[c].task
  IN  /\ call[c].at = "get" /\ call[c].op # "run"
      /\ IF Exists(t) THEN Call(c, Decides(c, row[t])) /\ UNCHANGED files
         ELSE Call(c, Idle) /\ files' = IF call[c].op = "update" THEN files \ {t} ELSE files
      /\ UNCHANGED <<row, marks, pending, dirty, envVars, tick, stale, run>>
RunTaskNow(c, free) ==
  LET t == call[c].task
      refused == ~Exists(t) \/ ~free \/ t \in files
  IN  /\ call[c].at = "get" /\ call[c].op = "run"
      /\ pending' = IF refused THEN pending ELSE pending \cup {t}
      /\ dirty' = IF refused \/ ready THEN dirty ELSE dirty \cup {Account[t]}
      /\ IF refused \/ ~ready THEN Call(c, Idle) ELSE Goto(c, "start")
      /\ UNCHANGED <<row, marks, files, envVars, tick, stale, run>>

Save(c) ==
  LET t == call[c].task
  IN  /\ call[c].at = "put" /\ Store(t, call[c].value) /\ run' = Owe(t, call[c].value)
      /\ IF call[c].op = "pause" THEN Goto(c, "peek") ELSE Call(c, Idle)
      /\ files' = IF call[c].op = "update" THEN files \ {t} ELSE files
      /\ UNCHANGED <<marks, pending, dirty, envVars, tick, stale>>

\* ForceStopTask: the cancel function is taken under s.mu, and used after the row
\* has been read once more.
AfterStop(c) ==
  CASE call[c].op = "toggle" -> [call[c] EXCEPT !.at = "put"]
    [] call[c].op = "delete" -> [call[c] EXCEPT !.at = "erase"]
    [] OTHER -> Idle
Peek(c) ==
  LET t == call[c].task
  IN  /\ call[c].at = "peek"
      /\ Call(c, IF t \in marks.running THEN [call[c] EXCEPT !.at = "drop", !.cancel = marks.cancel[t]]
                 ELSE AfterStop(c))
      /\ UNCHANGED <<row, ownVars, envVars, tick, stale, run>>
Drop(c) ==
  LET t == call[c].task
      i == call[c].cancel
  IN  /\ call[c].at = "drop" /\ Call(c, AfterStop(c))
      /\ IF Exists(t)
         THEN /\ run' = IF i \in Slots THEN [run EXCEPT ![i].canceled = TRUE] ELSE run
              /\ Unmark(t)
         ELSE UNCHANGED <<run, marks, pending>>
      /\ UNCHANGED <<row, dirty, files, envVars, tick, stale>>

\* DeleteTask
Erase(c) ==
  /\ call[c].at = "erase" /\ row' = [row EXCEPT ![call[c].task] = "gone"] /\ Goto(c, "wipe")
  /\ UNCHANGED <<ownVars, envVars, tick, stale, run>>
Wipe(c) ==
  /\ call[c].at = "wipe" /\ Unmark(call[c].task) /\ Call(c, Idle)
  /\ UNCHANGED <<row, dirty, files, envVars, tick, stale, run>>

-----------------------------------------------------------------------------
(***************************************************************************)
(* The goroutine of a run                                                  *)
(***************************************************************************)
To(i, at) == run' = [run EXCEPT ![i].at = at]
ofRun == <<pending, dirty, files, envVars, tick, stale, call>>
Register(i) ==
  /\ run[i].at = "register" /\ To(i, "open")
  /\ marks' = [marks EXCEPT !.cancel[run[i].task] = i]
  /\ UNCHANGED <<ofRun, row>>
Open(i) ==
  /\ run[i].at = "open" /\ To(i, "scan") /\ Store(run[i].task, "running")
  /\ UNCHANGED <<ofRun, marks>>

\* The scan ends: well, with an error, because it was canceled, or because the
\* account is not authenticated.
Scan(i) ==
  /\ run[i].at = "scan"
  /\ To(i, "read") \/ (~run[i].canceled /\ To(i, "authGet"))
  /\ UNCHANGED <<ofRun, row, marks>>

\* finalizeScanPersist: a row that is paused stays so.
FinalIgnoresPause(t) == "active"
Final(t) == IF row[t] \in Paused THEN row[t] ELSE "active"
Read(i) ==
  LET t == run[i].task
  IN  /\ run[i].at = "read"
      /\ IF Exists(t) THEN run' = [run EXCEPT ![i].at = "write", ![i].read = Final(t)] ELSE To(i, "clear")
      /\ UNCHANGED <<ofRun, row, marks>>
Write(i) ==
  LET t == run[i].task
  IN  /\ run[i].at = "write" /\ Store(t, run[i].read) /\ To(i, "clear")
      /\ UNCHANGED <<ofRun, marks>>

\* PauseTask of the run itself, which stops it too.
AuthGet(i) ==
  /\ run[i].at = "authGet"
  /\ To(i, IF Exists(run[i].task) /\ row[run[i].task] \notin Paused THEN "authPut" ELSE "clear")
  /\ UNCHANGED <<ofRun, row, marks>>
AuthPut(i) ==
  /\ run[i].at = "authPut" /\ Store(run[i].task, "auth") /\ To(i, "peek")
  /\ UNCHANGED <<ofRun, marks>>
PeekOwn(i) ==
  /\ run[i].at = "peek" /\ To(i, IF run[i].task \in marks.running THEN "drop" ELSE "clear")
  /\ UNCHANGED <<ofRun, row, marks>>
DropOwn(i) ==
  /\ run[i].at = "drop" /\ To(i, "clear")
  /\ IF Exists(run[i].task) THEN Unmark(run[i].task) ELSE UNCHANGED <<marks, pending>>
  /\ UNCHANGED <<row, dirty, files, envVars, tick, stale, call>>

Clear(i) ==
  /\ run[i].at = "clear" /\ To(i, "release") /\ Unmark(run[i].task)
  /\ UNCHANGED <<row, dirty, files, envVars, tick, stale, call>>

\* The slot may be used again: a cancel function that is still held does nothing.
Release(i) ==
  /\ run[i].at = "release" /\ files' = files \ {run[i].task}
  /\ run' = [run EXCEPT ![i] = NoRun]
  /\ call' = [c \in DOMAIN call |-> IF call[c].at # "idle" /\ call[c].cancel = i
                                    THEN [call[c] EXCEPT !.cancel = 0] ELSE call[c]]
  /\ UNCHANGED <<row, marks, pending, dirty, envVars, tick, stale>>

-----------------------------------------------------------------------------
(***************************************************************************)
(* The rest of the program                                                 *)
(***************************************************************************)
Ready ==
  /\ ~ready /\ ready' = TRUE
  /\ UNCHANGED <<row, ownVars, restarts, tick, stale, run, call>>
OnFileMutated(a) ==
  /\ a \notin dirty /\ dirty' = dirty \cup {a}
  /\ UNCHANGED <<row, marks, pending, files, envVars, tick, stale, run, call>>

\* FixStaleRunningAsync: a row that says running and has no run.
NoticeStale(t) ==
  /\ row[t] = "running" /\ t \notin marks.running /\ stale' = stale \cup {t}
  /\ t \notin stale
  /\ UNCHANGED <<row, ownVars, envVars, tick, run, call>>
FixStale(t) ==
  /\ t \in stale /\ stale' = stale \ {t} /\ Store(t, "active") /\ run' = Owe(t, "active")
  /\ UNCHANGED <<ownVars, envVars, tick, call>>

\* The process ends anywhere; the next one lists the rows that say running.
Restart ==
  /\ restarts < Restarts /\ restarts' = restarts + 1
  /\ stale' = {t \in Tasks : row[t] = "running"}
  /\ marks' = NoMarks /\ pending' = {} /\ dirty' = {} /\ files' = {} /\ tick' = {}
  /\ ready' = FALSE
  /\ run' = [i \in Slots |-> NoRun] /\ call' = [c \in DOMAIN call |-> Idle]
  /\ UNCHANGED row

Starts(c) == (\E free \in BOOLEAN : Start(c, free)) \/ Mark(c)
Handles(c) == Get(c) \/ (\E free \in BOOLEAN : RunTaskNow(c, free)) \/ Save(c) \/ Peek(c) \/ Drop(c) \/ Erase(c) \/ Wipe(c)
RunStep(i) ==
  \/ Register(i) \/ Open(i) \/ Scan(i) \/ Read(i) \/ Write(i)
  \/ AuthGet(i) \/ AuthPut(i) \/ PeekOwn(i) \/ DropOwn(i) \/ Clear(i) \/ Release(i)
Next ==
  \/ Tick \/ \E t \in Tasks, auto, elapsed, free \in BOOLEAN : Judge(t, auto, elapsed, free)
  \/ \E t \in Tasks : Create(t) \/ NoticeStale(t) \/ FixStale(t)
  \/ \E c \in Callers, op \in Ops, t \in Tasks : Begin(c, op, t)
  \/ \E c \in Callers : Handles(c)
  \/ \E c \in Callers \cup {Scheduler} : Starts(c)
  \/ \E i \in Slots : RunStep(i)
  \/ \E a \in Accounts : OnFileMutated(a)
  \/ Ready \/ Restart

Spec == Init /\ [][Next]_vars

\* Scans end and goroutines run on.
Fairness ==
  /\ \A i \in Slots : WF_vars(RunStep(i))
  /\ \A c \in Callers : WF_vars(Handles(c) \/ Starts(c))
  /\ WF_vars(Starts(Scheduler))
FairSpec == Spec /\ Fairness

-----------------------------------------------------------------------------
WorksOn(i, t) == run[i].at # "none" /\ run[i].task = t

\* A task's files have one owner: no two runs of a task side by side, not even
\* one that was stopped and one that was started since, and no change of its
\* settings, which may move its directory, meanwhile (service.go:464).
FilesHaveOneOwner ==
  \A t \in Tasks :
    Cardinality({i \in Slots : WorksOn(i, t)}
                \cup {c \in Callers : call[c].at # "idle" /\ call[c].op = "update" /\ call[c].task = t}) <= 1

\* A mark never outlives its run: it would keep the scheduler of this service,
\* of cache retention or of RunTaskNow from the account or the task for ever.
NoStuckMarks ==
  /\ \A t \in marks.running : \E i \in Slots : WorksOn(i, t) /\ run[i].at \in Marked
  /\ \A a \in marks.accounts : \E i \in Slots : run[i].at \in Marked /\ Account[run[i].task] = a

\* A pause stored while a task is scanned outlives the end of the scan, which
\* writes the status too (service_pause_test.go:44).
ScanEndKeepsPause ==
  [][\A i \in Slots : run[i].at = "write" /\ run[i].owed /\ run'[i].at = "clear"
                      => row'[run[i].task] \notin {"active", "running"}]_vars

\* An account that a run has taken is free again some time, whatever stops the
\* run and however it ends.
AccountIsFreed == \A a \in Accounts : []<>(a \notin marks.accounts)

\* No step of a run takes a task out of its pause (service_pause.go:27).
RunsKeepPauses ==
  [][\A i \in Slots : run[i].at \in {"open", "write"} /\ run'[i] # run[i] /\ row[run[i].task] \in Paused
                      => row'[run[i].task] \in Paused]_vars

\* Runs of one account come one after the other (service_schedule_test.go:111);
\* one that was told to stop may still be ending.
AccountIsSerial ==
  \A i, j \in Slots :
    /\ run[i].at \in Marked /\ run[j].at \in Marked /\ ~run[i].canceled /\ ~run[j].canceled
    /\ Account[run[i].task] = Account[run[j].task]
    => i = j

=============================================================================

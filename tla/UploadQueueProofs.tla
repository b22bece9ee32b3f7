------------------------- MODULE UploadQueueProofs -------------------------
(***************************************************************************)
(* Proofs about UploadQueue, for every set of tasks, batches, handlers and *)
(* limits.                                                                 *)
(***************************************************************************)
EXTENDS UploadQueue, FiniteSetTheorems, TLAPS

-----------------------------------------------------------------------------
(***************************************************************************)
(* Type correctness.                                                       *)
(***************************************************************************)
LEMMA StatusValues ==
  /\ "pending" \in Statuses /\ "running" \in Statuses /\ "paused" \in Statuses
  /\ "failed" \in Statuses /\ "canceled" \in Statuses /\ "success" \in Statuses
  /\ "gone" \in Statuses /\ "none" \in Statuses
  BY DEF Statuses, Active, Stopped, Absent

LEMMA Constants ==
  /\ MaxRun \in Nat /\ MaxRun > 0 /\ 0 \in 0..MaxRun /\ 1 \in 0..MaxRun
  /\ \A b \in Batches : b \in Seq(Tasks)
  /\ Limits \subseteq Nat
  BY QueueAssumption

LEMMA RunParts == ASSUME NEW r \in Runs PROVE r[1] \in Tasks /\ r[2] \in 1..MaxRun
  BY DEF Runs

LEMMA RunIsNotNil == ASSUME NEW r \in Runs PROVE r # NoRun
  BY DEF Runs, NoRun

\* What a call in progress knows, by its op.
LEMMA CallFields ==
  ASSUME NEW k \in CallState
  PROVE  /\ k.op \in {"pauseCancel", "delCancel"} =>
              /\ k.t \in Tasks /\ k.run \in 0..MaxRun
              /\ k.cancel \in Runs \cup {NoRun}
         /\ k.op \in {"resumeWait", "delWait"} => k.t \in Tasks /\ k.run \in 0..MaxRun
         /\ k.op = "delPop" => k.t \in Tasks
  BY DEF CallState, Idle

LEMMA WokenType == ASSUME NEW p \in [Runs -> PCs] PROVE Woken(p) \in [Runs -> PCs]
  BY DEF Woken, PCs

\* What the workers write into a task record.
LEMMA WorkerRecords ==
  ASSUME NEW s \in TaskState, NEW r \in Runs, NEW p \in {"downloading", "uploading"},
         NEW v \in {"pending", "running", "paused", "failed", "canceled", "success"}
  PROVE  /\ [s EXCEPT !.prio = FALSE, !.cancel = r] \in TaskState
         /\ [s EXCEPT !.cancel = NoRun] \in TaskState
         /\ [s EXCEPT !.status = v] \in TaskState
         /\ [s EXCEPT !.status = v, !.phase = p] \in TaskState
  BY StatusValues DEF TaskState

\* What the handlers write into a task record.
LEMMA HandlerRecords ==
  ASSUME NEW s \in TaskState
  PROVE  /\ [s EXCEPT !.status = "paused", !.mode = "pause", !.prio = FALSE] \in TaskState
         /\ [s EXCEPT !.status = "failed"] \in TaskState
         /\ [s EXCEPT !.mode = "delete",
                      !.status = IF s.status \in Active THEN "canceled" ELSE s.status]
              \in TaskState
         /\ [s EXCEPT !.mode = "pause"] \in TaskState
         /\ Dropped(s) \in TaskState
<1>1. [s EXCEPT !.mode = "delete",
                !.status = IF s.status \in Active THEN "canceled" ELSE s.status]
              \in TaskState
  BY StatusValues DEF TaskState
<1>2. Dropped(s) \in TaskState
  BY StatusValues DEF TaskState, Dropped
<1> QED
  BY <1>1, <1>2, StatusValues DEF TaskState

LEMMA QueuedRecords ==
  ASSUME NEW s \in TaskState, NEW n \in Nat, NEW m \in 0..MaxRun,
         NEW p \in {"downloading", "uploading"}
  PROVE  /\ [s EXCEPT !.order = n, !.status = "pending", !.prio = TRUE, !.mode = "",
                      !.run = m] \in TaskState
         /\ [s EXCEPT !.status = "pending", !.phase = p, !.order = n, !.run = m]
              \in TaskState
  BY StatusValues DEF TaskState

LEMMA TypeInit == Init => TypeOK
<1> SUFFICES ASSUME Init PROVE TypeOK
  OBVIOUS
<1> DEFINE new == [status |-> "none", phase |-> "uploading", prio |-> FALSE,
                   order |-> 0, mode |-> "", run |-> 0, cancel |-> NoRun]
<1>1. new \in TaskState
  BY StatusValues, Constants DEF TaskState
<1>2. task \in [Tasks -> TaskState]
  BY <1>1 DEF Init
<1>3. gateOpen \in BOOLEAN /\ queueOrder \in Nat /\ open \subseteq Batches
  BY QueueAssumption DEF Init
<1>4. pc \in [Runs -> PCs] /\ call \in [Callers -> CallState]
  BY DEF Init, PCs, CallState
<1> QED
  BY <1>2, <1>3, <1>4 DEF Init, TypeOK

\* A worker about to write its verdict has one: this is what makes TypeOK
\* inductive, since the verdict becomes the status of the task.
NoteReady ==
  \A r \in Runs :
    pc[r] \in {"dlPatch", "upPatch"} =>
      note[r] \in {"paused", "canceled", "failed", "success"}

LEMMA WorkerType ==
  ASSUME TypeOK, NoteReady, NEW r \in Runs, Worker(r)
  PROVE  TypeOK'
<1> DEFINE t == r[1]
           Typed == task \in [Tasks -> TaskState]
<1>0. t \in Tasks /\ task[t] \in TaskState /\ r \in Runs \cup {NoRun}
  BY RunParts DEF TypeOK
<1>a. <<r[1], task[r[1]].run>> \in Channels
  BY <1>0 DEF TaskState, Channels
<1>b. task[t].mode \in {"", "pause", "delete"}
  BY <1>0 DEF TaskState
<1> USE DEF taskVars, slotVars, runVars, mgrVars, Go
<1>1. CASE RunStart(r)
  BY <1>0, <1>1, <1>a DEF RunStart, PCs, TypeOK
<1>2. CASE RunGate(r)
  BY <1>2 DEF RunGate, PCs, TypeOK
<1>3. CASE Acquire(r)
  <2>1. Typed'
    BY <1>0, <1>3, WorkerRecords DEF Acquire, TypeOK
  <2>2. runningUploads' \in Nat /\ runningDownloads' \in Nat
    <3>1. \/ runningDownloads' = runningDownloads + 1 /\ UNCHANGED runningUploads
          \/ runningUploads' = runningUploads + 1 /\ UNCHANGED runningDownloads
      BY <1>3 DEF Acquire
    <3>2. runningUploads \in Nat /\ runningDownloads \in Nat
      BY DEF TypeOK
    <3> QED
      BY <3>1, <3>2
  <2>3. pc' \in [Runs -> PCs]
    BY <1>3 DEF Acquire, TypeOK, PCs, DownloadPCs, UploadPCs
  <2> QED
    BY <1>3, <2>1, <2>2, <2>3 DEF Acquire, TypeOK
<1>4. CASE Park(r)
  BY <1>4 DEF Park, PCs, TypeOK
<1>5. CASE GiveUp(r)
  BY <1>5 DEF GiveUp, PCs, TypeOK
<1>6. CASE Release(r)
  <2>1. runningUploads' \in Nat /\ runningDownloads' \in Nat
    <3>1. \A n \in Nat : Decremented(n) \in Nat
      BY DEF Decremented
    <3> QED
      BY <1>6, <3>1 DEF Release, TypeOK
  <2>2. pc' \in [Runs -> PCs]
    BY <1>6, WokenType DEF Release, AfterRelease, PCs, TypeOK
  <2> QED
    BY <1>6, <2>1, <2>2 DEF Release, TypeOK
<1>7. CASE Exit(r)
  <2>1. Typed'
    BY <1>0, <1>7, WorkerRecords DEF Exit, TypeOK
  <2> QED
    BY <1>7, <2>1 DEF Exit, PCs, ClosedBy, TypeOK
<1>8. CASE TransferRefused(r)
  <2>1. Typed'
    BY <1>0, <1>8, WorkerRecords DEF TransferRefused, Patch, TypeOK
  <2> QED
    BY <1>8, <2>1 DEF TransferRefused, PCs, DownloadPCs, UploadPCs, TypeOK
<1>9. CASE TransferStart(r)
  <2>1. Typed'
    BY <1>0, <1>9, WorkerRecords DEF TransferStart, TypeOK
  <2> QED
    BY <1>9, <2>1 DEF TransferStart, PCs, DownloadPCs, UploadPCs, TypeOK
<1>10. CASE Progress(r)
  <2>1. Typed'
    BY <1>0, <1>10, WorkerRecords DEF Progress, TypeOK
  <2> QED
    BY <1>10, <2>1 DEF Progress, TypeOK
<1>11. CASE TransferFails(r)
  BY <1>0, <1>b, <1>11 DEF TransferFails, PCs, DownloadPCs, UploadPCs, TypeOK
<1>12. CASE FailureVerdict(r)
  BY <1>12 DEF FailureVerdict, Verdict, PCs, DownloadPCs, UploadPCs, TypeOK
<1>13. CASE UploadSucceeds(r)
  BY <1>13 DEF UploadSucceeds, PCs, UploadPCs, TypeOK
<1>14. CASE TransferPatch(r)
  <2>1. note[r] \in {"paused", "canceled", "failed", "success"}
    BY <1>14 DEF TransferPatch, NoteReady
  <2>2. Typed'
    <3> DEFINE rec == [task[t] EXCEPT !.status = note[r],
                 !.phase = IF pc[r] = "dlPatch" THEN "downloading"
                           ELSE IF note[r] = "success" THEN "uploading" ELSE task[t].phase]
    <3>1. rec \in TaskState
      BY <1>0, <2>1, StatusValues DEF TaskState
    <3> QED
      BY <1>0, <1>14, <3>1 DEF TransferPatch, Patch, TypeOK
  <2> QED
    BY <1>14, <2>2 DEF TransferPatch, PCs, DownloadPCs, UploadPCs, TypeOK
<1>15. CASE DownloadSucceeds(r)
  <2>1. Typed'
    BY <1>0, <1>15, WorkerRecords DEF DownloadSucceeds, Patch, TypeOK
  <2> QED
    BY <1>15, <2>1 DEF DownloadSucceeds, PCs, DownloadPCs, TypeOK
<1> QED
  BY <1>1, <1>2, <1>3, <1>4, <1>5, <1>6, <1>7, <1>8, <1>9, <1>10, <1>11, <1>12,
     <1>13, <1>14, <1>15 DEF Worker

LEMMA HandlerType ==
  ASSUME TypeOK, NEW c \in Callers, Handler(c)
  PROVE  TypeOK'
<1> DEFINE k == call[c]
           Typed == task \in [Tasks -> TaskState]
<1>0. k \in CallState /\ \A t \in Tasks : task[t] \in TaskState
  BY DEF TypeOK
<1>a. \A t \in Tasks : task[t].run \in 0..MaxRun /\ task[t].cancel \in Runs \cup {NoRun}
  BY <1>0 DEF TaskState
<1> USE DEF taskVars, slotVars, runVars, mgrVars, Begin, Return
<1>1. ASSUME NEW t \in Tasks, Pause(c, t) PROVE TypeOK'
  <2>1. Typed'
    BY <1>0, <1>1, HandlerRecords DEF Pause, TypeOK
  <2>2. call' \in [Callers -> CallState]
    BY <1>a, <1>1 DEF Pause, TypeOK, CallState
  <2> QED
    BY <1>1, <2>1, <2>2 DEF Pause, TypeOK
<1>2. ASSUME NEW t \in Tasks, Resume(c, t) PROVE TypeOK'
  BY <1>a, <1>2 DEF Resume, CallState, TypeOK
<1>3. ASSUME NEW t \in Tasks, Delete(c, t) PROVE TypeOK'
  <2>1. CASE NothingToStop(t)
    <3>1. call' = [call EXCEPT ![c] = [op |-> "delPop", t |-> t]] /\ UNCHANGED task
      BY <1>3, <2>1 DEF Delete
    <3>2. call' \in [Callers -> CallState]
      BY <3>1 DEF TypeOK, CallState
    <3> QED
      BY <1>3, <3>1, <3>2 DEF Delete, TypeOK
  <2>2. CASE ~NothingToStop(t)
    <3> DEFINE rec == [task[t] EXCEPT !.mode = "delete",
                         !.status = IF task[t].status \in Active THEN "canceled"
                                    ELSE task[t].status]
               next == [op |-> "delCancel", t |-> t, run |-> task[t].run,
                        cancel |-> task[t].cancel]
    <3>1. task' = [task EXCEPT ![t] = rec] /\ call' = [call EXCEPT ![c] = next]
      BY <1>3, <2>2 DEF Delete
    <3>2. rec \in TaskState
      BY <1>0, HandlerRecords
    <3>3. next \in CallState
      BY <1>a DEF CallState
    <3>4. Typed' /\ call' \in [Callers -> CallState]
      BY <3>1, <3>2, <3>3 DEF TypeOK
    <3> QED
      BY <1>3, <3>4 DEF Delete, TypeOK
  <2> QED
    BY <2>1, <2>2
<1>4. CASE CallCancel(c)
  <2>1. k.t \in Tasks /\ k.run \in 0..MaxRun /\ k.cancel \in Runs \cup {NoRun}
    BY <1>0, <1>4, CallFields DEF CallCancel
  <2>2. canceled' \subseteq Runs
    BY <1>4, <2>1 DEF CallCancel, CancelCalled, TypeOK
  <2>3. call' \in [Callers -> CallState]
    <3>1. /\ Idle \in CallState
          /\ [op |-> "delWait", t |-> k.t, run |-> k.run] \in CallState
      BY <2>1 DEF CallState
    <3> QED
      BY <1>4, <3>1 DEF CallCancel, TypeOK
  <2>4. pc' \in [Runs -> PCs]
    BY <1>4, WokenType DEF CallCancel, TypeOK
  <2> QED
    BY <1>4, <2>2, <2>3, <2>4 DEF CallCancel, TypeOK
<1>5. CASE ResumeQueue(c)
  <2>1. k.t \in Tasks
    BY <1>0, <1>5, CallFields DEF ResumeQueue
  <2>2. call' \in [Callers -> CallState]
    BY <1>5 DEF ResumeQueue, CallState, TypeOK
  <2>3. CASE UNCHANGED <<task, queueOrder, pc>>
    BY <1>5, <2>2, <2>3 DEF ResumeQueue, TypeOK
  <2>4. CASE task' = [task EXCEPT ![k.t].status = "failed"] /\ UNCHANGED <<queueOrder, pc>>
    <3>1. Typed'
      BY <1>0, <2>1, <2>4, HandlerRecords DEF TypeOK
    <3> QED
      BY <1>5, <2>2, <2>4, <3>1 DEF ResumeQueue, TypeOK
  <2>5. CASE /\ task[k.t].run < MaxRun
             /\ queueOrder' = queueOrder + 1
             /\ task' = [task EXCEPT ![k.t] = [@ EXCEPT !.order = queueOrder + 1,
                  !.status = "pending", !.prio = TRUE, !.mode = "", !.run = NextRun(k.t)]]
             /\ Go(<<k.t, NextRun(k.t)>>, "start")
    <3>1. NextRun(k.t) \in 1..MaxRun /\ NextRun(k.t) \in 0..MaxRun /\ queueOrder' \in Nat
      <4>1. task[k.t].run \in 0..MaxRun /\ task[k.t].run < MaxRun
        BY <1>a, <2>1, <2>5
      <4>2. queueOrder \in Nat /\ queueOrder' = queueOrder + 1
        BY <2>5 DEF TypeOK
      <4> QED
        BY <4>1, <4>2, Constants DEF NextRun
    <3>2. Typed'
      BY <1>0, <2>1, <2>5, <3>1, QueuedRecords DEF TypeOK
    <3>3. pc' \in [Runs -> PCs]
      BY <2>1, <2>5, <3>1 DEF Go, TypeOK, PCs, Runs
    <3> QED
      BY <1>5, <2>2, <3>1, <3>2, <3>3 DEF ResumeQueue, TypeOK
  <2> QED
    BY <1>5, <2>3, <2>4, <2>5 DEF ResumeQueue
<1>6. CASE ResumeAbandoned(c) \/ DeleteTimeout(c)
  BY <1>6 DEF ResumeAbandoned, DeleteTimeout, CallState, TypeOK
<1>7. CASE DeleteWaited(c)
  BY <1>0, <1>7, CallFields DEF DeleteWaited, CallState, TypeOK
<1>8. CASE DeletePop(c)
  <2>1. Typed'
    BY <1>0, <1>8, CallFields, HandlerRecords DEF DeletePop, TypeOK
  <2> QED
    BY <1>8, <2>1 DEF DeletePop, CallState, TypeOK
<1> QED
  BY <1>1, <1>2, <1>3, <1>4, <1>5, <1>6, <1>7, <1>8 DEF Handler

LEMMA ServiceType ==
  ASSUME TypeOK, Service
  PROVE  TypeOK'
<1> DEFINE Typed == task \in [Tasks -> TaskState]
<1>0. \A t \in Tasks : task[t] \in TaskState
  BY DEF TypeOK
<1> USE DEF taskVars, slotVars, runVars, mgrVars
<1>1. ASSUME NEW b \in Batches, Create(b) PROVE TypeOK'
  <2>1. b \in Seq(Tasks) /\ Len(b) \in Nat /\ DOMAIN b = 1..Len(b)
    BY Constants
  <2>2. ASSUME NEW t \in Tasks PROVE task'[t] \in TaskState
    <3>1. CASE \E i \in DOMAIN b : b[i] = t
      <4> DEFINE n == queueOrder + (CHOOSE i \in DOMAIN b : b[i] = t)
                 p == IF t \in Cross THEN "downloading" ELSE "uploading"
      <4>1. (CHOOSE i \in DOMAIN b : b[i] = t) \in DOMAIN b
        BY <3>1
      <4>2. n \in Nat /\ p \in {"downloading", "uploading"} /\ 1 \in 0..MaxRun
        <5>1. queueOrder \in Nat
          BY DEF TypeOK
        <5>2. \A i \in 1..Len(b) : i \in Nat
          BY <2>1
        <5>3. (CHOOSE i \in DOMAIN b : b[i] = t) \in Nat
          BY <2>1, <4>1, <5>2
        <5> QED
          BY <5>1, <5>3, Constants
      <4>3. [task[t] EXCEPT !.status = "pending", !.phase = p, !.order = n, !.run = 1]
               \in TaskState
        BY <1>0, <4>2, QueuedRecords
      <4> QED
        BY <1>1, <3>1, <4>3 DEF Create
    <3>2. CASE ~ \E i \in DOMAIN b : b[i] = t
      BY <1>0, <1>1, <3>2 DEF Create
    <3> QED
      BY <3>1, <3>2
  <2>3. Typed'
    <3>1. task' = [t \in Tasks |-> task'[t]]
      BY <1>1 DEF Create
    <3> QED
      BY <2>2, <3>1
  <2>4. queueOrder' \in Nat
    <3>1. queueOrder \in Nat /\ queueOrder' = queueOrder + Len(b)
      BY <1>1 DEF Create, TypeOK
    <3> QED
      BY <2>1, <3>1
  <2> QED
    BY <1>1, <2>3, <2>4 DEF Create, TypeOK
<1>2. ASSUME NEW b \in Batches, CreateStart(b) PROVE TypeOK'
  BY <1>2 DEF CreateStart, TypeOK, PCs
<1>3. ASSUME NEW b \in Batches, CreateRollback(b) PROVE TypeOK'
  <2>1. \A t \in Tasks : task[t] \in TaskState /\ Dropped(task[t]) \in TaskState
    BY <1>0, HandlerRecords
  <2>2. Typed'
    BY <1>3, <2>1 DEF CreateRollback
  <2> QED
    BY <1>3, <2>2 DEF CreateRollback, TypeOK
<1>4. ASSUME NEW l \in Limits, RefreshConcurrencyLimit(l) PROVE TypeOK'
  BY <1>4, WokenType DEF RefreshConcurrencyLimit, TypeOK
<1>5. CASE Stop
  <2>1. \A t \in Tasks : task[t] \in TaskState /\ [task[t] EXCEPT !.mode = "pause"] \in TaskState
    BY <1>0, HandlerRecords
  <2>2. Typed'
    BY <1>5, <2>1 DEF Stop
  <2> QED
    BY <1>5, <2>2, WokenType DEF Stop, TypeOK
<1>6. CASE OpenGate
  BY <1>6 DEF OpenGate, TypeOK
<1> QED
  BY <1>1, <1>2, <1>3, <1>4, <1>5, <1>6 DEF Service

\* Which steps bring a worker to its patch: only those that set its note.
LEMMA NoteStep == ASSUME TypeOK, NoteReady, [Next]_vars PROVE NoteReady'
<1> SUFFICES ASSUME NEW s \in Runs, pc'[s] \in {"dlPatch", "upPatch"}
             PROVE  note'[s] \in {"paused", "canceled", "failed", "success"}
  BY DEF NoteReady
<1> USE DEF TypeOK, taskVars, slotVars, runVars, mgrVars, Go
<1>1. CASE pc[s] \in {"dlPatch", "upPatch"} /\ note'[s] = note[s]
  BY <1>1 DEF NoteReady
<1>2. CASE UNCHANGED vars
  BY <1>1, <1>2 DEF vars
<1>3. ASSUME NEW r \in Runs, Worker(r) PROVE note'[s] \in {"paused", "canceled", "failed", "success"}
  <2>1. CASE FailureVerdict(r)
    BY <1>1, <2>1 DEF FailureVerdict, Verdict
  <2>2. CASE UploadSucceeds(r)
    BY <1>1, <2>2 DEF UploadSucceeds
  <2>3. CASE TransferFails(r)
    BY <1>1, <2>3 DEF TransferFails
  <2>4. CASE TransferPatch(r)
    BY <1>1, <2>4 DEF TransferPatch
  <2>5. CASE Release(r)
    BY <1>1, <2>5 DEF Release, Woken, AfterRelease
  <2>6. CASE \/ RunStart(r) \/ RunGate(r) \/ Acquire(r) \/ Park(r) \/ GiveUp(r) \/ Exit(r)
    BY <1>1, <2>6 DEF RunStart, RunGate, Acquire, Park, GiveUp, Exit
  <2>7. CASE \/ TransferRefused(r) \/ TransferStart(r) \/ Progress(r) \/ DownloadSucceeds(r)
    BY <1>1, <2>7 DEF TransferRefused, TransferStart, Progress, DownloadSucceeds
  <2> QED
    BY <1>3, <2>1, <2>2, <2>3, <2>4, <2>5, <2>6, <2>7 DEF Worker
<1>4. ASSUME NEW c \in Callers, Handler(c) PROVE note'[s] \in {"paused", "canceled", "failed", "success"}
  <2>1. CASE CallCancel(c)
    BY <1>1, <2>1 DEF CallCancel, Woken
  <2>2. CASE ResumeQueue(c)
    BY <1>1, <2>2 DEF ResumeQueue
  <2>3. CASE \/ \E t \in Tasks : Pause(c, t) \/ Resume(c, t) \/ Delete(c, t)
             \/ ResumeAbandoned(c) \/ DeleteWaited(c) \/ DeleteTimeout(c) \/ DeletePop(c)
    BY <1>1, <2>3 DEF Pause, Resume, Delete, ResumeAbandoned, DeleteWaited, DeleteTimeout, DeletePop
  <2> QED
    BY <1>4, <2>1, <2>2, <2>3 DEF Handler
<1>5. ASSUME Service PROVE note'[s] \in {"paused", "canceled", "failed", "success"}
  BY <1>1, <1>5 DEF Service, Create, CreateStart, CreateRollback, RefreshConcurrencyLimit,
                    Stop, OpenGate, Woken
<1> QED
  BY <1>2, <1>3, <1>4, <1>5 DEF Next

LEMMA TypeStep == ASSUME TypeOK, NoteReady, [Next]_vars PROVE TypeOK'
<1>1. CASE UNCHANGED vars
  BY <1>1 DEF TypeOK, vars, taskVars, slotVars, runVars, mgrVars
<1> QED
  BY <1>1, WorkerType, HandlerType, ServiceType DEF Next

-----------------------------------------------------------------------------
(***************************************************************************)
(* The slot counters and the two pools.                                    *)
(***************************************************************************)
Same(S) == Holders(S)' = Holders(S)
Entered(S, r) == r \notin Holders(S) /\ Holders(S)' = Holders(S) \cup {r}
Left(S, r) == r \in Holders(S) /\ Holders(S)' = Holders(S) \ {r}

\* All that a step does to the pools.
PoolStep ==
  \/ /\ Same(UploadPCs) /\ Same(DownloadPCs)
     /\ UNCHANGED <<runningUploads, runningDownloads>>
     /\ limit' \in Limits
  \/ \E r \in Runs :
       /\ UNCHANGED limit
       /\ \/ /\ Entered(UploadPCs, r) /\ Same(DownloadPCs)
             /\ runningUploads < limit
             /\ runningUploads' = runningUploads + 1 /\ UNCHANGED runningDownloads
          \/ /\ Entered(DownloadPCs, r) /\ Same(UploadPCs)
             /\ runningDownloads < limit
             /\ runningDownloads' = runningDownloads + 1 /\ UNCHANGED runningUploads
          \/ /\ Left(UploadPCs, r) /\ Same(DownloadPCs)
             /\ runningUploads' = Decremented(runningUploads)
             /\ UNCHANGED runningDownloads
          \/ /\ Left(DownloadPCs, r) /\ Same(UploadPCs)
             /\ runningDownloads' = Decremented(runningDownloads)
             /\ UNCHANGED runningUploads

LEMMA FiniteHolders == ASSUME NEW S PROVE IsFiniteSet(Holders(S))
<1>1. IsFiniteSet(Runs)
  <2>1. IsFiniteSet(Tasks)
    BY QueueAssumption
  <2>2. IsFiniteSet(1..MaxRun)
    BY Constants, FS_Interval
  <2> QED
    BY <2>1, <2>2, FS_Product DEF Runs
<1>2. Holders(S) \subseteq Runs
  BY DEF Holders
<1> QED
  BY <1>1, <1>2, FS_Subset

\* A worker that moves within, or outside, a set of control points.
LEMMA GoSame ==
  ASSUME TypeOK, NEW r \in Runs, NEW x, NEW S, Go(r, x), pc[r] \in S <=> x \in S
  PROVE  Same(S)
  BY DEF TypeOK, Go, Same, Holders

LEMMA WokenSame ==
  ASSUME TypeOK, NEW S, "wait" \notin S, "acquire" \notin S, pc' = Woken(pc)
  PROVE  Same(S)
  BY DEF TypeOK, Woken, Same, Holders

\* A step that moves one worker but takes or returns no slot.
QuietMove(r, x) ==
  /\ Go(r, x)
  /\ \/ pc[r] \in UploadPCs /\ x \in UploadPCs
     \/ pc[r] \in DownloadPCs /\ x \in DownloadPCs
     \/ {pc[r], x} \cap (UploadPCs \cup DownloadPCs) = {}

LEMMA QuietSame ==
  ASSUME TypeOK, NEW r \in Runs, NEW x, QuietMove(r, x)
  PROVE  Same(UploadPCs) /\ Same(DownloadPCs)
<1>1. Go(r, x) /\ (pc[r] \in UploadPCs <=> x \in UploadPCs)
               /\ (pc[r] \in DownloadPCs <=> x \in DownloadPCs)
  BY DEF QuietMove, UploadPCs, DownloadPCs
<1> QED
  BY <1>1, GoSame

LEMMA AcquirePool == ASSUME TypeOK, NEW r \in Runs, Acquire(r) PROVE PoolStep
<1>1. pc[r] = "acquire" /\ UNCHANGED limit
  BY DEF Acquire
<1>2. CASE Kind(r[1]) = "download"
  <2>1. /\ Go(r, "dlInit") /\ runningDownloads < limit
        /\ runningDownloads' = runningDownloads + 1 /\ UNCHANGED runningUploads
    BY <1>2 DEF Acquire, SlotFree
  <2>2. Same(UploadPCs)
    BY <1>1, <2>1, GoSame DEF UploadPCs
  <2>3. Entered(DownloadPCs, r)
    BY <1>1, <2>1 DEF Entered, Holders, Go, DownloadPCs, TypeOK
  <2> QED
    BY <1>1, <2>1, <2>2, <2>3 DEF PoolStep
<1>3. CASE Kind(r[1]) = "upload"
  <2>1. /\ Go(r, "upInit") /\ runningUploads < limit
        /\ runningUploads' = runningUploads + 1 /\ UNCHANGED runningDownloads
    BY <1>3 DEF Acquire, SlotFree
  <2>2. Same(DownloadPCs)
    BY <1>1, <2>1, GoSame DEF DownloadPCs
  <2>3. Entered(UploadPCs, r)
    BY <1>1, <2>1 DEF Entered, Holders, Go, UploadPCs, TypeOK
  <2> QED
    BY <1>1, <2>1, <2>2, <2>3 DEF PoolStep
<1> QED
  BY <1>2, <1>3 DEF Kind

LEMMA ReleasePool == ASSUME TypeOK, NEW r \in Runs, Release(r) PROVE PoolStep
<1>1. /\ pc[r] \in {"dlRel", "dlNext", "upRel"} /\ UNCHANGED limit
      /\ pc' = [Woken(pc) EXCEPT ![r] = AfterRelease(r)]
  BY DEF Release
<1>2. AfterRelease(r) \in {"acquire", "exit"}
  BY DEF AfterRelease
<1>3. \A s \in Runs \ {r} : pc'[s] = IF pc[s] = "wait" THEN "acquire" ELSE pc[s]
  BY <1>1 DEF Woken
<1>4. pc'[r] \in {"acquire", "exit"}
  BY <1>1, <1>2 DEF Woken
<1>5. CASE pc[r] = "upRel"
  <2>1. /\ runningUploads' = Decremented(runningUploads) /\ UNCHANGED runningDownloads
    BY <1>5 DEF Release, HeldKind, DownloadPCs
  <2>2. Same(DownloadPCs)
    BY <1>3, <1>4, <1>5 DEF Same, Holders, DownloadPCs
  <2>3. Left(UploadPCs, r)
    BY <1>3, <1>4, <1>5 DEF Left, Holders, UploadPCs
  <2> QED
    BY <1>1, <2>1, <2>2, <2>3 DEF PoolStep
<1>6. CASE pc[r] \in {"dlRel", "dlNext"}
  <2>1. /\ runningDownloads' = Decremented(runningDownloads) /\ UNCHANGED runningUploads
    BY <1>6 DEF Release, HeldKind, DownloadPCs
  <2>2. Same(UploadPCs)
    BY <1>3, <1>4, <1>6 DEF Same, Holders, UploadPCs
  <2>3. Left(DownloadPCs, r)
    BY <1>3, <1>4, <1>6 DEF Left, Holders, DownloadPCs
  <2> QED
    BY <1>1, <2>1, <2>2, <2>3 DEF PoolStep
<1> QED
  BY <1>1, <1>5, <1>6

LEMMA WorkerPool == ASSUME TypeOK, NEW r \in Runs, Worker(r) PROVE PoolStep
<1> USE DEF taskVars, slotVars, runVars, mgrVars
<1>1. CASE (\E x : QuietMove(r, x)) /\ UNCHANGED slotVars
  BY <1>1, QuietSame DEF PoolStep, TypeOK
<1>2. CASE Progress(r)
  BY <1>2 DEF Progress, PoolStep, Same, Holders, TypeOK
<1> USE DEF QuietMove, DownloadPCs, UploadPCs
<1>3. CASE RunStart(r) \/ RunGate(r)
  BY <1>1, <1>3 DEF RunStart, RunGate
<1>4. CASE Park(r) \/ GiveUp(r) \/ Exit(r)
  BY <1>1, <1>4 DEF Park, GiveUp, Exit
<1>5. CASE TransferRefused(r)
  BY <1>1, <1>5 DEF TransferRefused
<1>6. CASE TransferStart(r)
  BY <1>1, <1>6 DEF TransferStart
<1>7. CASE TransferFails(r)
  BY <1>1, <1>7 DEF TransferFails
<1>8. CASE FailureVerdict(r)
  BY <1>1, <1>8 DEF FailureVerdict
<1>9. CASE UploadSucceeds(r)
  BY <1>1, <1>9 DEF UploadSucceeds
<1>10. CASE TransferPatch(r)
  BY <1>1, <1>10 DEF TransferPatch
<1>11. CASE DownloadSucceeds(r)
  BY <1>1, <1>11 DEF DownloadSucceeds
<1> QED
  BY <1>2, <1>3, <1>4, <1>5, <1>6, <1>7, <1>8, <1>9, <1>10, <1>11,
     AcquirePool, ReleasePool DEF Worker

\* The runs that have not begun: those after the present one of their task, and
\* the first of a task whose createBatch has not returned.  Without this the
\* model would allow a start to overwrite a worker that holds a slot.
RunsFresh ==
  /\ \A t \in Tasks : task[t].status = "none" <=> task[t].run = 0
  /\ \A r \in Runs : r[2] > task[r[1]].run => pc[r] = "none"
  /\ \A b \in open : \A i \in DOMAIN b :
       task[b[i]].run # 0 /\ pc[<<b[i], 1>>] = "none"
  /\ \A b, d \in open : \A i \in DOMAIN b, j \in DOMAIN d : b[i] = d[j] => b = d

LEMMA HandlerPool == ASSUME TypeOK, RunsFresh, NEW c \in Callers, Handler(c) PROVE PoolStep
<1> USE DEF taskVars, slotVars, runVars, mgrVars
<1>1. CASE UNCHANGED <<pc, slotVars>>
  BY <1>1 DEF PoolStep, Same, Holders, TypeOK
<1>2. CASE CallCancel(c)
  <2>1. pc' = Woken(pc) /\ UNCHANGED slotVars
    BY <1>2 DEF CallCancel
  <2> QED
    BY <2>1, WokenSame DEF PoolStep, TypeOK, UploadPCs, DownloadPCs
<1>3. CASE ResumeQueue(c)
  <2> DEFINE t == call[c].t
             s == <<t, NextRun(t)>>
  <2>1. CASE UNCHANGED pc
    BY <1>1, <1>3, <2>1 DEF ResumeQueue
  <2>2. CASE Go(s, "start") /\ task[t].run < MaxRun
    <3>1. t \in Tasks /\ call[c] \in CallState
      BY <1>3, CallFields DEF ResumeQueue, TypeOK
    <3>2. task[t].run \in 0..MaxRun
      BY <3>1 DEF TypeOK, TaskState
    <3>3. s \in Runs /\ NextRun(t) > task[t].run
      BY <2>2, <3>1, <3>2, Constants DEF Runs, NextRun
    <3>4. pc[s] = "none"
      BY <3>3 DEF RunsFresh
    <3>5. UNCHANGED slotVars
      BY <1>3 DEF ResumeQueue
    <3> QED
      BY <2>2, <3>3, <3>4, <3>5, QuietSame
         DEF PoolStep, QuietMove, DownloadPCs, UploadPCs, TypeOK
  <2> QED
    BY <1>3, <2>1, <2>2 DEF ResumeQueue
<1>4. CASE \/ \E t \in Tasks : Pause(c, t) \/ Resume(c, t) \/ Delete(c, t)
           \/ ResumeAbandoned(c) \/ DeleteWaited(c) \/ DeleteTimeout(c) \/ DeletePop(c)
  BY <1>1, <1>4 DEF Pause, Resume, Delete, ResumeAbandoned, DeleteWaited, DeleteTimeout, DeletePop
<1> QED
  BY <1>2, <1>3, <1>4 DEF Handler

LEMMA ServicePool == ASSUME TypeOK, RunsFresh, Service PROVE PoolStep
<1> USE DEF taskVars, slotVars, runVars, mgrVars
<1>1. CASE UNCHANGED <<pc, slotVars>>
  BY <1>1 DEF PoolStep, Same, Holders, TypeOK
<1>2. ASSUME NEW b \in Batches, CreateStart(b) PROVE PoolStep
  <2>1. \A r \in Runs : pc'[r] = pc[r] \/ (pc[r] = "none" /\ pc'[r] = "start")
    <3>1. \A i \in DOMAIN b : pc[<<b[i], 1>>] = "none"
      BY <1>2 DEF CreateStart, RunsFresh
    <3>2. \A r \in Runs : r = <<r[1], r[2]>>
      BY DEF Runs
    <3> QED
      BY <1>2, <3>1, <3>2 DEF CreateStart
  <2>2. Same(UploadPCs) /\ Same(DownloadPCs)
    BY <2>1 DEF Same, Holders, UploadPCs, DownloadPCs
  <2> QED
    BY <1>2, <2>2 DEF CreateStart, PoolStep, TypeOK
<1>3. ASSUME NEW l \in Limits, RefreshConcurrencyLimit(l) PROVE PoolStep
  <2>1. Same(UploadPCs) /\ Same(DownloadPCs)
    BY <1>3, WokenSame DEF RefreshConcurrencyLimit, UploadPCs, DownloadPCs
  <2> QED
    BY <1>3, <2>1 DEF RefreshConcurrencyLimit, PoolStep
<1>4. CASE Stop
  <2>1. Same(UploadPCs) /\ Same(DownloadPCs)
    BY <1>4, WokenSame DEF Stop, UploadPCs, DownloadPCs
  <2> QED
    BY <1>4, <2>1 DEF Stop, PoolStep, TypeOK
<1>5. CASE (\E b \in Batches : Create(b) \/ CreateRollback(b)) \/ OpenGate
  BY <1>1, <1>5 DEF Create, CreateRollback, OpenGate
<1> QED
  BY <1>2, <1>3, <1>4, <1>5 DEF Service

LEMMA PoolSteps == ASSUME TypeOK, RunsFresh, [Next]_vars PROVE PoolStep
<1>1. CASE UNCHANGED vars
  BY <1>1 DEF vars, slotVars, runVars, PoolStep, Same, Holders, TypeOK
<1> QED
  BY <1>1, WorkerPool, HandlerPool, ServicePool DEF Next

-----------------------------------------------------------------------------
\* A step that begins no run and creates no task.
LEMMA FreshFrame ==
  ASSUME TypeOK, RunsFresh, TypeOK',
         \A t \in Tasks : /\ task'[t].run = task[t].run
                          /\ task'[t].status = "none" <=> task[t].status = "none",
         \A r \in Runs : pc[r] = "none" => pc'[r] = "none",
         open' \subseteq open
  PROVE  RunsFresh'
<1>1. \A t \in Tasks : task'[t].status = "none" <=> task'[t].run = 0
  BY DEF RunsFresh
<1>2. \A r \in Runs : r[2] > task'[r[1]].run => pc'[r] = "none"
  BY RunParts DEF RunsFresh
<1>3. \A b \in open' : \A i \in DOMAIN b :
        task'[b[i]].run # 0 /\ pc'[<<b[i], 1>>] = "none"
  <2> SUFFICES ASSUME NEW b \in open', NEW i \in DOMAIN b
               PROVE  task'[b[i]].run # 0 /\ pc'[<<b[i], 1>>] = "none"
    OBVIOUS
  <2>1. b \in open /\ b \in Seq(Tasks)
    BY Constants DEF TypeOK
  <2>2. b[i] \in Tasks /\ <<b[i], 1>> \in Runs
    BY <2>1, Constants DEF Runs
  <2> QED
    BY <2>1, <2>2 DEF RunsFresh
<1>4. \A b, d \in open' : \A i \in DOMAIN b, j \in DOMAIN d : b[i] = d[j] => b = d
  BY DEF RunsFresh
<1> QED
  BY <1>1, <1>2, <1>3, <1>4 DEF RunsFresh

\* A record of which neither the run nor whether it exists changes.
LEMMA RecordFrame ==
  ASSUME TypeOK, NEW t \in Tasks, NEW rec, task' = [task EXCEPT ![t] = rec],
         rec.run = task[t].run, rec.status = "none" <=> task[t].status = "none"
  PROVE  \A u \in Tasks : /\ task'[u].run = task[u].run
                          /\ task'[u].status = "none" <=> task[u].status = "none"
  BY DEF TypeOK

LEMMA WorkerSameTasks ==
  ASSUME TypeOK, NoteReady, NEW r \in Runs, Worker(r)
  PROVE  \A u \in Tasks : /\ task'[u].run = task[u].run
                          /\ task'[u].status = "none" <=> task[u].status = "none"
<1> DEFINE t == r[1]
<1>0. t \in Tasks /\ task[t] \in TaskState
  BY RunParts DEF TypeOK
<1>1. \A u \in Tasks : /\ task'[u].run = task[u].run
                       /\ task'[u].status = "none" <=> task[u].status = "none"
  <2> USE <1>0 DEF taskVars, TypeOK, TaskState, InMap, Absent
  <2>1. CASE UNCHANGED task
    BY <2>1
  <2>2. CASE RunStart(r) \/ RunGate(r) \/ Park(r) \/ GiveUp(r) \/ Release(r)
    BY <2>1, <2>2 DEF RunStart, RunGate, Park, GiveUp, Release
  <2>3. CASE TransferFails(r) \/ FailureVerdict(r) \/ UploadSucceeds(r)
    BY <2>1, <2>3 DEF TransferFails, FailureVerdict, UploadSucceeds
  <2>4. CASE Acquire(r)
    BY <2>4 DEF Acquire
  <2>5. CASE Exit(r)
    BY <2>5 DEF Exit
  <2>6. CASE TransferRefused(r)
    <3>1. \/ UNCHANGED task
          \/ InMap(t) /\ task' = [task EXCEPT ![t] = [task[t] EXCEPT !.status = "failed"]]
      BY <2>6 DEF TransferRefused, Patch
    <3> DEFINE rec == [task[t] EXCEPT !.status = "failed"]
    <3>2. rec.run = task[t].run /\ rec.status = "failed"
      OBVIOUS
    <3>3. InMap(t) => task[t].status # "none"
      OBVIOUS
    <3> HIDE DEF rec
    <3>4. CASE task' = [task EXCEPT ![t] = rec] /\ InMap(t)
      BY <3>2, <3>3, <3>4, RecordFrame
    <3> QED
      BY <2>1, <3>1, <3>4 DEF rec
  <2>7. CASE TransferStart(r)
    BY <2>7 DEF TransferStart
  <2>8. CASE Progress(r)
    <3>1. /\ InMap(t)
          /\ \E p \in {"downloading", "uploading"} :
               task' = [task EXCEPT ![t] = [task[t] EXCEPT !.status = "running", !.phase = p]]
      BY <2>8 DEF Progress
    <3>2. task[t].status # "none"
      BY <3>1
    <3> DEFINE rec(p) == [task[t] EXCEPT !.status = "running", !.phase = p]
    <3>3. PICK p \in {"downloading", "uploading"} : task' = [task EXCEPT ![t] = rec(p)]
      BY <3>1
    <3>4. rec(p).run = task[t].run /\ rec(p).status = "running"
      OBVIOUS
    <3> HIDE DEF rec
    <3> QED
      BY <3>2, <3>3, <3>4, RecordFrame
  <2>9. CASE TransferPatch(r)
    <3>1. note[r] # "none"
      BY <2>9 DEF TransferPatch, NoteReady
    <3> QED
      BY <2>9, <3>1 DEF TransferPatch, Patch
  <2>10. CASE DownloadSucceeds(r)
    BY <2>10 DEF DownloadSucceeds, Patch
  <2> QED
    BY <2>2, <2>3, <2>4, <2>5, <2>6, <2>7, <2>8, <2>9, <2>10 DEF Worker
<1> QED
  BY <1>1

LEMMA WorkerFresh ==
  ASSUME TypeOK, NoteReady, RunsFresh, TypeOK', NEW r \in Runs, Worker(r)
  PROVE  RunsFresh'
<1>1. \A u \in Tasks : /\ task'[u].run = task[u].run
                       /\ task'[u].status = "none" <=> task[u].status = "none"
  BY WorkerSameTasks
<1>2. \A s \in Runs : pc[s] = "none" => pc'[s] = "none"
  <2>1. CASE \E x : Go(r, x) /\ pc[r] # "none"
    BY <2>1 DEF Go, TypeOK
  <2>2. CASE Release(r)
    BY <2>2 DEF Release, Woken, TypeOK
  <2>3. CASE Progress(r)
    BY <2>3 DEF Progress, runVars
  <2>4. CASE RunStart(r) \/ RunGate(r) \/ Park(r) \/ GiveUp(r) \/ Exit(r) \/ Acquire(r)
    BY <2>1, <2>4 DEF RunStart, RunGate, Park, GiveUp, Exit, Acquire
  <2>5. CASE TransferRefused(r) \/ TransferStart(r) \/ TransferPatch(r) \/ DownloadSucceeds(r)
    BY <2>1, <2>5 DEF TransferRefused, TransferStart, TransferPatch, DownloadSucceeds
  <2>6. CASE TransferFails(r) \/ FailureVerdict(r) \/ UploadSucceeds(r)
    BY <2>1, <2>6 DEF TransferFails, FailureVerdict, UploadSucceeds
  <2> QED
    BY <2>2, <2>3, <2>4, <2>5, <2>6 DEF Worker
<1>3. open' = open
  <2> USE DEF mgrVars
  <2>1. CASE RunStart(r) \/ RunGate(r) \/ Park(r) \/ GiveUp(r) \/ Exit(r) \/ Acquire(r)
    BY <2>1 DEF RunStart, RunGate, Park, GiveUp, Exit, Acquire
  <2>2. CASE TransferRefused(r) \/ TransferStart(r) \/ TransferPatch(r) \/ DownloadSucceeds(r)
    BY <2>2 DEF TransferRefused, TransferStart, TransferPatch, DownloadSucceeds
  <2>3. CASE \/ TransferFails(r) \/ FailureVerdict(r) \/ UploadSucceeds(r)
             \/ Release(r) \/ Progress(r)
    BY <2>3 DEF TransferFails, FailureVerdict, UploadSucceeds, Release, Progress
  <2> QED
    BY <2>1, <2>2, <2>3 DEF Worker
<1> QED
  BY <1>1, <1>2, <1>3, FreshFrame

LEMMA HandlerFresh ==
  ASSUME TypeOK, RunsFresh, TypeOK', NEW c \in Callers, Handler(c)
  PROVE  RunsFresh'
<1> DEFINE k == call[c]
           SameRuns == \A u \in Tasks : /\ task'[u].run = task[u].run
                                        /\ task'[u].status = "none" <=> task[u].status = "none"
           SamePc == \A s \in Runs : pc[s] = "none" => pc'[s] = "none"
<1>0. k \in CallState /\ \A t \in Tasks : task[t] \in TaskState
  BY DEF TypeOK
<1>a. SameRuns /\ SamePc /\ open' = open => RunsFresh'
  BY FreshFrame
<1> USE DEF taskVars, slotVars, runVars, mgrVars
<1>1. ASSUME NEW t \in Tasks, Pause(c, t) PROVE RunsFresh'
  <2>1. SameRuns
    <3> DEFINE rec == [task[t] EXCEPT !.status = "paused", !.mode = "pause", !.prio = FALSE]
    <3>1. task' = [task EXCEPT ![t] = rec] /\ task[t].status # "none"
      BY <1>1 DEF Pause, Pausable, Active
    <3>2. rec.run = task[t].run /\ rec.status = "paused"
      BY <1>0 DEF TaskState
    <3> QED
      BY <3>1, <3>2, RecordFrame
  <2> QED
    BY <1>1, <1>a, <2>1 DEF Pause
<1>2. ASSUME NEW t \in Tasks, Delete(c, t) PROVE RunsFresh'
  <2>1. CASE UNCHANGED task
    BY <1>2, <1>a, <2>1 DEF Delete
  <2>2. CASE /\ InMap(t)
             /\ task' = [task EXCEPT ![t] = [task[t] EXCEPT !.mode = "delete",
                           !.status = IF task[t].status \in Active THEN "canceled"
                                      ELSE task[t].status]]
    <3>1. SameRuns
      <4> DEFINE rec == [task[t] EXCEPT !.mode = "delete",
                           !.status = IF task[t].status \in Active THEN "canceled"
                                      ELSE task[t].status]
      <4>1. task[t].status # "none"
        BY <2>2 DEF InMap, Absent
      <4>2. rec.run = task[t].run /\ rec.status \in {"canceled", task[t].status}
        BY <1>0 DEF TaskState
      <4> QED
        BY <2>2, <4>1, <4>2, RecordFrame
    <3> QED
      BY <1>2, <1>a, <3>1 DEF Delete
  <2> QED
    BY <1>2, <2>1, <2>2 DEF Delete
<1>3. CASE CallCancel(c)
  BY <1>3, <1>a DEF CallCancel, Woken
<1>4. CASE ResumeQueue(c)
  <2> DEFINE t == k.t
             s == <<t, NextRun(t)>>
  <2>1. t \in Tasks /\ open' = open
    BY <1>0, <1>4, CallFields DEF ResumeQueue
  <2>2. CASE UNCHANGED <<task, pc>>
    BY <1>a, <2>1, <2>2
  <2>3. CASE /\ task[t].status \in Stopped /\ UNCHANGED pc
             /\ task' = [task EXCEPT ![t].status = "failed"]
    <3>1. SameRuns
      <4> DEFINE rec == [task[t] EXCEPT !.status = "failed"]
      <4>1. rec.run = task[t].run /\ rec.status = "failed"
        BY <1>0, <2>1 DEF TaskState
      <4> QED
        BY <2>1, <2>3, <4>1, RecordFrame DEF Stopped
    <3> QED
      BY <1>a, <2>1, <2>3, <3>1
  <2>4. CASE /\ task[t].status \in Stopped /\ task[t].run < MaxRun
             /\ task' = [task EXCEPT ![t] = [task[t] EXCEPT !.order = queueOrder + 1,
                  !.status = "pending", !.prio = TRUE, !.mode = "", !.run = NextRun(t)]]
             /\ Go(s, "start")
    <3>1. task[t].run \in 0..MaxRun /\ task[t].status # "none" /\ task[t].run # 0
      BY <1>0, <2>1, <2>4 DEF Stopped, RunsFresh, TaskState
    <3>2. NextRun(t) \in 2..MaxRun /\ s \in Runs
      BY <2>1, <2>4, <3>1, Constants DEF NextRun, Runs
    <3>3. /\ task'[t].run = NextRun(t) /\ task'[t].status = "pending"
          /\ \A u \in Tasks \ {t} : task'[u] = task[u]
      <4> DEFINE rec == [task[t] EXCEPT !.order = queueOrder + 1, !.status = "pending",
                           !.prio = TRUE, !.mode = "", !.run = NextRun(t)]
      <4>1. rec.run = NextRun(t) /\ rec.status = "pending"
        BY <1>0, <2>1 DEF TaskState
      <4>2. task'[t] = rec /\ \A u \in Tasks \ {t} : task'[u] = task[u]
        BY <2>1, <2>4 DEF TypeOK
      <4> QED
        BY <4>1, <4>2
    <3>4. pc'[s] = "start" /\ \A r \in Runs \ {s} : pc'[r] = pc[r]
      BY <2>4, <3>2 DEF Go, TypeOK
    <3>5. \A u \in Tasks : task'[u].status = "none" <=> task'[u].run = 0
      BY <3>2, <3>3 DEF RunsFresh
    <3>6. \A r \in Runs : r[2] > task'[r[1]].run => pc'[r] = "none"
      <4> SUFFICES ASSUME NEW r \in Runs, r[2] > task'[r[1]].run PROVE pc'[r] = "none"
        OBVIOUS
      <4>1. r[1] \in Tasks /\ r[2] \in 1..MaxRun
        BY RunParts
      <4>2. CASE r[1] = t
        <5>1. r[2] > NextRun(t)
          BY <3>3, <4>2
        <5>2. r # s /\ r[2] > task[t].run
          BY <3>1, <3>2, <4>1, <5>1 DEF NextRun
        <5> QED
          BY <3>4, <4>2, <5>2 DEF RunsFresh
      <4>3. CASE r[1] # t
        BY <3>3, <3>4, <4>1, <4>3 DEF RunsFresh
      <4> QED
        BY <4>2, <4>3
    <3>7. \A b \in open' : \A i \in DOMAIN b :
            task'[b[i]].run # 0 /\ pc'[<<b[i], 1>>] = "none"
      <4> SUFFICES ASSUME NEW b \in open, NEW i \in DOMAIN b
                   PROVE  task'[b[i]].run # 0 /\ pc'[<<b[i], 1>>] = "none"
        BY <2>1
      <4>1. b \in Seq(Tasks)
        BY Constants DEF TypeOK
      <4>2. b[i] \in Tasks /\ <<b[i], 1>> \in Runs /\ <<b[i], 1>> # s
        BY <3>2, <4>1, Constants DEF Runs
      <4> QED
        BY <3>2, <3>3, <3>4, <4>2 DEF RunsFresh
    <3> QED
      BY <2>1, <3>5, <3>6, <3>7 DEF RunsFresh
  <2> QED
    BY <1>4, <2>2, <2>3, <2>4 DEF ResumeQueue
<1>5. CASE DeletePop(c)
  <2>1. CASE UNCHANGED task
    BY <1>5, <1>a, <2>1 DEF DeletePop
  <2>2. CASE InMap(k.t) /\ task' = [task EXCEPT ![k.t] = Dropped(task[k.t])]
    <3>1. k.t \in Tasks
      BY <1>0, <1>5, CallFields DEF DeletePop
    <3>2. SameRuns
      <4>1. Dropped(task[k.t]).run = task[k.t].run /\ Dropped(task[k.t]).status = "gone"
        BY <1>0, <3>1 DEF Dropped, TaskState
      <4> QED
        BY <2>2, <3>1, <4>1, RecordFrame DEF InMap, Absent
    <3> QED
      BY <1>5, <1>a, <3>2 DEF DeletePop
  <2> QED
    BY <1>5, <2>1, <2>2 DEF DeletePop
<1>6. CASE \/ \E t \in Tasks : Resume(c, t)
           \/ ResumeAbandoned(c) \/ DeleteWaited(c) \/ DeleteTimeout(c)
  BY <1>6, <1>a DEF Resume, ResumeAbandoned, DeleteWaited, DeleteTimeout
<1> QED
  BY <1>1, <1>2, <1>3, <1>4, <1>5, <1>6 DEF Handler

LEMMA ServiceFresh ==
  ASSUME TypeOK, RunsFresh, TypeOK', Service
  PROVE  RunsFresh'
<1> DEFINE SameRuns == \A u \in Tasks : /\ task'[u].run = task[u].run
                                        /\ task'[u].status = "none" <=> task[u].status = "none"
           SamePc == \A s \in Runs : pc[s] = "none" => pc'[s] = "none"
<1>0. \A t \in Tasks : task[t] \in TaskState
  BY DEF TypeOK
<1>a. SameRuns /\ SamePc /\ open' \subseteq open => RunsFresh'
  BY FreshFrame
<1>b. \A b \in Batches : \A i \in DOMAIN b : b[i] \in Tasks /\ <<b[i], 1>> \in Runs
  BY Constants DEF Runs
<1> USE DEF taskVars, slotVars, runVars, mgrVars
<1>1. ASSUME NEW b \in Batches, Create(b) PROVE RunsFresh'
  <2> DEFINE In(t) == \E i \in DOMAIN b : b[i] = t
  <2>1. /\ \A t \in Tasks : In(t) => task'[t].status = "pending" /\ task'[t].run = 1
        /\ \A t \in Tasks : ~In(t) => task'[t] = task[t]
        /\ pc' = pc /\ open' = open \cup {b}
    <3>1. pc' = pc /\ open' = open \cup {b}
      BY <1>1 DEF Create
    <3>2. \A t \in Tasks : ~In(t) => task'[t] = task[t]
      BY <1>1 DEF Create
    <3>3. \A t \in Tasks : In(t) => task'[t].status = "pending" /\ task'[t].run = 1
      BY <1>0, <1>1 DEF Create, TaskState
    <3> QED
      BY <3>1, <3>2, <3>3
  <2>2. \A t \in Tasks : In(t) => task[t].run = 0
    BY <1>1 DEF Create, RunsFresh
  <2>3. \A t \in Tasks : In(t) => pc[<<t, 1>>] = "none"
    BY <2>2, Constants DEF RunsFresh, Runs
  <2>4. \A d \in open : \A j \in DOMAIN d : d[j] \in Tasks /\ ~In(d[j])
    BY ZenonT(60), <1>b, <2>2 DEF RunsFresh, TypeOK
  <2>5. \A t \in Tasks : task'[t].status = "none" <=> task'[t].run = 0
    BY <2>1 DEF RunsFresh
  <2>6. \A r \in Runs : r[2] > task'[r[1]].run => pc'[r] = "none"
    <3> SUFFICES ASSUME NEW r \in Runs, r[2] > task'[r[1]].run PROVE pc[r] = "none"
      BY <2>1
    <3>1. r[1] \in Tasks /\ r[2] \in 1..MaxRun
      BY RunParts
    <3>2. CASE In(r[1])
      BY <2>2, <3>1, <3>2 DEF RunsFresh
    <3>3. CASE ~In(r[1])
      BY <2>1, <3>1, <3>3 DEF RunsFresh
    <3> QED
      BY <3>2, <3>3
  <2>7. \A d \in open' : \A j \in DOMAIN d : task'[d[j]].run # 0 /\ pc'[<<d[j], 1>>] = "none"
    <3> SUFFICES ASSUME NEW d \in open', NEW j \in DOMAIN d
                 PROVE  task'[d[j]].run # 0 /\ pc'[<<d[j], 1>>] = "none"
      OBVIOUS
    <3>1. CASE d \in open
      BY <2>1, <2>4, <3>1 DEF RunsFresh
    <3>2. CASE d = b
      BY <1>b, <2>1, <2>3, <3>2
    <3> QED
      BY <2>1, <3>1, <3>2
  <2>8. \A d, e \in open' : \A i \in DOMAIN d, j \in DOMAIN e : d[i] = e[j] => d = e
    BY <2>1, <2>4 DEF RunsFresh
  <2> QED
    BY <2>5, <2>6, <2>7, <2>8 DEF RunsFresh
<1>2. ASSUME NEW b \in Batches, CreateStart(b) PROVE RunsFresh'
  <2> DEFINE Begins(r) == r[2] = 1 /\ \E i \in DOMAIN b : b[i] = r[1]
  <2>1. /\ b \in open /\ open' = open \ {b} /\ UNCHANGED task
        /\ \A r \in Runs : ~Begins(r) => pc'[r] = pc[r]
    BY <1>2 DEF CreateStart
  <2>2. \A t \in Tasks : task'[t].status = "none" <=> task'[t].run = 0
    BY <2>1 DEF RunsFresh
  <2>3. \A r \in Runs : r[2] > task'[r[1]].run => pc'[r] = "none"
    <3> SUFFICES ASSUME NEW r \in Runs, r[2] > task[r[1]].run PROVE pc'[r] = "none"
      BY <2>1
    <3>1. task[r[1]].run \in 0..MaxRun
      BY <1>0, RunParts DEF TaskState
    <3>2. r[2] # 1 \/ task[r[1]].run = 0
      BY <3>1
    <3>3. \A i \in DOMAIN b : task[b[i]].run # 0
      BY <2>1 DEF RunsFresh
    <3>4. ~Begins(r)
      BY <3>2, <3>3
    <3> QED
      BY <2>1, <3>4 DEF RunsFresh
  <2>4. \A d \in open' : \A j \in DOMAIN d : task'[d[j]].run # 0 /\ pc'[<<d[j], 1>>] = "none"
    <3> SUFFICES ASSUME NEW d \in open', NEW j \in DOMAIN d
                 PROVE  task'[d[j]].run # 0 /\ pc'[<<d[j], 1>>] = "none"
      OBVIOUS
    <3>1. d \in open /\ d # b
      BY <2>1
    <3>2. ~Begins(<<d[j], 1>>)
      BY <2>1, <3>1 DEF RunsFresh
    <3>3. <<d[j], 1>> \in Runs
      BY <1>b, <3>1 DEF TypeOK
    <3> QED
      BY <2>1, <3>1, <3>2, <3>3 DEF RunsFresh
  <2>5. \A d, e \in open' : \A i \in DOMAIN d, j \in DOMAIN e : d[i] = e[j] => d = e
    BY <2>1 DEF RunsFresh
  <2> QED
    BY <2>2, <2>3, <2>4, <2>5 DEF RunsFresh
<1>3. ASSUME NEW b \in Batches, CreateRollback(b) PROVE RunsFresh'
  <2>1. b \in open /\ open' = open \ {b} /\ pc' = pc
    BY <1>3 DEF CreateRollback
  <2>2. \A i \in DOMAIN b : b[i] \in Tasks /\ task[b[i]].status # "none"
    BY <1>b, <2>1 DEF RunsFresh
  <2>3. SameRuns
    <3> SUFFICES ASSUME NEW u \in Tasks
                 PROVE  /\ task'[u].run = task[u].run
                        /\ task'[u].status = "none" <=> task[u].status = "none"
      OBVIOUS
    <3>1. CASE \E i \in DOMAIN b : b[i] = u
      <4>1. task'[u] = Dropped(task[u]) /\ task[u].status # "none"
        BY <1>3, <2>2, <3>1 DEF CreateRollback
      <4> QED
        BY <1>0, <4>1 DEF Dropped, TaskState
    <3>2. CASE ~ \E i \in DOMAIN b : b[i] = u
      BY <1>3, <3>2 DEF CreateRollback
    <3> QED
      BY <3>1, <3>2
  <2> QED
    BY <1>a, <2>1, <2>3
<1>4. ASSUME NEW l \in Limits, RefreshConcurrencyLimit(l) PROVE RunsFresh'
  BY <1>4, <1>a DEF RefreshConcurrencyLimit, Woken
<1>5. CASE Stop
  <2>1. SameRuns
    BY <1>0, <1>5 DEF Stop, TaskState
  <2>2. SamePc /\ open' = open
    BY <1>5 DEF Stop, Woken
  <2> QED
    BY <1>a, <2>1, <2>2
<1>6. CASE OpenGate
  BY <1>6, <1>a DEF OpenGate
<1> QED
  BY <1>1, <1>2, <1>3, <1>4, <1>5, <1>6 DEF Service

LEMMA FreshStep ==
  ASSUME TypeOK, NoteReady, RunsFresh, TypeOK', [Next]_vars
  PROVE  RunsFresh'
<1>1. CASE UNCHANGED vars
  BY <1>1, FreshFrame DEF vars, taskVars, runVars, mgrVars
<1> QED
  BY <1>1, WorkerFresh, HandlerFresh, ServiceFresh DEF Next

-----------------------------------------------------------------------------
\* The inductive invariant behind the accounting of slots.
Inv == TypeOK /\ NoteReady /\ RunsFresh /\ SlotAccounting

LEMMA AccountingStep ==
  ASSUME TypeOK, SlotAccounting, PoolStep
  PROVE  SlotAccounting'
<1> DEFINE U == Holders(UploadPCs)
           D == Holders(DownloadPCs)
<1>1. /\ IsFiniteSet(U) /\ IsFiniteSet(D)
      /\ Cardinality(U) \in Nat /\ Cardinality(D) \in Nat
  BY FiniteHolders, FS_CardinalityType
<1>2. runningUploads = Cardinality(U) /\ runningDownloads = Cardinality(D)
  BY DEF SlotAccounting
<1>3. ASSUME NEW S, IsFiniteSet(Holders(S)), NEW r, Entered(S, r)
      PROVE  Cardinality(Holders(S)') = Cardinality(Holders(S)) + 1
  BY <1>3, FS_AddElement DEF Entered
<1>4. ASSUME NEW S, IsFiniteSet(Holders(S)), Cardinality(Holders(S)) \in Nat,
             NEW r, Left(S, r)
      PROVE  Cardinality(Holders(S)') = Decremented(Cardinality(Holders(S)))
  <2>1. Cardinality(Holders(S)') = Cardinality(Holders(S)) - 1
    BY <1>4, FS_RemoveElement DEF Left
  <2>2. Cardinality(Holders(S)) # 0
    BY <1>4, FS_EmptySet DEF Left
  <2> QED
    BY <1>4, <2>1, <2>2 DEF Decremented
<1>5. ASSUME NEW S, Same(S) PROVE Cardinality(Holders(S)') = Cardinality(Holders(S))
  BY <1>5 DEF Same
<1>6. /\ runningUploads' = Cardinality(U')
      /\ runningDownloads' = Cardinality(D')
  BY <1>1, <1>2, <1>3, <1>4, <1>5 DEF PoolStep
<1> QED
  BY <1>6 DEF SlotAccounting

LEMMA InvInit == Init => Inv
<1> SUFFICES ASSUME Init PROVE Inv
  OBVIOUS
<1>1. TypeOK
  BY TypeInit
<1>2. NoteReady /\ RunsFresh
  BY RunParts DEF Init, NoteReady, RunsFresh
<1>3. Holders(UploadPCs) = {} /\ Holders(DownloadPCs) = {}
  BY DEF Init, Holders, UploadPCs, DownloadPCs
<1>4. SlotAccounting
  BY <1>3, FS_EmptySet DEF Init, SlotAccounting
<1> QED
  BY <1>1, <1>2, <1>4 DEF Inv

LEMMA InvStep == Inv /\ [Next]_vars => Inv'
<1> SUFFICES ASSUME Inv, [Next]_vars PROVE Inv'
  OBVIOUS
<1>1. TypeOK' /\ NoteReady'
  BY TypeStep, NoteStep DEF Inv
<1>2. RunsFresh'
  BY <1>1, FreshStep DEF Inv
<1>3. SlotAccounting'
  BY PoolSteps, AccountingStep DEF Inv
<1> QED
  BY <1>1, <1>2, <1>3 DEF Inv

LEMMA InvAlways == Spec => []Inv
  BY InvInit, InvStep, PTL DEF Spec

\* Every state the manager reaches is well formed: in particular the counters
\* never go below zero, what a worker writes as its task's status is one of the
\* statuses, and every stored CancelFunc and channel is one of a known task's.
THEOREM TypeCorrect == Spec => []TypeOK
<1>1. Inv => TypeOK
  BY DEF Inv
<1> QED
  BY <1>1, InvAlways, PTL

\* On every path out of a transfer, success, refusal, error, cancellation or a
\* task deleted under it, the slot that was taken is given back, once, and to the
\* pool it was taken from: no slot leaks and none is counted twice.
THEOREM SlotsAccounted == Spec => []SlotAccounting
<1>1. Inv => SlotAccounting
  BY DEF Inv
<1> QED
  BY <1>1, InvAlways, PTL

LEMMA PoolCardinality ==
  ASSUME NEW S
  PROVE  /\ UploadPool!Cardinality(S) = Cardinality(S)
         /\ DownloadPool!Cardinality(S) = Cardinality(S)
  BY DEF UploadPool!Cardinality, DownloadPool!Cardinality, Cardinality

\* A worker enters a pool only while fewer workers than the limit of the moment
\* are in it, for uploads and for downloads alike; only its own release takes it
\* out, and lowering the limit throws nobody out.
THEOREM PoolsImplemented == Spec => SlotsArePooled
<1>1. Init => UploadPool!Init /\ DownloadPool!Init
  BY DEF Init, UploadPool!Init, DownloadPool!Init, Holders, UploadPCs, DownloadPCs
<1>2. Inv /\ [Next]_vars => [UploadPool!Next]_(UploadPool!vars)
                            /\ [DownloadPool!Next]_(DownloadPool!vars)
  <2> SUFFICES ASSUME Inv, [Next]_vars
               PROVE  [UploadPool!Next]_(UploadPool!vars)
                      /\ [DownloadPool!Next]_(DownloadPool!vars)
    OBVIOUS
  <2>1. PoolStep /\ SlotAccounting
    BY PoolSteps DEF Inv
  <2>2. CASE Same(UploadPCs) /\ Same(DownloadPCs) /\ limit' \in Limits
    BY <2>2 DEF Same, UploadPool!Next, UploadPool!SetCap, DownloadPool!Next,
                DownloadPool!SetCap
  <2>3. ASSUME NEW r \in Runs, UNCHANGED limit,
               Same(DownloadPCs),
               \/ Entered(UploadPCs, r) /\ runningUploads < limit
               \/ Left(UploadPCs, r)
        PROVE  UploadPool!Next /\ UNCHANGED DownloadPool!vars
    <3>1. UploadPool!Enter(r) \/ UploadPool!Leave(r)
      <4>1. CASE Entered(UploadPCs, r) /\ runningUploads < limit
        BY <2>1, <2>3, <4>1, PoolCardinality
           DEF Entered, SlotAccounting, UploadPool!Enter
      <4>2. CASE Left(UploadPCs, r)
        BY <2>3, <4>2 DEF Left, UploadPool!Leave
      <4> QED
        BY <2>3, <4>1, <4>2
    <3> QED
      BY <2>3, <3>1 DEF Same, UploadPool!Next, DownloadPool!vars
  <2>4. ASSUME NEW r \in Runs, UNCHANGED limit,
               Same(UploadPCs),
               \/ Entered(DownloadPCs, r) /\ runningDownloads < limit
               \/ Left(DownloadPCs, r)
        PROVE  DownloadPool!Next /\ UNCHANGED UploadPool!vars
    <3>1. DownloadPool!Enter(r) \/ DownloadPool!Leave(r)
      <4>1. CASE Entered(DownloadPCs, r) /\ runningDownloads < limit
        BY <2>1, <2>4, <4>1, PoolCardinality
           DEF Entered, SlotAccounting, DownloadPool!Enter
      <4>2. CASE Left(DownloadPCs, r)
        BY <2>4, <4>2 DEF Left, DownloadPool!Leave
      <4> QED
        BY <2>4, <4>1, <4>2
    <3> QED
      BY <2>4, <3>1 DEF Same, DownloadPool!Next, UploadPool!vars
  <2> QED
    BY <2>1, <2>2, <2>3, <2>4 DEF PoolStep
<1> QED
  BY <1>1, <1>2, InvAlways, PTL
     DEF Spec, SlotsArePooled, UploadPool!Spec, DownloadPool!Spec

-----------------------------------------------------------------------------
(***************************************************************************)
(* One worker per task, and each runDone channel closed once, as long as   *)
(* the calls of the handlers do not overlap.  (When they do, the run       *)
(* UploadQueue_doubleresume.cfg shows both fail.)                          *)
(***************************************************************************)
Serial == \A c, d \in Callers : c = d

\* The only run of a task that may be alive is its present one; a worker holds
\* its own channel; and a closed channel is that of a finished worker.
RunOrder ==
  /\ \A r \in Live : r[2] = task[r[1]].run
  /\ \A r \in Runs : pc[r] \notin {"none", "start", "lost"} => done[r] = r
  /\ \A r \in closed : r \in Runs /\ pc[r] = "end"
  /\ \A b \in open : \A i \in DOMAIN b : task[b[i]].run = 1

\* A call that waits for a run to end, waits for the present run of its task.
WaitOps == {"resumeWait", "delCancel", "delWait"}
WaitsCurrent ==
  \A c \in Callers : call[c].op \in WaitOps =>
    call[c].run # 0 /\ call[c].run = task[call[c].t].run

\* What a step of worker r does to the control states and the channels.
LEMMA WorkerRuns ==
  ASSUME TypeOK, NEW r \in Runs, Worker(r)
  PROVE  /\ \A s \in Runs :
              \/ pc'[s] = pc[s]
              \/ pc[s] = "wait" /\ pc'[s] = "acquire"
              \/ s = r /\ pc[s] \notin {"none", "end", "lost"}
                       /\ pc'[s] \notin {"none", "start"}
         /\ IF pc[r] = "start"
            THEN \/ pc'[r] = "lost" /\ UNCHANGED done
                 \/ done' = [done EXCEPT ![r] = <<r[1], task[r[1]].run>>]
            ELSE UNCHANGED done
         /\ \/ UNCHANGED closed
            \/ pc[r] = "exit" /\ pc'[r] = "end" /\ closed' = closed \cup {done[r]}
         /\ UNCHANGED <<call, open>>
<1> USE DEF TypeOK, Go, runVars, mgrVars
<1>1. CASE RunStart(r)
  BY <1>1 DEF RunStart
<1>2. CASE RunGate(r) \/ Acquire(r) \/ Park(r) \/ GiveUp(r)
  BY <1>2 DEF RunGate, Acquire, Park, GiveUp
<1>3. CASE Release(r)
  BY <1>3 DEF Release, Woken, AfterRelease
<1>4. CASE Exit(r)
  BY <1>4 DEF Exit, ClosedBy
<1>5. CASE TransferRefused(r) \/ TransferStart(r) \/ Progress(r)
  BY <1>5 DEF TransferRefused, TransferStart, Progress
<1>6. CASE TransferFails(r) \/ FailureVerdict(r) \/ UploadSucceeds(r)
  BY <1>6 DEF TransferFails, FailureVerdict, UploadSucceeds
<1>7. CASE TransferPatch(r) \/ DownloadSucceeds(r)
  BY <1>7 DEF TransferPatch, DownloadSucceeds
<1> QED
  BY <1>1, <1>2, <1>3, <1>4, <1>5, <1>6, <1>7 DEF Worker

LEMMA BatchTasks == \A b \in Batches : \A i \in DOMAIN b : b[i] \in Tasks
  BY Constants

LEMMA WorkerOrder ==
  ASSUME TypeOK, NoteReady, RunsFresh, RunOrder, NEW r \in Runs, Worker(r)
  PROVE  RunOrder'
<1> DEFINE dead == {"none", "end", "lost"}
<1>1. \A u \in Tasks : task'[u].run = task[u].run
  BY WorkerSameTasks
<1>2. \A s \in Runs :
        /\ pc'[s] \notin dead => pc[s] \notin dead
        /\ pc[s] = "end" => pc'[s] = "end"
        /\ s # r /\ pc'[s] \notin {"none", "start", "lost"} =>
             pc[s] \notin {"none", "start", "lost"}
  BY WorkerRuns
<1>3. \A s \in Live' : s[2] = task'[s[1]].run
  BY <1>1, <1>2, RunParts DEF Live, RunOrder
<1>4. \A s \in Runs : pc'[s] \notin {"none", "start", "lost"} => done'[s] = s
  <2> SUFFICES ASSUME NEW s \in Runs, pc'[s] \notin {"none", "start", "lost"}
               PROVE  done'[s] = s
    OBVIOUS
  <2>1. CASE s # r
    <3>1. done'[s] = done[s]
      <4>1. done' = done \/ \E x : done' = [done EXCEPT ![r] = x]
        BY WorkerRuns
      <4> QED
        BY <2>1, <4>1 DEF TypeOK
    <3> QED
      BY <1>2, <2>1, <3>1 DEF RunOrder
  <2>2. CASE s = r /\ pc[r] = "start"
    <3>1. r[2] = task[r[1]].run /\ r = <<r[1], r[2]>>
      BY <2>2 DEF RunOrder, Live, Runs
    <3> QED
      <4>1. done' = [done EXCEPT ![r] = r]
        BY <2>2, <3>1, WorkerRuns
      <4> QED
        BY <2>2, <4>1 DEF TypeOK
  <2>3. CASE s = r /\ pc[r] # "start"
    <3>1. pc[r] \notin {"none", "lost"}
      BY <2>3, WorkerRuns
    <3> QED
      BY <2>3, <3>1, WorkerRuns DEF RunOrder
  <2> QED
    BY <2>1, <2>2, <2>3
<1>5. \A s \in closed' : s \in Runs /\ pc'[s] = "end"
  <2>1. CASE UNCHANGED closed
    BY <1>2, <2>1 DEF RunOrder
  <2>2. CASE pc[r] = "exit" /\ pc'[r] = "end" /\ closed' = closed \cup {done[r]}
    BY <1>2, <2>2 DEF RunOrder
  <2> QED
    BY <2>1, <2>2, WorkerRuns
<1>6. \A b \in open' : \A i \in DOMAIN b : task'[b[i]].run = 1
  <2>1. \A b \in open : \A i \in DOMAIN b : b[i] \in Tasks
    BY BatchTasks DEF TypeOK
  <2> QED
    BY <1>1, <2>1, WorkerRuns DEF RunOrder
<1> QED
  BY <1>3, <1>4, <1>5, <1>6 DEF RunOrder

\* A handler step that starts no run.
LEMMA HandlerFrame ==
  ASSUME TypeOK, RunOrder,
         \A t \in Tasks : task'[t].run = task[t].run,
         UNCHANGED <<done, closed, open>>,
         pc' = pc \/ pc' = Woken(pc)
  PROVE  RunOrder'
<1>1. \A s \in Runs : pc'[s] = pc[s] \/ (pc[s] = "wait" /\ pc'[s] = "acquire")
  BY DEF Woken
<1>2. \A s \in Live' : s[2] = task'[s[1]].run
  BY <1>1, RunParts DEF Live, RunOrder
<1>3. \A s \in Runs : pc'[s] \notin {"none", "start", "lost"} => done'[s] = s
  BY <1>1 DEF RunOrder
<1>4. \A s \in closed' : s \in Runs /\ pc'[s] = "end"
  BY <1>1 DEF RunOrder
<1>5. \A b \in open' : \A i \in DOMAIN b : task'[b[i]].run = 1
  <2>1. \A b \in open : \A i \in DOMAIN b : b[i] \in Tasks
    BY BatchTasks DEF TypeOK
  <2> QED
    BY <2>1 DEF RunOrder
<1> QED
  BY <1>2, <1>3, <1>4, <1>5 DEF RunOrder

\* The only step of a handler that starts a run is ResumeQueue; the others leave
\* every task its run and no worker but the parked ones moves.
LEMMA HandlerRuns ==
  ASSUME TypeOK, NEW c \in Callers, Handler(c)
  PROVE  /\ UNCHANGED <<done, closed, open>>
         /\ \/ /\ \A t \in Tasks : task'[t].run = task[t].run
               /\ pc' = pc \/ pc' = Woken(pc)
            \/ LET t == call[c].t IN
               /\ ResumeQueue(c) /\ t \in Tasks
               /\ task[t].status \in Stopped /\ task[t].run < MaxRun
               /\ task'[t].run = NextRun(t) /\ task'[t].status = "pending"
               /\ task'[t].mode = "" /\ task'[t].cancel = task[t].cancel
               /\ \A u \in Tasks \ {t} : task'[u] = task[u]
               /\ Go(<<t, NextRun(t)>>, "start")
<1> DEFINE SameRuns == \A u \in Tasks : task'[u].run = task[u].run
           k == call[c]
<1>0. k \in CallState /\ \A t \in Tasks : task[t] \in TaskState
  BY DEF TypeOK
<1> USE DEF taskVars, slotVars, runVars, mgrVars
<1>1. ASSUME NEW t \in Tasks, Pause(c, t) PROVE SameRuns
  <2> DEFINE rec == [task[t] EXCEPT !.status = "paused", !.mode = "pause", !.prio = FALSE]
  <2>1. task' = [task EXCEPT ![t] = rec] /\ rec.run = task[t].run
    BY <1>0, <1>1 DEF Pause, TaskState
  <2> QED
    BY <2>1 DEF TypeOK
<1>2. ASSUME NEW t \in Tasks, Delete(c, t) PROVE SameRuns
  <2> DEFINE rec == [task[t] EXCEPT !.mode = "delete",
                       !.status = IF task[t].status \in Active THEN "canceled"
                                  ELSE task[t].status]
  <2>1. task' = task \/ task' = [task EXCEPT ![t] = rec]
    BY <1>2 DEF Delete
  <2>2. rec.run = task[t].run
    BY <1>0 DEF TaskState
  <2> QED
    BY <2>1, <2>2 DEF TypeOK
<1>3. CASE DeletePop(c)
  <2>1. k.t \in Tasks /\ (task' = task \/ task' = [task EXCEPT ![k.t] = Dropped(task[k.t])])
    BY <1>0, <1>3, CallFields DEF DeletePop
  <2>2. Dropped(task[k.t]).run = task[k.t].run
    BY <1>0, <2>1 DEF Dropped, TaskState
  <2>3. SameRuns
    BY <2>1, <2>2 DEF TypeOK
  <2> QED
    BY <1>3, <2>3 DEF DeletePop
<1>4. CASE ResumeQueue(c)
  <2> DEFINE t == k.t
             s == <<t, NextRun(t)>>
  <2>1. t \in Tasks /\ UNCHANGED <<done, closed, open>>
    BY <1>0, <1>4, CallFields DEF ResumeQueue
  <2>2. CASE UNCHANGED <<task, pc>>
    BY <2>1, <2>2
  <2>3. CASE UNCHANGED pc /\ task' = [task EXCEPT ![t].status = "failed"]
    <3> DEFINE rec == [task[t] EXCEPT !.status = "failed"]
    <3>1. task' = [task EXCEPT ![t] = rec] /\ rec.run = task[t].run
      BY <1>0, <2>1, <2>3 DEF TaskState, TypeOK
    <3>2. SameRuns
      BY <2>1, <3>1 DEF TypeOK
    <3> QED
      BY <2>1, <2>3, <3>2
  <2>4. CASE /\ task[t].status \in Stopped /\ task[t].run < MaxRun
             /\ task' = [task EXCEPT ![t] = [task[t] EXCEPT !.order = queueOrder + 1,
                  !.status = "pending", !.prio = TRUE, !.mode = "", !.run = NextRun(t)]]
             /\ Go(s, "start")
    <3> DEFINE rec == [task[t] EXCEPT !.order = queueOrder + 1, !.status = "pending",
                         !.prio = TRUE, !.mode = "", !.run = NextRun(t)]
    <3>0. task[t] \in TaskState
      BY <1>0, <2>1
    <3>1. /\ rec.run = NextRun(t) /\ rec.status = "pending" /\ rec.mode = ""
          /\ rec.cancel = task[t].cancel
      BY <3>0 DEF TaskState
    <3>2. task'[t] = rec /\ \A u \in Tasks \ {t} : task'[u] = task[u]
      BY <2>1, <2>4 DEF TypeOK
    <3> HIDE DEF rec
    <3> QED
      BY <1>4, <2>1, <2>4, <3>1, <3>2
  <2> QED
    BY <1>4, <2>2, <2>3, <2>4 DEF ResumeQueue
<1>5. CASE CallCancel(c)
  BY <1>5 DEF CallCancel
<1>6. CASE ResumeAbandoned(c) \/ DeleteWaited(c) \/ DeleteTimeout(c)
  BY <1>6 DEF ResumeAbandoned, DeleteWaited, DeleteTimeout
<1>7. CASE \E t \in Tasks : Pause(c, t) \/ Resume(c, t) \/ Delete(c, t)
  BY <1>1, <1>2, <1>7 DEF Pause, Resume, Delete
<1> QED
  BY <1>3, <1>4, <1>5, <1>6, <1>7 DEF Handler

\* A run begins only when no worker of its task is alive: because the next state
\* has one worker per task, or because only one handler waits, and it waits for
\* the present run.
LEMMA HandlerOrder ==
  ASSUME TypeOK, RunsFresh, RunOrder, NEW c \in Callers, Handler(c),
         OneRunPerTask' \/ WaitsCurrent
  PROVE  RunOrder'
<1> DEFINE t == call[c].t
           s == <<t, NextRun(t)>>
<1>1. CASE (\A u \in Tasks : task'[u].run = task[u].run) /\ (pc' = pc \/ pc' = Woken(pc))
  BY <1>1, HandlerRuns, HandlerFrame
<1>2. CASE /\ ResumeQueue(c) /\ t \in Tasks
           /\ task[t].status \in Stopped /\ task[t].run < MaxRun
           /\ task'[t].run = NextRun(t)
           /\ \A u \in Tasks \ {t} : task'[u] = task[u]
           /\ Go(s, "start")
  <2>0. UNCHANGED <<done, closed, open>>
    BY HandlerRuns
  <2>1. /\ <<t, call[c].run>> \in closed /\ call[c].op = "resumeWait"
        /\ task[t].run \in 1..MaxRun /\ NextRun(t) \in 2..MaxRun
    <3>1. <<t, call[c].run>> \in closed /\ call[c].op = "resumeWait"
      BY <1>2 DEF ResumeQueue, PreviousRunEnded
    <3>2. task[t].run # 0 /\ task[t].run \in 0..MaxRun
      BY <1>2 DEF Stopped, RunsFresh, TypeOK, TaskState
    <3> QED
      BY <1>2, <3>1, <3>2, Constants DEF NextRun
  <2>2. /\ <<t, call[c].run>> \in Runs /\ pc[<<t, call[c].run>>] = "end"
        /\ s \in Runs /\ pc[s] = "none"
    <3>1. s \in Runs
      BY <1>2, <2>1, Constants DEF Runs
    <3>2. pc[s] = "none"
      BY <1>2, <2>1, <3>1 DEF RunsFresh, NextRun
    <3> QED
      BY <2>1, <3>1, <3>2 DEF RunOrder
  <2>3. pc'[s] = "start" /\ \A r \in Runs \ {s} : pc'[r] = pc[r]
    BY <1>2, <2>2 DEF Go, TypeOK
  <2>4. \A r \in Live : r[1] # t
    <3> SUFFICES ASSUME NEW r \in Live, r[1] = t PROVE FALSE
      OBVIOUS
    <3>1. r \in Runs /\ r # s
      BY <2>2 DEF Live
    <3>2. CASE OneRunPerTask'
      <4>1. s \in Live' /\ r \in Live'
        BY <2>2, <2>3, <3>1 DEF Live
      <4> QED
        BY <3>1, <3>2, <4>1 DEF OneRunPerTask
    <3>3. CASE WaitsCurrent
      <4>1. r = <<t, call[c].run>>
        BY <2>1, <3>1, <3>3 DEF RunOrder, WaitsCurrent, WaitOps, Runs
      <4> QED
        BY <2>2, <4>1 DEF Live
    <3> QED
      BY <3>2, <3>3
  <2>5. \A r \in Live' : r[2] = task'[r[1]].run
    <3> SUFFICES ASSUME NEW r \in Live' PROVE r[2] = task'[r[1]].run
      OBVIOUS
    <3>1. CASE r = s
      BY <1>2, <3>1
    <3>2. CASE r # s
      <4>1. r \in Live /\ r[1] \in Tasks
        BY <2>3, <3>2, RunParts DEF Live
      <4> QED
        BY <1>2, <2>4, <4>1 DEF RunOrder
    <3> QED
      BY <3>1, <3>2
  <2>6. \A r \in Runs : pc'[r] \notin {"none", "start", "lost"} => done'[r] = r
    BY <2>0, <2>3 DEF RunOrder
  <2>7. \A r \in closed' : r \in Runs /\ pc'[r] = "end"
    BY <2>0, <2>2, <2>3 DEF RunOrder
  <2>8. \A b \in open' : \A i \in DOMAIN b : task'[b[i]].run = 1
    <3> SUFFICES ASSUME NEW b \in open, NEW i \in DOMAIN b PROVE task'[b[i]].run = 1
      BY <2>0
    <3>1. b[i] \in Tasks /\ task[b[i]].run = 1 /\ pc[<<b[i], 1>>] = "none"
      <4>1. b[i] \in Tasks
        BY BatchTasks DEF TypeOK
      <4> QED
        BY <4>1 DEF RunOrder, RunsFresh
    <3>2. ASSUME b[i] = t PROVE FALSE
      <4>1. call[c].run \in 1..MaxRun /\ call[c].run # 1
        BY <2>2, <3>1, <3>2, Constants DEF Runs
      <4>2. call[c].run > task[t].run
        BY <3>1, <3>2, <4>1
      <4> QED
        BY <2>2, <4>2 DEF RunsFresh
    <3> QED
      BY <1>2, <3>1, <3>2
  <2> QED
    BY <2>5, <2>6, <2>7, <2>8 DEF RunOrder
<1> QED
  BY <1>1, <1>2, HandlerRuns

LEMMA ServiceOrder ==
  ASSUME TypeOK, RunsFresh, RunOrder, Service
  PROVE  RunOrder'
<1>0. /\ \A t \in Tasks : task[t] \in TaskState
      /\ \A b \in open : \A i \in DOMAIN b : b[i] \in Tasks
  BY BatchTasks DEF TypeOK
<1> USE DEF taskVars, slotVars, runVars, mgrVars
<1>1. ASSUME NEW b \in Batches, Create(b) PROVE RunOrder'
  <2> DEFINE In(t) == \E i \in DOMAIN b : b[i] = t
  <2>1. /\ \A t \in Tasks : In(t) => task'[t].run = 1 /\ task[t].run = 0
        /\ \A t \in Tasks : ~In(t) => task'[t] = task[t]
        /\ UNCHANGED <<pc, done, closed, call>> /\ open' = open \cup {b}
    <3>1. UNCHANGED <<pc, done, closed, call>> /\ open' = open \cup {b}
      BY <1>1 DEF Create
    <3>2. \A t \in Tasks : ~In(t) => task'[t] = task[t]
      BY <1>1 DEF Create
    <3>3. \A t \in Tasks : In(t) => task'[t].run = 1
      BY <1>0, <1>1 DEF Create, TaskState
    <3>4. \A t \in Tasks : In(t) => task[t].run = 0
      BY <1>1 DEF Create, RunsFresh
    <3> QED
      BY <3>1, <3>2, <3>3, <3>4
  <2>2. \A r \in Live : r[2] = task'[r[1]].run
    <3> SUFFICES ASSUME NEW r \in Live PROVE ~In(r[1])
      BY <2>1, RunParts DEF Live, RunOrder
    <3>1. r[2] = task[r[1]].run /\ r[2] \in 1..MaxRun /\ r[1] \in Tasks
      BY RunParts DEF Live, RunOrder
    <3> QED
      BY <2>1, <3>1
  <2>3. \A d \in open' : \A i \in DOMAIN d : task'[d[i]].run = 1
    <3> SUFFICES ASSUME NEW d \in open', NEW i \in DOMAIN d PROVE task'[d[i]].run = 1
      OBVIOUS
    <3>1. CASE d = b
      BY <2>1, <3>1, BatchTasks
    <3>2. CASE d \in open
      <4>1. d[i] \in Tasks /\ task[d[i]].run = 1
        BY <1>0, <3>2 DEF RunOrder
      <4> QED
        BY <2>1, <4>1
    <3> QED
      BY <2>1, <3>1, <3>2
  <2> QED
    BY <2>1, <2>2, <2>3 DEF RunOrder, Live
<1>2. ASSUME NEW b \in Batches, CreateStart(b) PROVE RunOrder'
  <2> DEFINE Begins(r) == r[2] = 1 /\ \E i \in DOMAIN b : b[i] = r[1]
  <2>1. /\ b \in open /\ open' = open \ {b} /\ UNCHANGED <<task, done, closed, call>>
        /\ \A r \in Runs : pc'[r] = IF Begins(r) THEN "start" ELSE pc[r]
    BY <1>2 DEF CreateStart
  <2>2. \A r \in Runs : Begins(r) => pc[r] = "none" /\ r[2] = task[r[1]].run
    <3> SUFFICES ASSUME NEW r \in Runs, NEW i \in DOMAIN b, r[2] = 1, b[i] = r[1]
                 PROVE  pc[r] = "none" /\ r[2] = task[r[1]].run
      OBVIOUS
    <3>1. r = <<b[i], 1>>
      BY DEF Runs
    <3> QED
      BY <2>1, <3>1 DEF RunOrder, RunsFresh
  <2>3. \A r \in Live' : r[2] = task[r[1]].run
    BY <2>1, <2>2 DEF Live, RunOrder
  <2>4. \A r \in Runs : pc'[r] \notin {"none", "start", "lost"} => done[r] = r
    BY <2>1 DEF RunOrder
  <2>5. \A r \in closed : r \in Runs /\ pc'[r] = "end"
    BY <2>1, <2>2 DEF RunOrder
  <2> QED
    BY <2>1, <2>3, <2>4, <2>5 DEF RunOrder
<1>3. ASSUME \A t \in Tasks : task'[t].run = task[t].run, pc' = pc \/ pc' = Woken(pc),
             UNCHANGED <<done, closed, call>>, open' \subseteq open
      PROVE  RunOrder'
  <2>1. \A s \in Runs : pc'[s] = pc[s] \/ (pc[s] = "wait" /\ pc'[s] = "acquire")
    BY <1>3 DEF Woken
  <2>2. \A r \in Live' : r[2] = task'[r[1]].run
    BY <1>3, <2>1, RunParts DEF Live, RunOrder
  <2>3. \A r \in Runs : pc'[r] \notin {"none", "start", "lost"} => done'[r] = r
    BY <1>3, <2>1 DEF RunOrder
  <2>4. \A r \in closed' : r \in Runs /\ pc'[r] = "end"
    BY <1>3, <2>1 DEF RunOrder
  <2>5. \A b \in open' : \A i \in DOMAIN b : task'[b[i]].run = 1
    BY <1>0, <1>3 DEF RunOrder
  <2> QED
    BY <2>2, <2>3, <2>4, <2>5 DEF RunOrder
<1>4. ASSUME NEW b \in Batches, CreateRollback(b) PROVE RunOrder'
  <2>1. \A t \in Tasks : Dropped(task[t]).run = task[t].run
    BY <1>0 DEF Dropped, TaskState
  <2>2. \A t \in Tasks : task'[t] = task[t] \/ task'[t] = Dropped(task[t])
    BY <1>4 DEF CreateRollback
  <2> QED
    BY <1>3, <1>4, <2>1, <2>2 DEF CreateRollback
<1>5. ASSUME NEW l \in Limits, RefreshConcurrencyLimit(l) PROVE RunOrder'
  BY <1>3, <1>5 DEF RefreshConcurrencyLimit
<1>6. CASE Stop
  <2>1. \A t \in Tasks : [task[t] EXCEPT !.mode = "pause"].run = task[t].run
    BY <1>0 DEF TaskState
  <2>2. \A t \in Tasks : task'[t] = task[t] \/ task'[t] = [task[t] EXCEPT !.mode = "pause"]
    BY <1>6 DEF Stop
  <2> QED
    BY <1>3, <1>6, <2>1, <2>2 DEF Stop
<1>7. CASE OpenGate
  BY <1>3, <1>7 DEF OpenGate
<1> QED
  BY <1>1, <1>2, <1>4, <1>5, <1>6, <1>7 DEF Service

\* Who waits, waits for the present run, if nobody else can start one meanwhile.
LEMMA WaitsStep ==
  ASSUME Serial, TypeOK, RunsFresh, WaitsCurrent, NoteReady, [Next]_vars
  PROVE  WaitsCurrent'
<1>0. /\ \A c \in Callers : call[c].op \in WaitOps => call[c].t \in Tasks
      /\ \A t \in Tasks : task[t] \in TaskState
  BY CallFields DEF TypeOK, WaitOps
<1> DEFINE SameRuns == \A t \in Tasks : task'[t].run = task[t].run
<1>a. SameRuns /\ UNCHANGED call => WaitsCurrent'
  BY <1>0 DEF WaitsCurrent
<1> USE DEF taskVars, slotVars, runVars, mgrVars, Begin, Return
<1>1. CASE UNCHANGED vars
  BY <1>1, <1>a DEF vars
<1>2. ASSUME NEW r \in Runs, Worker(r) PROVE WaitsCurrent'
  BY <1>2, <1>a, WorkerRuns, WorkerSameTasks
<1>3. ASSUME NEW c \in Callers, Handler(c) PROVE WaitsCurrent'
  <2>a. ASSUME NEW n, n.op \notin WaitOps, call' = [call EXCEPT ![c] = n]
        PROVE  WaitsCurrent'
    BY <2>a DEF WaitsCurrent, Serial, TypeOK
  <2>b. ASSUME NEW n, call' = [call EXCEPT ![c] = n], SameRuns,
               n.t \in Tasks, n.run # 0, n.run = task[n.t].run
        PROVE  WaitsCurrent'
    BY <2>b DEF WaitsCurrent, Serial, TypeOK
  <2>c. Idle.op \notin WaitOps
    BY DEF Idle, WaitOps
  <2>1. ASSUME NEW t \in Tasks, Resume(c, t) PROVE WaitsCurrent'
    <3> DEFINE n == [op |-> "resumeWait", t |-> t, run |-> task[t].run]
    <3>1. task[t].run # 0
      BY <2>1 DEF Resume, Stopped, RunsFresh
    <3>2. call' = [call EXCEPT ![c] = n] /\ SameRuns
      BY <2>1 DEF Resume
    <3>3. n.t = t /\ n.run = task[t].run
      OBVIOUS
    <3> HIDE DEF n
    <3> QED
      BY <2>b, <3>1, <3>2, <3>3
  <2>2. ASSUME NEW t \in Tasks, Pause(c, t) PROVE WaitsCurrent'
    <3> DEFINE n == [op |-> "pauseCancel", t |-> t, run |-> task[t].run,
                     cancel |-> task[t].cancel]
    <3>1. call' = [call EXCEPT ![c] = n]
      BY <2>2 DEF Pause
    <3>2. n.op \notin WaitOps
      BY DEF WaitOps
    <3> HIDE DEF n
    <3> QED
      BY <2>a, <3>1, <3>2
  <2>3. ASSUME NEW t \in Tasks, Delete(c, t) PROVE WaitsCurrent'
    <3> DEFINE n == [op |-> "delCancel", t |-> t, run |-> task[t].run,
                     cancel |-> task[t].cancel]
               m == [op |-> "delPop", t |-> t]
    <3>1. call' = [call EXCEPT ![c] = n] \/ call' = [call EXCEPT ![c] = m]
      BY <2>3 DEF Delete
    <3>2. task[t].run # 0
      BY <2>3 DEF Delete, InMap, Absent, RunsFresh
    <3>3. SameRuns
      <4> DEFINE rec == [task[t] EXCEPT !.mode = "delete",
                           !.status = IF task[t].status \in Active THEN "canceled"
                                      ELSE task[t].status]
      <4>1. UNCHANGED task \/ task' = [task EXCEPT ![t] = rec]
        BY <2>3 DEF Delete
      <4>2. rec.run = task[t].run
        BY <1>0 DEF TaskState
      <4> HIDE DEF rec
      <4> QED
        BY <4>1, <4>2 DEF TypeOK
    <3>4. n.t = t /\ n.run = task[t].run /\ m.op \notin WaitOps
      BY DEF WaitOps
    <3> HIDE DEF n, m
    <3> QED
      BY <2>a, <2>b, <3>1, <3>2, <3>3, <3>4
  <2>4. CASE CallCancel(c)
    <3> DEFINE n == [op |-> "delWait", t |-> call[c].t, run |-> call[c].run]
    <3>1. \/ call' = [call EXCEPT ![c] = Idle]
          \/ call[c].op = "delCancel" /\ call' = [call EXCEPT ![c] = n]
      BY <2>4 DEF CallCancel
    <3>2. n.t = call[c].t /\ n.run = call[c].run
      OBVIOUS
    <3>3. SameRuns
      BY <2>4 DEF CallCancel
    <3>4. call[c].op = "delCancel" =>
            call[c].t \in Tasks /\ call[c].run # 0 /\ call[c].run = task[call[c].t].run
      BY <1>0 DEF WaitsCurrent, WaitOps
    <3> HIDE DEF n
    <3> QED
      BY <2>a, <2>b, <2>c, <3>1, <3>2, <3>3, <3>4
  <2>5. CASE ResumeQueue(c) \/ ResumeAbandoned(c) \/ DeletePop(c)
    BY <2>5, <2>a, <2>c DEF ResumeQueue, ResumeAbandoned, DeletePop
  <2>6. CASE DeleteWaited(c) \/ DeleteTimeout(c)
    <3> DEFINE n == [op |-> "delPop", t |-> call[c].t]
    <3>1. call' = [call EXCEPT ![c] = Idle] \/ call' = [call EXCEPT ![c] = n]
      BY <2>6 DEF DeleteWaited, DeleteTimeout
    <3>2. n.op \notin WaitOps
      BY DEF WaitOps
    <3> HIDE DEF n
    <3> QED
      BY <2>a, <2>c, <3>1, <3>2
  <2> QED
    BY <1>3, <2>1, <2>2, <2>3, <2>4, <2>5, <2>6 DEF Handler
<1>4. CASE Service
  <2>1. ASSUME NEW b \in Batches, Create(b) PROVE WaitsCurrent'
    <3>1. \A c \in Callers : call[c].op \in WaitOps =>
            ~ \E i \in DOMAIN b : b[i] = call[c].t
      BY <1>0, <2>1 DEF Create, RunsFresh, WaitsCurrent
    <3>2. \A t \in Tasks : (~ \E i \in DOMAIN b : b[i] = t) => task'[t] = task[t]
      BY <2>1 DEF Create
    <3>3. UNCHANGED call
      BY <2>1 DEF Create
    <3> QED
      BY <1>0, <3>1, <3>2, <3>3 DEF WaitsCurrent
  <2>2. ASSUME NEW b \in Batches, CreateStart(b) PROVE WaitsCurrent'
    BY <2>2, <1>a DEF CreateStart
  <2>3. ASSUME NEW b \in Batches, CreateRollback(b) PROVE WaitsCurrent'
    <3>1. SameRuns
      BY <1>0, <2>3 DEF CreateRollback, Dropped, TaskState
    <3> QED
      BY <2>3, <3>1, <1>a DEF CreateRollback
  <2>4. CASE Stop
    <3>1. SameRuns
      BY <1>0, <2>4 DEF Stop, TaskState
    <3> QED
      BY <2>4, <3>1, <1>a DEF Stop
  <2>5. CASE (\E l \in Limits : RefreshConcurrencyLimit(l)) \/ OpenGate
    BY <2>5, <1>a DEF RefreshConcurrencyLimit, OpenGate
  <2> QED
    BY <1>4, <2>1, <2>2, <2>3, <2>4, <2>5 DEF Service
<1> QED
  BY <1>1, <1>2, <1>3, <1>4 DEF Next

LEMMA OrderInit == Init => RunOrder /\ WaitsCurrent
<1> SUFFICES ASSUME Init PROVE RunOrder /\ WaitsCurrent
  OBVIOUS
<1>1. \A c \in Callers : call[c].op = "idle"
  BY DEF Init, Idle
<1>2. Live = {} /\ closed = {} /\ open = {} /\ \A r \in Runs : pc[r] = "none"
  BY DEF Init, Live
<1> QED
  BY <1>1, <1>2 DEF RunOrder, WaitsCurrent, WaitOps

LEMMA OrderStep ==
  ASSUME Inv, RunOrder, [Next]_vars, OneRunPerTask' \/ WaitsCurrent
  PROVE  RunOrder'
<1>1. CASE UNCHANGED vars
  BY <1>1 DEF vars, taskVars, runVars, mgrVars, RunOrder, Live
<1>2. CASE \E r \in Runs : Worker(r)
  BY <1>2, WorkerOrder DEF Inv
<1>3. CASE \E c \in Callers : Handler(c)
  BY <1>3, HandlerOrder DEF Inv
<1>4. CASE Service
  BY <1>4, ServiceOrder DEF Inv
<1> QED
  BY <1>1, <1>2, <1>3, <1>4 DEF Next

LEMMA OrderAlways == Serial /\ Spec => []RunOrder
<1> SUFFICES ASSUME Serial PROVE Spec => []RunOrder
  OBVIOUS
<1>1. Inv /\ RunOrder /\ WaitsCurrent /\ [Next]_vars => RunOrder' /\ WaitsCurrent'
  BY OrderStep, WaitsStep DEF Inv
<1> QED
  BY <1>1, OrderInit, InvAlways, PTL DEF Spec

\* As long as the handlers' calls do not overlap, however they interleave with the
\* workers, a task never has two workers.
THEOREM OneWorkerWhenSerial == Serial /\ Spec => []OneRunPerTask
<1>1. RunOrder => OneRunPerTask
  BY DEF RunOrder, OneRunPerTask, Live, Runs
<1> QED
  BY <1>1, OrderAlways, PTL

\* Under the same assumption close(done) never meets a closed channel.
THEOREM ChannelsClosedOnceWhenSerial == Serial /\ Spec => []ChannelClosedOnce
<1>1. RunOrder => ChannelClosedOnce
  BY DEF RunOrder, ChannelClosedOnce, Live
<1> QED
  BY <1>1, OrderAlways, PTL

-----------------------------------------------------------------------------
(***************************************************************************)
(* No task is forgotten, as long as no task has two workers.               *)
(***************************************************************************)
LEMMA WorkerLive == ASSUME TypeOK, NEW r \in Runs, Worker(r) PROVE r \in Live
<1>1. CASE RunStart(r) \/ RunGate(r) \/ Acquire(r) \/ Park(r) \/ GiveUp(r) \/ Exit(r)
  BY <1>1 DEF RunStart, RunGate, Acquire, Park, GiveUp, Exit, Live
<1>2. CASE \/ Release(r) \/ TransferRefused(r) \/ TransferStart(r) \/ Progress(r)
           \/ TransferFails(r) \/ FailureVerdict(r) \/ UploadSucceeds(r)
           \/ TransferPatch(r) \/ DownloadSucceeds(r)
  BY <1>2 DEF Release, TransferRefused, TransferStart, Progress, TransferFails,
              FailureVerdict, UploadSucceeds, TransferPatch, DownloadSucceeds, Live
<1> QED
  BY <1>1, <1>2 DEF Worker

\* What a worker writes into the record of its task.
LEMMA WorkerWrites ==
  ASSUME TypeOK, NoteReady, NEW r \in Runs, Worker(r)
  PROVE  /\ \A u \in Tasks \ {r[1]} : task'[u] = task[u]
         /\ task'[r[1]].mode = task[r[1]].mode
         /\ InMap(r[1])' <=> InMap(r[1])
         /\ \/ task'[r[1]].cancel = task[r[1]].cancel
            \/ /\ pc[r] = "acquire" /\ task[r[1]].status = "pending"
               /\ task'[r[1]].cancel = r
            \/ pc[r] = "exit" /\ task'[r[1]].cancel = NoRun
         /\ pc[r] \notin DownloadPCs \cup UploadPCs =>
              task'[r[1]].status = task[r[1]].status
         /\ UNCHANGED <<stopping, canceled>>
<1> DEFINE t == r[1]
           D == DownloadPCs \cup UploadPCs
<1>0. t \in Tasks /\ task[t] \in TaskState /\ r \in Runs
  BY RunParts DEF TypeOK
<1>a. ASSUME UNCHANGED task
      PROVE  /\ \A u \in Tasks \ {t} : task'[u] = task[u]
             /\ task'[t] = task[t] /\ InMap(t)' <=> InMap(t)
  BY <1>a DEF InMap
<1>b. ASSUME NEW rec, task' = [task EXCEPT ![t] = rec]
      PROVE  /\ \A u \in Tasks \ {t} : task'[u] = task[u]
             /\ task'[t] = rec
             /\ InMap(t)' <=> rec.status \notin Absent
  BY <1>0, <1>b DEF InMap, TypeOK
<1>c. /\ \A v \in {"pending", "running", "failed", "paused", "canceled", "success"} :
           v \notin Absent
      /\ InMap(t) <=> task[t].status \notin Absent
  BY DEF InMap, Absent
<1> USE DEF taskVars, runVars, mgrVars
<1>1. CASE RunStart(r) \/ RunGate(r) \/ Park(r) \/ GiveUp(r) \/ Release(r)
  BY <1>1, <1>a DEF RunStart, RunGate, Park, GiveUp, Release
<1>2. CASE TransferFails(r) \/ FailureVerdict(r) \/ UploadSucceeds(r)
  BY <1>2, <1>a DEF TransferFails, FailureVerdict, UploadSucceeds
<1>3. CASE Acquire(r)
  <2> DEFINE rec == [task[t] EXCEPT !.prio = FALSE, !.cancel = r]
  <2>1. /\ rec.mode = task[t].mode /\ rec.status = task[t].status /\ rec.cancel = r
        /\ task' = [task EXCEPT ![t] = rec]
        /\ pc[r] = "acquire" /\ task[t].status = "pending" /\ UNCHANGED <<stopping, canceled>>
    BY <1>0, <1>3 DEF Acquire, MayRun, TaskState
  <2> HIDE DEF rec
  <2> QED
    BY <1>b, <1>c, <2>1
<1>4. CASE Exit(r)
  <2> DEFINE rec == [task[t] EXCEPT !.cancel = NoRun]
  <2>1. /\ rec.mode = task[t].mode /\ rec.status = task[t].status /\ rec.cancel = NoRun
        /\ UNCHANGED task \/ task' = [task EXCEPT ![t] = rec]
        /\ pc[r] = "exit" /\ UNCHANGED <<stopping, canceled>>
    BY <1>0, <1>4 DEF Exit, TaskState, TypeOK
  <2> HIDE DEF rec
  <2> QED
    BY <1>a, <1>b, <1>c, <2>1
<1>d. ASSUME NEW v \in {"pending", "running", "failed", "paused", "canceled", "success"},
             NEW p, pc[r] \in D, UNCHANGED <<stopping, canceled>>,
             \/ UNCHANGED task
             \/ InMap(t) /\ task' = [task EXCEPT ![t] = [task[t] EXCEPT !.status = v, !.phase = p]]
      PROVE  /\ \A u \in Tasks \ {t} : task'[u] = task[u]
             /\ task'[t].mode = task[t].mode /\ task'[t].cancel = task[t].cancel
             /\ InMap(t)' <=> InMap(t)
  <2> DEFINE rec == [task[t] EXCEPT !.status = v, !.phase = p]
  <2>1. rec.mode = task[t].mode /\ rec.status = v /\ rec.cancel = task[t].cancel
    BY <1>0 DEF TaskState
  <2>2. CASE UNCHANGED task
    BY <1>a, <2>2
  <2>3. CASE InMap(t) /\ task' = [task EXCEPT ![t] = rec]
    <3> HIDE DEF rec
    <3> QED
      BY <1>b, <1>c, <2>1, <2>3
  <2> QED
    BY <1>d, <2>2, <2>3
<1>e. /\ \A q \in {"dlInit", "dl", "dlErr", "dlPatch", "upInit", "up", "upErr", "upPatch"} : q \in D
      /\ [task[t] EXCEPT !.status = "failed"]
           = [task[t] EXCEPT !.status = "failed", !.phase = task[t].phase]
  BY <1>0 DEF DownloadPCs, UploadPCs, TaskState
<1>5. CASE TransferRefused(r)
  <2>1. /\ pc[r] \in D /\ UNCHANGED <<stopping, canceled>>
        /\ \/ UNCHANGED task
           \/ InMap(t) /\ task' = [task EXCEPT ![t] = [task[t] EXCEPT !.status = "failed"]]
    BY <1>5, <1>e DEF TransferRefused, Patch
  <2> QED
    BY <1>d, <1>e, <2>1
<1>6. CASE TransferStart(r)
  BY <1>6, <1>d, <1>e DEF TransferStart
<1>7. CASE Progress(r)
  BY <1>7, <1>d, <1>e DEF Progress
<1>8. CASE TransferPatch(r)
  <2>1. note[r] \in {"paused", "canceled", "failed", "success"}
    BY <1>8 DEF TransferPatch, NoteReady
  <2> QED
    BY <1>8, <1>d, <1>e, <2>1 DEF TransferPatch, Patch
<1>9. CASE DownloadSucceeds(r)
  <2>1. /\ pc[r] \in D /\ UNCHANGED <<stopping, canceled>>
        /\ \/ UNCHANGED task
           \/ /\ InMap(t)
              /\ task' = [task EXCEPT ![t] =
                   [task[t] EXCEPT !.status = "pending", !.phase = "uploading"]]
    <3>1. [task EXCEPT ![t] = task[t]] = task
      BY <1>0 DEF TypeOK
    <3> QED
      BY <1>9, <1>e, <3>1 DEF DownloadSucceeds, Patch
  <2> QED
    BY <1>d, <2>1
<1> QED
  BY <1>1, <1>2, <1>3, <1>4, <1>5, <1>6, <1>7, <1>8, <1>9 DEF Worker

\* A cancel function that is stored, about to be called, or has been called
\* belongs to a run that was begun; and if that run still lives, its task still
\* says why (mode), since only the start of another run clears that.
Told(r) ==
  \/ r \in canceled
  \/ \E c \in Callers : call[c].op \in {"pauseCancel", "delCancel"} /\ call[c].cancel = r
Begun(t) == task[t].cancel # NoRun =>
  task[t].cancel[1] = t /\ pc[task[t].cancel] # "none"
CancelKnown ==
  /\ \A t \in Tasks : Begun(t)
  /\ \A r \in Runs : Told(r) =>
       pc[r] # "none" /\ (r \in Live /\ InMap(r[1]) => task[r[1]].mode # "")

\* A pending task that nobody has paused or deleted is either in a batch that is
\* being created or has a worker that has not decided to end.
ServingPCs == PCs \ {"none", "end", "lost", "exit", "dlRel", "upRel"}
InOpenBatch(t) == \E b \in open : \E i \in DOMAIN b : b[i] = t
ServedTask(t) ==
  task[t].status = "pending" /\ task[t].mode = "" /\ ~stopping =>
    \/ InOpenBatch(t)
    \/ \E r \in Runs : r[1] = t /\ pc[r] \in ServingPCs
Served == \A t \in Tasks : ServedTask(t)

LEMMA WorkerCancel ==
  ASSUME TypeOK, NoteReady, CancelKnown, NEW r \in Runs, Worker(r)
  PROVE  CancelKnown'
<1>0. r[1] \in Tasks /\ \A s \in Runs : s[1] \in Tasks
  BY RunParts
<1>1. /\ \A s \in Runs : pc'[s] = "none" <=> pc[s] = "none"
      /\ \A s \in Runs : s \in Live' => s \in Live
      /\ UNCHANGED <<call, canceled>>
  BY WorkerRuns, WorkerWrites DEF Live
<1>2. \A u \in Tasks : /\ task'[u].mode = task[u].mode /\ (InMap(u)' <=> InMap(u))
                       /\ \/ task'[u].cancel \in {task[u].cancel, NoRun}
                          \/ u = r[1] /\ task'[u].cancel = r /\ pc[r] # "none"
  BY <1>0, WorkerWrites DEF InMap
<1>3. \A t \in Tasks : Begun(t)'
  <2> SUFFICES ASSUME NEW t \in Tasks PROVE Begun(t)'
    OBVIOUS
  <2>1. task[t].cancel \in Runs \cup {NoRun} /\ Begun(t)
    BY DEF TypeOK, TaskState, CancelKnown
  <2>2. CASE task'[t].cancel = NoRun
    BY <2>2 DEF Begun
  <2>3. CASE task'[t].cancel = task[t].cancel
    BY <1>1, <2>1, <2>3 DEF Begun
  <2>4. CASE t = r[1] /\ task'[t].cancel = r /\ pc[r] # "none"
    BY <1>1, <2>4 DEF Begun
  <2> QED
    BY <1>2, <2>2, <2>3, <2>4
<1> QED
  BY <1>0, <1>1, <1>2, <1>3 DEF CancelKnown, Told

LEMMA WorkerServed ==
  ASSUME TypeOK, NoteReady, RunOrder, CancelKnown, Served, NEW r \in Runs, Worker(r)
  PROVE  Served'
<1> DEFINE t == r[1]
           Wanted == task[t].status = "pending" /\ task[t].mode = "" /\ ~stopping
<1>0. t \in Tasks /\ r = <<t, r[2]>> /\ pc[r] \in PCs
  <2>1. r = <<t, r[2]>>
    BY DEF Runs
  <2> QED
    BY <2>1, RunParts DEF TypeOK
<1>1. \A s \in Runs : s # r /\ pc[s] \in ServingPCs => pc'[s] \in ServingPCs
  BY WorkerRuns DEF ServingPCs, PCs
<1>2. UNCHANGED <<open, stopping>>
  BY WorkerRuns, WorkerWrites
<1>3. \A u \in Tasks \ {t} : ServedTask(u)'
  <2> SUFFICES ASSUME NEW u \in Tasks, u # t PROVE ServedTask(u)'
    OBVIOUS
  <2>1. task'[u] = task[u]
    BY WorkerWrites
  <2>2. InOpenBatch(u) => InOpenBatch(u)'
    BY <1>2 DEF InOpenBatch
  <2> QED
    BY <1>1, <1>2, <2>1, <2>2 DEF Served, ServedTask
<1>4. ASSUME Wanted', pc'[r] \notin ServingPCs
      PROVE  Wanted /\ pc[r] \notin ServingPCs
  <2>0. /\ ~stopping /\ task[t].mode = "" /\ InMap(t)
        /\ pc[r] \notin {"none", "end", "lost"}
    <3>1. InMap(t)'
      BY <1>4 DEF InMap, Absent
    <3>2. InMap(t) /\ task[t].mode = ""
      BY <1>4, <3>1, WorkerWrites
    <3>3. pc[r] \notin {"none", "end", "lost"}
      BY WorkerLive DEF Live
    <3> QED
      BY <1>2, <1>4, <3>2, <3>3
  <2>1. ~Canceled(r)
    BY <2>0 DEF Canceled, CancelKnown, Told, Live
  <2>2. \A x : Go(r, x) => pc'[r] = x
    BY DEF Go, TypeOK
  <2> USE <2>0, <2>2 DEF taskVars
  <2>3. CASE RunStart(r) \/ RunGate(r) \/ Acquire(r) \/ Park(r)
    BY <1>4, <2>1, <2>3 DEF RunStart, RunGate, Acquire, Park, ServingPCs, PCs,
                          DownloadPCs, UploadPCs
  <2>4. CASE GiveUp(r)
    <3>1. pc[r] = "acquire" /\ task' = task
      BY <2>4 DEF GiveUp
    <3>2. done[r] = r /\ r[2] = task[t].run
      BY <3>1 DEF RunOrder, Live
    <3> QED
      BY <1>0, <1>4, <2>4, <3>1, <3>2 DEF GiveUp, MayRun
  <2>5. CASE Release(r) \/ Exit(r)
    <3>1. task'[t].status = task[t].status
      BY <2>5, <1>0, WorkerWrites DEF Release, Exit, DownloadPCs, UploadPCs
    <3>2. pc[r] # "dlNext"
      BY <1>4, <2>5 DEF Release, Exit, AfterRelease, ServingPCs, PCs, TypeOK, Woken
    <3>3. pc[r] \in {"dlRel", "upRel", "exit"}
      BY <2>5, <3>2 DEF Release, Exit
    <3> QED
      BY <1>4, <3>1, <3>3 DEF ServingPCs
  <2>6. CASE TransferRefused(r)
    BY <1>0, <1>4, <2>6 DEF TransferRefused, Patch, TypeOK, TaskState
  <2>7. CASE TransferStart(r)
    BY <1>4, <2>1, <2>7 DEF TransferStart, ServingPCs, PCs, DownloadPCs, UploadPCs
  <2>8. CASE Progress(r)
    BY <1>0, <1>4, <2>8 DEF Progress, TypeOK, TaskState
  <2>9. CASE TransferFails(r) \/ FailureVerdict(r) \/ UploadSucceeds(r) \/ DownloadSucceeds(r)
    BY <1>4, <2>9 DEF TransferFails, FailureVerdict, UploadSucceeds, DownloadSucceeds,
                      ServingPCs, PCs, DownloadPCs, UploadPCs
  <2>10. CASE TransferPatch(r)
    <3>1. note[r] # "pending"
      BY <2>10 DEF TransferPatch, NoteReady
    <3> QED
      BY <1>0, <1>4, <2>10, <3>1 DEF TransferPatch, Patch, TypeOK, TaskState
  <2> QED
    BY <2>3, <2>4, <2>5, <2>6, <2>7, <2>8, <2>9, <2>10 DEF Worker
<1>5. ServedTask(t)'
  <2>1. CASE pc'[r] \in ServingPCs
    BY <2>1 DEF ServedTask
  <2>2. CASE pc'[r] \notin ServingPCs /\ Wanted'
    <3>1. Wanted /\ pc[r] \notin ServingPCs
      BY <1>4, <2>2
    <3>2. \/ InOpenBatch(t)
          \/ \E s \in Runs : s[1] = t /\ pc[s] \in ServingPCs
      BY <1>0, <3>1 DEF Served, ServedTask
    <3>3. InOpenBatch(t) => InOpenBatch(t)'
      BY <1>2 DEF InOpenBatch
    <3> QED
      BY <1>1, <3>1, <3>2, <3>3 DEF ServedTask
  <2> QED
    BY <2>1, <2>2 DEF ServedTask
<1> QED
  BY <1>3, <1>5 DEF Served

\* Steps that begin no run, and after which a task that is still there has kept
\* its mode or got another one.
LEMMA CancelFrame ==
  ASSUME TypeOK, CancelKnown,
         \A s \in Runs : (pc'[s] = "none" <=> pc[s] = "none") /\ (s \in Live' => s \in Live),
         \A u \in Tasks :
           /\ task'[u].cancel \in {task[u].cancel, NoRun}
           /\ InMap(u)' => InMap(u) /\ (task'[u].mode = task[u].mode \/ task'[u].mode # ""),
         \A s \in Runs : Told(s)' => Told(s) \/ (pc[s] # "none" /\ task'[s[1]].mode # "")
  PROVE  CancelKnown'
<1>1. \A t \in Tasks : Begun(t)'
  <2> SUFFICES ASSUME NEW t \in Tasks, task'[t].cancel # NoRun
               PROVE  task'[t].cancel[1] = t /\ pc'[task'[t].cancel] # "none"
    BY DEF Begun
  <2>1. task'[t].cancel = task[t].cancel /\ task[t].cancel \in Runs \cup {NoRun}
    BY DEF TypeOK, TaskState
  <2> QED
    BY <2>1 DEF CancelKnown, Begun
<1>2. \A s \in Runs : Told(s)' =>
        pc'[s] # "none" /\ (s \in Live' /\ InMap(s[1])' => task'[s[1]].mode # "")
  BY RunParts DEF CancelKnown
<1> QED
  BY <1>1, <1>2 DEF CancelKnown

\* Steps that make no task pending and no worker end.
LEMMA ServedFrame ==
  ASSUME TypeOK, Served,
         \A s \in Runs : pc[s] \in ServingPCs => pc'[s] \in ServingPCs,
         UNCHANGED open, stopping => stopping',
         \A u \in Tasks : task'[u].status = "pending" /\ task'[u].mode = "" =>
           task[u].status = "pending" /\ task[u].mode = ""
  PROVE  Served'
<1> SUFFICES ASSUME NEW u \in Tasks, task'[u].status = "pending", task'[u].mode = "",
                    ~stopping'
             PROVE  \/ InOpenBatch(u)'
                    \/ \E s \in Runs : s[1] = u /\ pc'[s] \in ServingPCs
  BY DEF Served, ServedTask
<1>1. InOpenBatch(u) => InOpenBatch(u)'
  BY DEF InOpenBatch
<1> QED
  BY <1>1 DEF Served, ServedTask

LEMMA WokenRuns ==
  ASSUME TypeOK, pc' = pc \/ pc' = Woken(pc)
  PROVE  /\ \A s \in Runs : (pc'[s] = "none" <=> pc[s] = "none") /\ (s \in Live' => s \in Live)
         /\ \A s \in Runs : pc[s] \in ServingPCs => pc'[s] \in ServingPCs
  BY DEF Woken, Live, ServingPCs, PCs

\* The start of a run makes its task pending with a worker that nobody told to end.
LEMMA StartKnown ==
  ASSUME TypeOK, RunsFresh, RunOrder, CancelKnown, Served, OneRunPerTask',
         NEW c \in Callers, ResumeQueue(c), NEW t \in Tasks, t = call[c].t,
         task[t].status \in Stopped, task[t].run < MaxRun,
         task'[t].status = "pending", task'[t].cancel = task[t].cancel,
         \A u \in Tasks \ {t} : task'[u] = task[u],
         Go(<<t, NextRun(t)>>, "start")
  PROVE  CancelKnown' /\ Served'
<1> DEFINE s == <<t, NextRun(t)>>
<1>1. task[t].run \in 0..MaxRun /\ NextRun(t) \in 1..MaxRun
  <2>1. task[t].run \in 0..MaxRun
    BY DEF TypeOK, TaskState
  <2> QED
    BY <2>1, Constants DEF NextRun
<1>2. s \in Runs /\ pc[s] = "none"
  <2>1. s \in Runs
    BY <1>1 DEF Runs
  <2> QED
    BY <1>1, <2>1 DEF RunsFresh, NextRun
<1>3. pc'[s] = "start" /\ \A r \in Runs \ {s} : pc'[r] = pc[r]
  BY <1>2 DEF Go, TypeOK
<1>4. UNCHANGED <<canceled, open, stopping>> /\ call' = [call EXCEPT ![c] = Idle]
  BY DEF ResumeQueue, Return, Begin, mgrVars
<1>5. \A r \in Runs : Told(r)' => Told(r)
  BY <1>4 DEF Told, TypeOK, Idle
<1>6. ~Told(s)
  BY <1>2 DEF CancelKnown
<1>7. \A r \in Runs : r[1] = t /\ r # s => r \notin Live'
  <2>1. s \in Live'
    BY <1>2, <1>3 DEF Live
  <2> QED
    BY <2>1 DEF OneRunPerTask
<1>8. \A u \in Tasks : Begun(u)'
  <2> SUFFICES ASSUME NEW u \in Tasks, task'[u].cancel # NoRun
               PROVE  task'[u].cancel[1] = u /\ pc'[task'[u].cancel] # "none"
    BY DEF Begun
  <2>1. task'[u].cancel = task[u].cancel /\ task[u].cancel \in Runs \cup {NoRun}
    BY DEF TypeOK, TaskState
  <2> QED
    BY <1>3, <2>1 DEF CancelKnown, Begun
<1>9. \A r \in Runs : Told(r)' =>
        pc'[r] # "none" /\ (r \in Live' /\ InMap(r[1])' => task'[r[1]].mode # "")
  <2> SUFFICES ASSUME NEW r \in Runs, Told(r)'
               PROVE  pc'[r] # "none" /\ (r \in Live' /\ InMap(r[1])' => task'[r[1]].mode # "")
    OBVIOUS
  <2>1. Told(r) /\ r # s /\ pc'[r] = pc[r] /\ pc[r] # "none"
    BY <1>3, <1>5, <1>6 DEF CancelKnown
  <2>2. CASE r[1] = t
    BY <1>7, <2>1, <2>2
  <2>3. CASE r[1] # t
    <3>1. task'[r[1]] = task[r[1]]
      BY <2>3, RunParts
    <3> QED
      BY <2>1, <3>1 DEF CancelKnown, Live, InMap
  <2> QED
    BY <2>2, <2>3
<1>10. Served'
  <2> SUFFICES ASSUME NEW u \in Tasks PROVE ServedTask(u)'
    BY DEF Served
  <2>1. "start" \in ServingPCs
    BY DEF ServingPCs, PCs
  <2>2. CASE u = t
    BY <1>2, <1>3, <2>1, <2>2 DEF ServedTask
  <2>3. CASE u # t
    <3>1. \A r \in Runs : pc[r] \in ServingPCs => pc'[r] \in ServingPCs
      BY <1>3, <2>1
    <3>2. InOpenBatch(u) => InOpenBatch(u)'
      BY <1>4 DEF InOpenBatch
    <3>3. task'[u] = task[u] /\ (stopping' <=> stopping)
      BY <1>4, <2>3
    <3>4. ServedTask(u)
      BY DEF Served
    <3> QED
      BY <3>1, <3>2, <3>3, <3>4 DEF ServedTask
  <2> QED
    BY <2>2, <2>3
<1> QED
  BY <1>8, <1>9, <1>10 DEF CancelKnown

LEMMA HandlerServed ==
  ASSUME TypeOK, RunsFresh, RunOrder, CancelKnown, Served, OneRunPerTask',
         NEW c \in Callers, Handler(c)
  PROVE  CancelKnown' /\ Served'
<1> DEFINE k == call[c]
           SamePc == pc' = pc \/ pc' = Woken(pc)
           Kept == \A u \in Tasks :
             /\ task'[u].cancel \in {task[u].cancel, NoRun}
             /\ InMap(u)' => InMap(u) /\ (task'[u].mode = task[u].mode \/ task'[u].mode # "")
             /\ task'[u].status = "pending" /\ task'[u].mode = "" =>
                  task[u].status = "pending" /\ task[u].mode = ""
           Telling == \A s \in Runs : Told(s)' =>
             Told(s) \/ (pc[s] # "none" /\ task'[s[1]].mode # "")
<1>0. k \in CallState /\ \A t \in Tasks : task[t] \in TaskState
  BY DEF TypeOK
<1>a. ASSUME SamePc, Kept, Telling, UNCHANGED <<open, stopping>>
      PROVE  CancelKnown' /\ Served'
  BY <1>a, WokenRuns, CancelFrame, ServedFrame
<1>b. UNCHANGED task => Kept
  BY DEF InMap
<1>c. ASSUME UNCHANGED canceled, NEW n, call' = [call EXCEPT ![c] = n],
             n.op \notin {"pauseCancel", "delCancel"}
      PROVE  Telling
  BY <1>c DEF Told, TypeOK
<1>d. Idle.op \notin {"pauseCancel", "delCancel"}
  BY DEF Idle
<1> USE DEF taskVars, slotVars, runVars, mgrVars, Begin, Return
<1>e. ASSUME NEW t \in Tasks, NEW rec, task' = [task EXCEPT ![t] = rec], InMap(t),
             rec.cancel = task[t].cancel, rec.mode # "",
             UNCHANGED <<canceled, pc, open, stopping>>,
             NEW n, call' = [call EXCEPT ![c] = n], n.cancel = task[t].cancel
      PROVE  CancelKnown' /\ Served'
  <2>1. Kept
    BY <1>e DEF InMap, TypeOK
  <2>2. Telling
    <3> SUFFICES ASSUME NEW s \in Runs, Told(s)', ~Told(s)
                 PROVE  pc[s] # "none" /\ task'[s[1]].mode # ""
      OBVIOUS
    <3>1. s = task[t].cancel /\ s # NoRun
      <4>1. s = task[t].cancel
        BY <1>e DEF Told, TypeOK
      <4>2. s = <<s[1], s[2]>>
        BY DEF Runs
      <4> QED
        BY <4>1, <4>2 DEF NoRun
    <3>2. s[1] = t /\ pc[s] # "none"
      BY <3>1 DEF CancelKnown, Begun
    <3> QED
      BY <1>e, <3>2 DEF TypeOK
  <2> QED
    BY <1>a, <1>e, <2>1, <2>2
<1>1. ASSUME NEW t \in Tasks, Pause(c, t) PROVE CancelKnown' /\ Served'
  <2> DEFINE rec == [task[t] EXCEPT !.status = "paused", !.mode = "pause", !.prio = FALSE]
             n == [op |-> "pauseCancel", t |-> t, run |-> task[t].run,
                   cancel |-> task[t].cancel]
  <2>1. /\ task' = [task EXCEPT ![t] = rec] /\ call' = [call EXCEPT ![c] = n]
        /\ InMap(t) /\ UNCHANGED <<canceled, pc, open, stopping>>
    BY <1>1 DEF Pause, Pausable, InMap, Active, Absent
  <2>2. rec.cancel = task[t].cancel /\ rec.mode = "pause" /\ n.cancel = task[t].cancel
    BY <1>0 DEF TaskState
  <2> HIDE DEF rec, n
  <2> QED
    BY <1>e, <2>1, <2>2
<1>2. ASSUME NEW t \in Tasks, Delete(c, t) PROVE CancelKnown' /\ Served'
  <2> DEFINE rec == [task[t] EXCEPT !.mode = "delete",
                       !.status = IF task[t].status \in Active THEN "canceled"
                                  ELSE task[t].status]
             n == [op |-> "delCancel", t |-> t, run |-> task[t].run,
                   cancel |-> task[t].cancel]
             m == [op |-> "delPop", t |-> t]
  <2>1. /\ InMap(t) /\ UNCHANGED <<canceled, pc, open, stopping>>
        /\ \/ UNCHANGED task /\ call' = [call EXCEPT ![c] = m]
           \/ task' = [task EXCEPT ![t] = rec] /\ call' = [call EXCEPT ![c] = n]
    BY <1>2 DEF Delete
  <2>2. rec.cancel = task[t].cancel /\ rec.mode = "delete" /\ n.cancel = task[t].cancel
    BY <1>0 DEF TaskState
  <2>3. m.op \notin {"pauseCancel", "delCancel"}
    OBVIOUS
  <2> HIDE DEF rec, n, m
  <2> QED
    BY <1>a, <1>b, <1>c, <1>e, <2>1, <2>2, <2>3
<1>3. ASSUME NEW t \in Tasks, Resume(c, t) PROVE CancelKnown' /\ Served'
  <2> DEFINE n == [op |-> "resumeWait", t |-> t, run |-> task[t].run]
  <2>1. call' = [call EXCEPT ![c] = n] /\ UNCHANGED <<task, pc, canceled, open, stopping>>
    BY <1>3 DEF Resume
  <2>2. n.op \notin {"pauseCancel", "delCancel"}
    OBVIOUS
  <2> HIDE DEF n
  <2> QED
    BY <1>a, <1>b, <1>c, <2>1, <2>2
<1>4. CASE CallCancel(c)
  <2> DEFINE n == [op |-> "delWait", t |-> k.t, run |-> k.run]
  <2>1. /\ call' = [call EXCEPT ![c] = Idle] \/ call' = [call EXCEPT ![c] = n]
        /\ UNCHANGED <<task, open, stopping>> /\ SamePc
        /\ canceled' = canceled \cup ({k.cancel} \ {NoRun})
        /\ k.op \in {"pauseCancel", "delCancel"}
    BY <1>4 DEF CallCancel, CancelCalled
  <2>2. n.op \notin {"pauseCancel", "delCancel"}
    OBVIOUS
  <2>3. Telling
    <3> HIDE DEF n
    <3> QED
      BY <1>d, <2>1, <2>2 DEF Told, TypeOK
  <2> QED
    BY <1>a, <1>b, <2>1, <2>3
<1>5. CASE DeleteWaited(c) \/ DeleteTimeout(c) \/ ResumeAbandoned(c)
  <2> DEFINE n == [op |-> "delPop", t |-> k.t]
  <2>1. /\ call' = [call EXCEPT ![c] = Idle] \/ call' = [call EXCEPT ![c] = n]
        /\ UNCHANGED <<task, pc, canceled, open, stopping>>
    BY <1>5 DEF DeleteWaited, DeleteTimeout, ResumeAbandoned
  <2>2. n.op \notin {"pauseCancel", "delCancel"}
    OBVIOUS
  <2> HIDE DEF n
  <2> QED
    BY <1>a, <1>b, <1>c, <1>d, <2>1, <2>2
<1>6. CASE DeletePop(c)
  <2>1. /\ call' = [call EXCEPT ![c] = Idle] /\ k.t \in Tasks
        /\ UNCHANGED <<pc, canceled, open, stopping>>
        /\ UNCHANGED task \/ task' = [task EXCEPT ![k.t] = Dropped(task[k.t])]
    BY <1>0, <1>6, CallFields DEF DeletePop
  <2>2. Dropped(task[k.t]).status = "gone" /\ Dropped(task[k.t]).cancel = NoRun
    BY <1>0, <2>1 DEF Dropped, TaskState
  <2>3. Kept
    BY <1>b, <2>1, <2>2 DEF TypeOK, InMap, Absent
  <2> QED
    BY <1>a, <1>c, <1>d, <2>1, <2>3
<1>7. CASE ResumeQueue(c)
  <2> DEFINE t == k.t
  <2>1. /\ t \in Tasks /\ call' = [call EXCEPT ![c] = Idle]
        /\ UNCHANGED <<canceled, open, stopping>>
    BY <1>0, <1>7, CallFields DEF ResumeQueue
  <2>2. CASE UNCHANGED <<task, pc>>
    BY <1>a, <1>b, <1>c, <1>d, <2>1, <2>2
  <2>3. CASE /\ UNCHANGED pc /\ task[t].status \in Stopped
             /\ task' = [task EXCEPT ![t].status = "failed"]
    <3> DEFINE rec == [task[t] EXCEPT !.status = "failed"]
    <3>1. /\ task' = [task EXCEPT ![t] = rec] /\ rec.status = "failed"
          /\ rec.cancel = task[t].cancel /\ rec.mode = task[t].mode /\ InMap(t)
      BY <1>0, <2>1, <2>3 DEF TaskState, TypeOK, InMap, Stopped, Absent
    <3> HIDE DEF rec
    <3>2. Kept
      BY <3>1 DEF TypeOK, InMap
    <3> QED
      BY <1>a, <1>c, <1>d, <2>1, <2>3, <3>2
  <2>4. CASE /\ task[t].status \in Stopped /\ task[t].run < MaxRun
             /\ task' = [task EXCEPT ![t] = [task[t] EXCEPT !.order = queueOrder + 1,
                  !.status = "pending", !.prio = TRUE, !.mode = "", !.run = NextRun(t)]]
             /\ Go(<<t, NextRun(t)>>, "start")
    <3> DEFINE rec == [task[t] EXCEPT !.order = queueOrder + 1, !.status = "pending",
                         !.prio = TRUE, !.mode = "", !.run = NextRun(t)]
    <3>1. rec.status = "pending" /\ rec.cancel = task[t].cancel
      BY <1>0, <2>1 DEF TaskState
    <3>2. task'[t] = rec /\ \A u \in Tasks \ {t} : task'[u] = task[u]
      BY <2>1, <2>4 DEF TypeOK
    <3> HIDE DEF rec
    <3> QED
      BY <1>7, <2>1, <2>4, <3>1, <3>2, StartKnown
  <2> QED
    BY <1>7, <2>2, <2>3, <2>4 DEF ResumeQueue
<1> QED
  BY <1>1, <1>2, <1>3, <1>4, <1>5, <1>6, <1>7 DEF Handler

LEMMA ServiceServed ==
  ASSUME TypeOK, RunsFresh, RunOrder, CancelKnown, Served, Service
  PROVE  CancelKnown' /\ Served'
<1>0. /\ \A t \in Tasks : task[t] \in TaskState
      /\ \A b \in Batches : \A i \in DOMAIN b : b[i] \in Tasks /\ <<b[i], 1>> \in Runs
  <2>1. \A t \in Tasks : <<t, 1>> \in Runs
    BY Constants DEF Runs
  <2> QED
    BY <2>1, BatchTasks DEF TypeOK
<1>a. ASSUME UNCHANGED <<call, canceled>> PROVE \A s \in Runs : Told(s)' <=> Told(s)
  BY <1>a DEF Told
<1> USE DEF taskVars, slotVars, runVars, mgrVars
<1>1. ASSUME NEW b \in Batches, Create(b) PROVE CancelKnown' /\ Served'
  <2> DEFINE In(t) == \E i \in DOMAIN b : b[i] = t
  <2>1. /\ UNCHANGED <<pc, canceled, call, stopping>> /\ open' = open \cup {b}
        /\ \A t \in Tasks : ~In(t) => task'[t] = task[t]
        /\ \A t \in Tasks : In(t) => task'[t].cancel = task[t].cancel
                                     /\ task[t].status = "none"
    <3>1. \A t \in Tasks : In(t) => task'[t].cancel = task[t].cancel
      BY <1>0, <1>1 DEF Create, TaskState
    <3> QED
      BY <1>1, <3>1 DEF Create
  <2>2. \A r \in Runs : In(r[1]) => pc[r] = "none"
    BY <2>1, RunParts, Constants DEF RunsFresh
  <2>3. \A t \in Tasks : Begun(t)'
    <3> SUFFICES ASSUME NEW t \in Tasks PROVE Begun(t)'
      OBVIOUS
    <3>1. task'[t].cancel = task[t].cancel /\ Begun(t)
      BY <2>1 DEF CancelKnown
    <3> QED
      BY <2>1, <3>1 DEF Begun
  <2>4. \A r \in Runs : Told(r)' =>
          pc'[r] # "none" /\ (r \in Live' /\ InMap(r[1])' => task'[r[1]].mode # "")
    <3> SUFFICES ASSUME NEW r \in Runs, Told(r)
                 PROVE  pc[r] # "none" /\ (r \in Live' /\ InMap(r[1])' => task'[r[1]].mode # "")
      BY <1>a, <2>1
    <3>1. task'[r[1]] = task[r[1]]
      BY <2>1, <2>2, RunParts DEF CancelKnown
    <3> QED
      BY <2>1, <3>1 DEF CancelKnown, Live, InMap
  <2>5. Served'
    <3> SUFFICES ASSUME NEW u \in Tasks PROVE ServedTask(u)'
      BY DEF Served
    <3>1. CASE In(u)
      BY <2>1, <3>1 DEF ServedTask, InOpenBatch
    <3>2. CASE ~In(u)
      <4>1. InOpenBatch(u) => InOpenBatch(u)'
        BY <2>1 DEF InOpenBatch
      <4> QED
        BY <2>1, <3>2, <4>1 DEF Served, ServedTask
    <3> QED
      BY <3>1, <3>2
  <2> QED
    BY <2>3, <2>4, <2>5 DEF CancelKnown
<1>2. ASSUME NEW b \in Batches, CreateStart(b) PROVE CancelKnown' /\ Served'
  <2> DEFINE Begins(r) == r[2] = 1 /\ \E i \in DOMAIN b : b[i] = r[1]
  <2>1. /\ b \in open /\ open' = open \ {b} /\ UNCHANGED <<task, canceled, call, stopping>>
        /\ \A r \in Runs : pc'[r] = IF Begins(r) THEN "start" ELSE pc[r]
    BY <1>2 DEF CreateStart
  <2>2. \A r \in Runs : Begins(r) => pc[r] = "none"
    <3> SUFFICES ASSUME NEW r \in Runs, NEW i \in DOMAIN b, r[2] = 1, b[i] = r[1]
                 PROVE  pc[r] = "none"
      OBVIOUS
    <3>1. r = <<b[i], 1>>
      BY DEF Runs
    <3> QED
      BY <2>1, <3>1 DEF RunsFresh
  <2>3. \A t \in Tasks : Begun(t)'
    <3> SUFFICES ASSUME NEW t \in Tasks, task[t].cancel # NoRun
                 PROVE  task[t].cancel[1] = t /\ pc'[task[t].cancel] # "none"
      BY <2>1 DEF Begun
    <3>1. task[t].cancel \in Runs
      BY <1>0 DEF TaskState
    <3> QED
      BY <2>1, <3>1 DEF CancelKnown, Begun
  <2>4. \A r \in Runs : Told(r)' =>
          pc'[r] # "none" /\ (r \in Live' /\ InMap(r[1])' => task'[r[1]].mode # "")
    <3> SUFFICES ASSUME NEW r \in Runs, Told(r)
                 PROVE  pc'[r] # "none" /\ (r \in Live' /\ InMap(r[1])' => task'[r[1]].mode # "")
      BY <1>a, <2>1
    <3>1. pc[r] # "none" /\ pc'[r] = pc[r]
      BY <2>1, <2>2 DEF CancelKnown
    <3> QED
      BY <2>1, <3>1 DEF CancelKnown, Live, InMap
  <2>5. Served'
    <3> SUFFICES ASSUME NEW u \in Tasks PROVE ServedTask(u)'
      BY DEF Served
    <3>1. "start" \in ServingPCs
      BY DEF ServingPCs, PCs
    <3>2. CASE \E i \in DOMAIN b : b[i] = u
      <4>1. <<u, 1>> \in Runs /\ Begins(<<u, 1>>)
        BY <1>0, <2>1, <3>2 DEF TypeOK
      <4> QED
        BY <2>1, <3>1, <4>1 DEF ServedTask
    <3>3. CASE ~ \E i \in DOMAIN b : b[i] = u
      <4>1. InOpenBatch(u) => InOpenBatch(u)'
        BY <2>1, <3>3 DEF InOpenBatch
      <4> QED
        BY <2>1, <3>1, <4>1 DEF Served, ServedTask
    <3> QED
      BY <3>2, <3>3
  <2> QED
    BY <2>3, <2>4, <2>5 DEF CancelKnown
<1>3. ASSUME NEW b \in Batches, CreateRollback(b) PROVE CancelKnown' /\ Served'
  <2> DEFINE In(t) == \E i \in DOMAIN b : b[i] = t
  <2>1. /\ b \in open /\ open' = open \ {b} /\ UNCHANGED <<pc, canceled, call, stopping>>
        /\ \A t \in Tasks : ~In(t) => task'[t] = task[t]
        /\ \A t \in Tasks : In(t) => task'[t].status = "gone" /\ task'[t].cancel = NoRun
    <3>1. \A t \in Tasks : In(t) => task'[t].status = "gone" /\ task'[t].cancel = NoRun
      BY <1>0, <1>3 DEF CreateRollback, Dropped, TaskState
    <3> QED
      BY <1>3, <3>1 DEF CreateRollback
  <2>2. CancelKnown'
    <3>1. \A u \in Tasks :
            /\ task'[u].cancel \in {task[u].cancel, NoRun}
            /\ InMap(u)' => InMap(u) /\ task'[u].mode = task[u].mode
      BY <2>1 DEF InMap, Absent
    <3> QED
      BY <1>a, <2>1, <3>1, WokenRuns, CancelFrame
  <2>3. Served'
    <3> SUFFICES ASSUME NEW u \in Tasks PROVE ServedTask(u)'
      BY DEF Served
    <3>1. CASE In(u)
      BY <2>1, <3>1 DEF ServedTask
    <3>2. CASE ~In(u)
      <4>1. InOpenBatch(u) => InOpenBatch(u)'
        BY <2>1, <3>2 DEF InOpenBatch
      <4> QED
        BY <2>1, <3>2, <4>1 DEF Served, ServedTask
    <3> QED
      BY <3>1, <3>2
  <2> QED
    BY <2>2, <2>3
<1>4. CASE Stop
  <2>1. /\ pc' = Woken(pc) /\ stopping' /\ UNCHANGED <<canceled, call, open>>
    BY <1>4 DEF Stop
  <2>2. \A u \in Tasks :
          /\ task'[u].cancel = task[u].cancel /\ (InMap(u)' <=> InMap(u))
          /\ task'[u].mode = task[u].mode \/ task'[u].mode # ""
    BY <1>0, <1>4 DEF Stop, TaskState, InMap
  <2>3. Served'
    BY <2>1 DEF Served, ServedTask
  <2> QED
    BY <1>a, <2>1, <2>2, <2>3, WokenRuns, CancelFrame
<1>5. CASE (\E l \in Limits : RefreshConcurrencyLimit(l)) \/ OpenGate
  <2>1. /\ pc' = Woken(pc) \/ pc' = pc
        /\ UNCHANGED <<task, canceled, call, open, stopping>>
    BY <1>5 DEF RefreshConcurrencyLimit, OpenGate
  <2>2. \A u \in Tasks : InMap(u)' <=> InMap(u)
    BY <2>1 DEF InMap
  <2> QED
    BY <1>a, <2>1, <2>2, WokenRuns, CancelFrame, ServedFrame
<1> QED
  BY <1>1, <1>2, <1>3, <1>4, <1>5 DEF Service

LEMMA ServedStep ==
  ASSUME Inv, RunOrder, CancelKnown, Served, OneRunPerTask', [Next]_vars
  PROVE  CancelKnown' /\ Served'
<1>1. CASE UNCHANGED vars
  BY <1>1 DEF vars, taskVars, runVars, mgrVars, CancelKnown, Begun, Told, Live, InMap,
              Served, ServedTask, InOpenBatch
<1>2. CASE \E r \in Runs : Worker(r)
  BY <1>2, WorkerCancel, WorkerServed DEF Inv
<1>3. CASE \E c \in Callers : Handler(c)
  BY <1>3, HandlerServed DEF Inv
<1>4. CASE Service
  BY <1>4, ServiceServed DEF Inv
<1> QED
  BY <1>1, <1>2, <1>3, <1>4 DEF Next

\* No task is left pending without a worker unless a pause, a delete or the
\* shutdown has raced with the end of its download, with any number of handlers,
\* as long as no task gets two workers at once; where two Resumes may start two
\* (UploadQueue_doubleresume.cfg), the older of the two can leave such a task.
THEOREM NoTaskForgotten == Spec /\ []OneRunPerTask => []NoSilentOrphan
<1>1. Init => CancelKnown /\ Served
  <2> SUFFICES ASSUME Init PROVE CancelKnown /\ Served
    OBVIOUS
  <2>1. /\ \A t \in Tasks : task[t].cancel = NoRun /\ task[t].status = "none"
        /\ \A c \in Callers : call[c].op = "idle"
        /\ canceled = {}
    BY DEF Init, Idle
  <2> QED
    BY <2>1 DEF CancelKnown, Begun, Told, Served, ServedTask
<1>2. Served => NoSilentOrphan
  <2> SUFFICES ASSUME Served, NEW t \in Tasks, Orphan(t), task[t].mode = "", ~stopping
               PROVE  FALSE
    BY DEF NoSilentOrphan
  <2>1. \E r \in Runs : r[1] = t /\ pc[r] \in ServingPCs
    BY DEF Served, ServedTask, Orphan, InOpenBatch
  <2> QED
    BY <2>1 DEF Orphan, ServingPCs
<1>3. Inv /\ RunOrder /\ CancelKnown /\ Served /\ OneRunPerTask' /\ [Next]_vars
        => RunOrder' /\ CancelKnown' /\ Served'
  BY OrderStep, ServedStep
<1> QED
  BY <1>1, <1>2, <1>3, OrderInit, InvAlways, PTL DEF Spec

-----------------------------------------------------------------------------
(***************************************************************************)
(* No transfer outlives its task, as long as the calls do not overlap.     *)
(***************************************************************************)
\* A worker between acquireRunSlot and releaseSlot has its cancel function in the
\* record of its task.
HoldsCancel ==
  \A r \in Holders(DownloadPCs) \cup Holders(UploadPCs) :
    InMap(r[1]) => task[r[1]].cancel = r

\* A Delete is about to drop a task only if there is nothing left to stop.
DeleteReady ==
  \A c \in Callers : call[c].op = "delPop" =>
    task[call[c].t].status # "none" /\ NothingToStop(call[c].t)

LEMMA CancelHeld ==
  ASSUME TypeOK, NoteReady, RunsFresh, RunOrder, HoldsCancel, [Next]_vars
  PROVE  HoldsCancel'
<1> DEFINE D == DownloadPCs \cup UploadPCs
<1>0. \A r \in Runs : r[1] \in Tasks
  BY RunParts
<1>a. ASSUME \A s \in Runs : pc'[s] \in D => pc[s] \in D,
             \A u \in Tasks : InMap(u)' /\ (\E s \in Runs : s[1] = u /\ pc[s] # "none") =>
               InMap(u) /\ task'[u].cancel = task[u].cancel
      PROVE  HoldsCancel'
  <2>1. "none" \notin D
    BY DEF DownloadPCs, UploadPCs
  <2> QED
    BY <1>0, <1>a, <2>1 DEF HoldsCancel, Holders
<1>b. pc' = pc \/ pc' = Woken(pc) => \A s \in Runs : pc'[s] \in D => pc[s] \in D
  BY DEF Woken, DownloadPCs, UploadPCs
<1> USE DEF taskVars, slotVars, runVars, mgrVars
<1>1. CASE UNCHANGED vars
  BY <1>1, <1>a, <1>b DEF vars, InMap
<1>2. ASSUME NEW r \in Runs, Worker(r) PROVE HoldsCancel'
  <2> SUFFICES ASSUME NEW s \in Runs, pc'[s] \in D, InMap(s[1])'
               PROVE  task'[s[1]].cancel = s
    BY DEF HoldsCancel, Holders
  <2>1. s \in Live' /\ r \in Live
    BY <1>2, WorkerLive DEF Live, DownloadPCs, UploadPCs
  <2>2. CASE s[1] = r[1]
    <3>1. s \in Live
      BY <1>2, <2>1, WorkerRuns DEF Live
    <3>2. s = r
      BY <2>1, <2>2, <3>1 DEF RunOrder, Live, Runs
    <3>3. InMap(r[1])
      BY <1>2, <2>2, WorkerWrites
    <3>4. pc[r] \notin D => Acquire(r)
      BY <1>2, <3>2 DEF Worker, RunStart, RunGate, Park, GiveUp, Release, AfterRelease, Exit,
           TransferRefused, TransferStart, Progress, TransferFails, FailureVerdict,
           UploadSucceeds, TransferPatch, DownloadSucceeds, Go, TypeOK, Woken,
           DownloadPCs, UploadPCs
    <3>5. CASE Acquire(r)
      BY <1>0, <3>2, <3>5 DEF Acquire, TypeOK, TaskState
    <3>6. CASE pc[r] \in D
      <4>1. pc[r] # "acquire" /\ pc[r] # "exit"
        BY <3>6 DEF DownloadPCs, UploadPCs
      <4>2. task'[r[1]].cancel = task[r[1]].cancel
        BY <1>2, <4>1, WorkerWrites
      <4> QED
        BY <3>2, <3>3, <3>6, <4>2 DEF HoldsCancel, Holders
    <3> QED
      BY <3>4, <3>5, <3>6
  <2>3. CASE s[1] # r[1]
    <3>1. task'[s[1]] = task[s[1]]
      BY <1>0, <1>2, <2>3, WorkerWrites
    <3>2. pc[s] \in D
      BY <1>2, <2>3, WorkerRuns DEF DownloadPCs, UploadPCs
    <3> QED
      BY <3>1, <3>2 DEF HoldsCancel, Holders, InMap
  <2> QED
    BY <2>2, <2>3
<1>3. ASSUME NEW c \in Callers, Handler(c) PROVE HoldsCancel'
  <2> DEFINE Kept == \A u \in Tasks : InMap(u)' =>
                       InMap(u) /\ task'[u].cancel = task[u].cancel
  <2>0. call[c] \in CallState /\ \A t \in Tasks : task[t] \in TaskState
    BY DEF TypeOK
  <2>a. ASSUME NEW t \in Tasks, NEW rec, task' = [task EXCEPT ![t] = rec],
               InMap(t), rec.cancel = task[t].cancel
        PROVE  Kept
    BY <2>a DEF InMap, TypeOK
  <2>b. UNCHANGED task => Kept
    BY DEF InMap
  <2>1. ASSUME NEW t \in Tasks, Pause(c, t) PROVE HoldsCancel'
    <3> DEFINE rec == [task[t] EXCEPT !.status = "paused", !.mode = "pause", !.prio = FALSE]
    <3>1. task' = [task EXCEPT ![t] = rec] /\ InMap(t) /\ rec.cancel = task[t].cancel
      BY <2>0, <2>1 DEF Pause, Pausable, InMap, Active, Absent, TaskState
    <3>2. pc' = pc
      BY <2>1 DEF Pause
    <3> HIDE DEF rec
    <3> QED
      BY <1>a, <1>b, <2>a, <3>1, <3>2
  <2>2. ASSUME NEW t \in Tasks, Delete(c, t) PROVE HoldsCancel'
    <3> DEFINE rec == [task[t] EXCEPT !.mode = "delete",
                         !.status = IF task[t].status \in Active THEN "canceled"
                                    ELSE task[t].status]
    <3>1. /\ UNCHANGED task \/ task' = [task EXCEPT ![t] = rec]
          /\ InMap(t) /\ rec.cancel = task[t].cancel /\ pc' = pc
      BY <2>0, <2>2 DEF Delete, TaskState
    <3> HIDE DEF rec
    <3> QED
      BY <1>a, <1>b, <2>a, <2>b, <3>1
  <2>3. CASE DeletePop(c)
    <3>1. /\ call[c].t \in Tasks /\ pc' = pc
          /\ UNCHANGED task \/ task' = [task EXCEPT ![call[c].t] = Dropped(task[call[c].t])]
      BY <2>0, <2>3, CallFields DEF DeletePop
    <3>2. Dropped(task[call[c].t]).status = "gone"
      BY <2>0, <3>1 DEF Dropped, TaskState
    <3>3. Kept
      BY <2>b, <3>1, <3>2 DEF InMap, Absent, TypeOK
    <3> QED
      BY <1>a, <1>b, <3>1, <3>3
  <2>4. CASE ResumeQueue(c)
    <3>1. call[c].t \in Tasks
      BY <2>0, <2>4, CallFields DEF ResumeQueue
    <3>2. CASE UNCHANGED <<task, pc>>
      BY <1>a, <1>b, <2>b, <3>2
    <3>3. CASE /\ UNCHANGED pc /\ task[call[c].t].status \in Stopped
               /\ task' = [task EXCEPT ![call[c].t].status = "failed"]
      <4> DEFINE rec == [task[call[c].t] EXCEPT !.status = "failed"]
      <4>1. /\ task' = [task EXCEPT ![call[c].t] = rec] /\ InMap(call[c].t)
            /\ rec.cancel = task[call[c].t].cancel
        BY <2>0, <3>1, <3>3 DEF TaskState, TypeOK, InMap, Stopped, Absent
      <4> HIDE DEF rec
      <4> QED
        BY <1>a, <1>b, <2>a, <3>1, <3>3, <4>1
    <3>4. CASE /\ task[call[c].t].status \in Stopped
               /\ task' = [task EXCEPT ![call[c].t] = [task[call[c].t] EXCEPT
                    !.order = queueOrder + 1, !.status = "pending", !.prio = TRUE,
                    !.mode = "", !.run = NextRun(call[c].t)]]
               /\ Go(<<call[c].t, NextRun(call[c].t)>>, "start")
      <4> DEFINE rec == [task[call[c].t] EXCEPT
                    !.order = queueOrder + 1, !.status = "pending", !.prio = TRUE,
                    !.mode = "", !.run = NextRun(call[c].t)]
      <4>1. /\ task' = [task EXCEPT ![call[c].t] = rec] /\ InMap(call[c].t)
            /\ rec.cancel = task[call[c].t].cancel
        BY <2>0, <3>1, <3>4 DEF TaskState, InMap, Stopped, Absent
      <4>2. \A s \in Runs : pc'[s] \in D => pc[s] \in D
        BY <3>4 DEF Go, TypeOK, DownloadPCs, UploadPCs
      <4> HIDE DEF rec
      <4> QED
        BY <1>a, <2>a, <3>1, <4>1, <4>2
    <3> QED
      BY <2>4, <3>2, <3>3, <3>4 DEF ResumeQueue
  <2>5. CASE \/ \E t \in Tasks : Resume(c, t)
             \/ CallCancel(c) \/ ResumeAbandoned(c) \/ DeleteWaited(c) \/ DeleteTimeout(c)
    BY <1>a, <1>b, <2>b, <2>5
       DEF Resume, CallCancel, ResumeAbandoned, DeleteWaited, DeleteTimeout
  <2> QED
    BY <1>3, <2>1, <2>2, <2>3, <2>4, <2>5 DEF Handler
<1>4. CASE Service
  <2>1. ASSUME NEW b \in Batches, Create(b) PROVE HoldsCancel'
    <3>1. \A u \in Tasks : (\E i \in DOMAIN b : b[i] = u) =>
            \A s \in Runs : s[1] = u => pc[s] = "none"
      <4>1. \A u \in Tasks : (\E i \in DOMAIN b : b[i] = u) => task[u].run = 0
        BY <2>1 DEF Create, RunsFresh
      <4>2. \A s \in Runs : s[2] > 0
        BY RunParts, Constants
      <4> QED
        BY <4>1, <4>2 DEF RunsFresh
    <3>2. \A u \in Tasks : (~ \E i \in DOMAIN b : b[i] = u) => task'[u] = task[u]
      BY <2>1 DEF Create
    <3>3. pc' = pc
      BY <2>1 DEF Create
    <3> QED
      BY <1>a, <1>b, <3>1, <3>2, <3>3 DEF InMap
  <2>2. ASSUME NEW b \in Batches, CreateStart(b) PROVE HoldsCancel'
    <3>1. \A s \in Runs : pc'[s] \in D => pc[s] \in D
      BY <2>2 DEF CreateStart, DownloadPCs, UploadPCs
    <3> QED
      BY <1>a, <2>2, <3>1 DEF CreateStart, InMap
  <2>3. ASSUME NEW b \in Batches, CreateRollback(b) PROVE HoldsCancel'
    <3>1. \A u \in Tasks : task'[u] = task[u] \/ task'[u].status = "gone"
      BY <2>3 DEF CreateRollback, Dropped, TypeOK, TaskState
    <3> QED
      BY <1>a, <1>b, <2>3, <3>1 DEF CreateRollback, InMap, Absent
  <2>4. CASE Stop
    <3>1. \A u \in Tasks : task'[u].status = task[u].status /\ task'[u].cancel = task[u].cancel
      BY <2>4 DEF Stop, TypeOK, TaskState
    <3> QED
      BY <1>a, <1>b, <2>4, <3>1 DEF Stop, InMap
  <2>5. CASE (\E l \in Limits : RefreshConcurrencyLimit(l)) \/ OpenGate
    BY <1>a, <1>b, <2>5 DEF RefreshConcurrencyLimit, OpenGate, InMap
  <2> QED
    BY <1>4, <2>1, <2>2, <2>3, <2>4, <2>5 DEF Service
<1> QED
  BY <1>1, <1>2, <1>3, <1>4 DEF Next


LEMMA DeleteReadyStep ==
  ASSUME Serial, TypeOK, NoteReady, RunsFresh, RunsFresh', WaitsCurrent, HoldsCancel,
         DeleteReady, [Next]_vars
  PROVE  DeleteReady'
<1> DEFINE Stopped1(u) == task[u].status \notin Active /\ task[u].cancel = NoRun
           Kept(u) == /\ task'[u].run = task[u].run
                      /\ task[u].status # "none" => task'[u].status # "none"
                      /\ task[u].status # "none" /\ Stopped1(u) =>
                           task'[u].status \notin Active /\ task'[u].cancel = NoRun
<1>0. /\ \A r \in Runs : r[1] \in Tasks
      /\ \A c \in Callers : call[c].op \in {"delPop"} \cup WaitOps => call[c].t \in Tasks
      /\ \A t \in Tasks : task[t] \in TaskState
  BY RunParts, CallFields DEF TypeOK, WaitOps
<1>a. ASSUME \A u \in Tasks : task[u].status # "none" => Kept(u),
             closed \subseteq closed', UNCHANGED call
      PROVE  DeleteReady'
  BY <1>0, <1>a DEF DeleteReady, NothingToStop
<1> USE DEF taskVars, slotVars, runVars, mgrVars, Begin, Return
<1>1. CASE UNCHANGED vars
  BY <1>1, <1>a DEF vars
<1>2. ASSUME NEW r \in Runs, Worker(r) PROVE DeleteReady'
  <2>1. closed \subseteq closed' /\ UNCHANGED call
    BY <1>2, WorkerRuns, WorkerSameTasks
  <2>2. ASSUME NEW u \in Tasks, task[u].status # "none" PROVE Kept(u)
    <3>1. task'[u].run = task[u].run
      BY <1>2, WorkerSameTasks
    <3>2. CASE u # r[1]
      BY <1>2, <3>2, WorkerWrites
    <3>3. CASE u = r[1]
      <4>1. task'[u].status # "none"
        BY <2>2, <3>1 DEF RunsFresh
      <4>2. ASSUME Stopped1(u)
            PROVE  task'[u].status \notin Active /\ task'[u].cancel = NoRun
        <5>1. task[u].status # "pending"
          BY <4>2 DEF Active
        <5>2. task'[u].cancel = NoRun
          BY <1>2, <3>3, <4>2, <5>1, WorkerWrites
        <5>3. CASE InMap(u)
          <6>1. r # NoRun
            BY RunIsNotNil
          <6>2. pc[r] \notin DownloadPCs \cup UploadPCs
            BY <3>3, <4>2, <5>3, <6>1 DEF HoldsCancel, Holders
          <6> QED
            BY <1>2, <3>3, <4>2, <5>2, <6>2, WorkerWrites
        <5>4. CASE ~InMap(u)
          <6>1. ~InMap(u)'
            BY <1>2, <3>3, <5>4, WorkerWrites
          <6> QED
            BY <5>2, <6>1 DEF InMap, Absent, Active
        <5> QED
          BY <5>3, <5>4
      <4> QED
        BY <3>1, <4>1, <4>2
    <3> QED
      BY <3>2, <3>3
  <2> QED
    BY <1>a, <2>1, <2>2
<1>3. ASSUME NEW c \in Callers, Handler(c) PROVE DeleteReady'
  <2>a. ASSUME NEW n, n.op # "delPop", call' = [call EXCEPT ![c] = n]
        PROVE  DeleteReady'
    BY <2>a DEF DeleteReady, Serial, TypeOK
  <2>b. ASSUME NEW n, call' = [call EXCEPT ![c] = n], UNCHANGED <<task, closed>>,
               n.t \in Tasks, task[n.t].status # "none", NothingToStop(n.t)
        PROVE  DeleteReady'
    BY <2>b DEF DeleteReady, Serial, TypeOK, NothingToStop
  <2>c. Idle.op # "delPop"
    BY DEF Idle
  <2>1. ASSUME NEW t \in Tasks, Delete(c, t) PROVE DeleteReady'
    <3> DEFINE n == [op |-> "delCancel", t |-> t, run |-> task[t].run,
                     cancel |-> task[t].cancel]
               m == [op |-> "delPop", t |-> t]
    <3>1. \/ call' = [call EXCEPT ![c] = n]
          \/ /\ NothingToStop(t) /\ InMap(t) /\ UNCHANGED <<task, closed>>
             /\ call' = [call EXCEPT ![c] = m]
      BY <2>1 DEF Delete
    <3>2. n.op # "delPop" /\ m.t = t
      OBVIOUS
    <3> HIDE DEF n, m
    <3> QED
      BY <2>a, <2>b, <3>1, <3>2 DEF InMap, Absent
  <2>2. CASE DeleteWaited(c)
    <3> DEFINE m == [op |-> "delPop", t |-> call[c].t]
    <3>1. /\ call[c].op = "delWait" /\ <<call[c].t, call[c].run>> \in closed
          /\ call' = [call EXCEPT ![c] = m] /\ UNCHANGED <<task, closed>>
      BY <2>2 DEF DeleteWaited
    <3>2. /\ call[c].t \in Tasks /\ call[c].run # 0
          /\ call[c].run = task[call[c].t].run
      BY <1>0, <3>1 DEF WaitsCurrent, WaitOps
    <3>3. task[call[c].t].status # "none" /\ NothingToStop(call[c].t)
      BY <3>1, <3>2 DEF RunsFresh, NothingToStop
    <3>4. m.t = call[c].t
      OBVIOUS
    <3> HIDE DEF m
    <3> QED
      BY <2>b, <3>1, <3>2, <3>3, <3>4
  <2>3. ASSUME NEW t \in Tasks, Pause(c, t) \/ Resume(c, t) PROVE DeleteReady'
    <3> DEFINE n == [op |-> "pauseCancel", t |-> t, run |-> task[t].run,
                     cancel |-> task[t].cancel]
               m == [op |-> "resumeWait", t |-> t, run |-> task[t].run]
    <3>1. call' = [call EXCEPT ![c] = n] \/ call' = [call EXCEPT ![c] = m]
      BY <2>3 DEF Pause, Resume
    <3>2. n.op # "delPop" /\ m.op # "delPop"
      OBVIOUS
    <3> HIDE DEF n, m
    <3> QED
      BY <2>a, <3>1, <3>2
  <2>4. CASE CallCancel(c)
    <3> DEFINE n == [op |-> "delWait", t |-> call[c].t, run |-> call[c].run]
    <3>1. call' = [call EXCEPT ![c] = Idle] \/ call' = [call EXCEPT ![c] = n]
      BY <2>4 DEF CallCancel
    <3>2. n.op # "delPop"
      OBVIOUS
    <3> HIDE DEF n
    <3> QED
      BY <2>a, <2>c, <3>1, <3>2
  <2>5. CASE ResumeQueue(c) \/ ResumeAbandoned(c) \/ DeletePop(c) \/ DeleteTimeout(c)
    BY <2>5, <2>a, <2>c DEF ResumeQueue, ResumeAbandoned, DeletePop, DeleteTimeout
  <2> QED
    BY <1>3, <2>1, <2>2, <2>3, <2>4, <2>5 DEF Handler
<1>4. CASE Service
  <2>1. ASSUME NEW b \in Batches, Create(b) PROVE DeleteReady'
    <3>1. ASSUME NEW u \in Tasks, task[u].status # "none" PROVE task'[u] = task[u]
      BY <2>1, <3>1 DEF Create
    <3> QED
      BY <1>a, <2>1, <3>1 DEF Create
  <2>2. ASSUME NEW b \in Batches, CreateRollback(b) PROVE DeleteReady'
    <3>1. ASSUME NEW u \in Tasks
          PROVE  \/ task'[u] = task[u]
                 \/ /\ task'[u].status = "gone" /\ task'[u].cancel = NoRun
                    /\ task'[u].run = task[u].run
      BY <1>0, <2>2 DEF CreateRollback, Dropped, TaskState
    <3>2. \A u \in Tasks : Kept(u)
      BY <3>1 DEF Active
    <3> QED
      BY <1>a, <2>2, <3>2 DEF CreateRollback
  <2>3. CASE Stop
    <3>1. ASSUME NEW u \in Tasks
          PROVE  /\ task'[u].status = task[u].status /\ task'[u].cancel = task[u].cancel
                 /\ task'[u].run = task[u].run
      BY <1>0, <2>3 DEF Stop, TaskState
    <3> QED
      BY <1>a, <2>3, <3>1 DEF Stop
  <2>4. CASE \/ \E b \in Batches : CreateStart(b)
             \/ \E l \in Limits : RefreshConcurrencyLimit(l)
             \/ OpenGate
    BY <1>a, <2>4 DEF CreateStart, RefreshConcurrencyLimit, OpenGate
  <2> QED
    BY <1>4, <2>1, <2>2, <2>3, <2>4 DEF Service
<1> QED
  BY <1>1, <1>2, <1>3, <1>4 DEF Next

LEMMA TransferStep ==
  ASSUME TypeOK, NoteReady, RunsFresh, RunOrder, HoldsCancel, DeleteReady,
         NoTransferAfterDelete, [Next]_vars
  PROVE  NoTransferAfterDelete'
<1>0. /\ \A r \in Runs : r[1] \in Tasks
      /\ \A t \in Tasks : task[t] \in TaskState
  BY RunParts DEF TypeOK
<1> DEFINE Quiet == \A s \in Runs : pc'[s] \in {"dl", "up"} => pc[s] \in {"dl", "up"}
<1>a. ASSUME Quiet, \A u \in Tasks : InMap(u) => InMap(u)'
      PROVE  NoTransferAfterDelete'
  BY <1>0, <1>a DEF NoTransferAfterDelete, Transferring, Holders
<1>b. pc' = pc \/ pc' = Woken(pc) => Quiet
  BY DEF Woken
<1>c. ASSUME NEW r \in Transferring
      PROVE  /\ r \in Live /\ r = <<r[1], task[r[1]].run>> /\ r \notin closed
             /\ InMap(r[1]) /\ task[r[1]].cancel = r /\ r # NoRun
  <2>1. r \in Runs /\ pc[r] \in {"dl", "up"}
    BY <1>c DEF Transferring, Holders
  <2>2. r \in Live
    BY <2>1 DEF Live
  <2>3. r \in Holders(DownloadPCs) \cup Holders(UploadPCs)
    BY <2>1 DEF Holders, DownloadPCs, UploadPCs
  <2>4. InMap(r[1])
    BY <1>c DEF NoTransferAfterDelete
  <2>5. r # NoRun
    BY <2>1, RunIsNotNil
  <2>6. r = <<r[1], r[2]>>
    BY <2>1 DEF Runs
  <2> QED
    BY <2>1, <2>2, <2>3, <2>4, <2>5, <2>6 DEF RunOrder, HoldsCancel
<1> USE DEF taskVars, slotVars, runVars, mgrVars
<1>1. CASE UNCHANGED vars
  BY <1>1, <1>a, <1>b DEF vars, InMap
<1>2. ASSUME NEW r \in Runs, Worker(r) PROVE NoTransferAfterDelete'
  <2> SUFFICES ASSUME NEW s \in Runs, pc'[s] \in {"dl", "up"} PROVE InMap(s[1])'
    BY DEF NoTransferAfterDelete, Transferring, Holders
  <2>1. \A u \in Tasks : InMap(u)' <=> InMap(u)
    BY <1>2, WorkerWrites DEF InMap
  <2>2. CASE pc[s] \in {"dl", "up"}
    BY <1>0, <2>1, <2>2 DEF NoTransferAfterDelete, Transferring, Holders
  <2>3. CASE pc[s] \notin {"dl", "up"}
    <3>1. s = r
      BY <1>2, <2>3, WorkerRuns
    <3>2. TransferStart(r)
      BY <1>2, <2>3, <3>1 DEF Worker, RunStart, RunGate, Acquire, Park, GiveUp, Release,
         AfterRelease, Exit, TransferRefused, Progress, TransferFails, FailureVerdict,
         UploadSucceeds, TransferPatch, DownloadSucceeds, Go, TypeOK, Woken
    <3>3. InMap(r[1])
      BY <3>1, <3>2 DEF TransferStart, Go, TypeOK
    <3> QED
      BY <1>0, <2>1, <3>1, <3>3
  <2> QED
    BY <2>2, <2>3
<1>3. ASSUME NEW c \in Callers, Handler(c) PROVE NoTransferAfterDelete'
  <2>1. CASE DeletePop(c)
    <3>1. /\ call[c].op = "delPop" /\ pc' = pc
          /\ call[c].t \in Tasks /\ NothingToStop(call[c].t)
          /\ \A u \in Tasks : u # call[c].t => task'[u] = task[u]
      BY <2>1, CallFields DEF DeletePop, DeleteReady, TypeOK
    <3>2. \A r \in Transferring : r[1] # call[c].t
      BY <1>c, <3>1 DEF NothingToStop
    <3> QED
      BY <1>0, <3>1, <3>2 DEF NoTransferAfterDelete, Transferring, Holders, InMap
  <2>2. ASSUME NEW t \in Tasks, Pause(c, t) \/ Delete(c, t) PROVE NoTransferAfterDelete'
    <3>1. ASSUME NEW x, NEW rec, task' = [task EXCEPT ![x] = rec],
                 x = t, rec.status \notin Absent
          PROVE  \A u \in Tasks : InMap(u) => InMap(u)'
      BY <3>1 DEF InMap, TypeOK
    <3>2. CASE Pause(c, t)
      <4> DEFINE rec == [task[t] EXCEPT !.status = "paused", !.mode = "pause", !.prio = FALSE]
      <4>1. task' = [task EXCEPT ![t] = rec] /\ pc' = pc
        BY <3>2 DEF Pause
      <4>2. rec.status \notin Absent
        BY <1>0 DEF TaskState, Absent
      <4> HIDE DEF rec
      <4> QED
        BY <1>a, <1>b, <3>1, <4>1, <4>2
    <3>3. CASE Delete(c, t)
      <4> DEFINE rec == [task[t] EXCEPT !.mode = "delete",
                           !.status = IF task[t].status \in Active THEN "canceled"
                                      ELSE task[t].status]
      <4>1. (UNCHANGED task \/ task' = [task EXCEPT ![t] = rec]) /\ pc' = pc /\ InMap(t)
        BY <3>3 DEF Delete
      <4>2. InMap(t) => rec.status \notin Absent
        BY <1>0 DEF TaskState, Absent, InMap
      <4> HIDE DEF rec
      <4>3. UNCHANGED task => \A u \in Tasks : InMap(u) => InMap(u)'
        BY DEF InMap
      <4> QED
        BY <1>a, <1>b, <3>1, <4>1, <4>2, <4>3
    <3> QED
      BY <2>2, <3>2, <3>3
  <2>3. CASE ResumeQueue(c)
    <3>1. Quiet
      BY <2>3 DEF ResumeQueue, Go, TypeOK
    <3>2. call[c].t \in Tasks
      BY <2>3, CallFields DEF ResumeQueue, TypeOK
    <3>3. \/ UNCHANGED task
          \/ /\ task'[call[c].t].status \in {"failed", "pending"}
             /\ \A u \in Tasks : u # call[c].t => task'[u] = task[u]
      <4>a. ASSUME NEW rec, task' = [task EXCEPT ![call[c].t] = rec],
                   rec.status \in {"failed", "pending"}
            PROVE  /\ task'[call[c].t].status \in {"failed", "pending"}
                   /\ \A u \in Tasks : u # call[c].t => task'[u] = task[u]
        BY <3>2, <4>a DEF TypeOK
      <4> DEFINE x == [task[call[c].t] EXCEPT !.status = "failed"]
                 y == [task[call[c].t] EXCEPT !.order = queueOrder + 1,
                         !.status = "pending", !.prio = TRUE, !.mode = "",
                         !.run = NextRun(call[c].t)]
      <4>1. \/ UNCHANGED task
            \/ task' = [task EXCEPT ![call[c].t] = x]
            \/ task' = [task EXCEPT ![call[c].t] = y]
        BY <2>3 DEF ResumeQueue
      <4>2. x.status = "failed" /\ y.status = "pending"
        BY <1>0, <3>2 DEF TaskState
      <4> HIDE DEF x, y
      <4> QED
        BY <4>a, <4>1, <4>2
    <3> QED
      BY <1>a, <3>1, <3>3 DEF InMap, Absent
  <2>4. CASE \/ \E t \in Tasks : Resume(c, t)
             \/ CallCancel(c) \/ ResumeAbandoned(c) \/ DeleteWaited(c) \/ DeleteTimeout(c)
    BY <1>a, <1>b, <2>4
       DEF Resume, CallCancel, ResumeAbandoned, DeleteWaited, DeleteTimeout, InMap
  <2> QED
    BY <1>3, <2>1, <2>2, <2>3, <2>4 DEF Handler
<1>4. CASE Service
  <2>1. ASSUME NEW b \in Batches, CreateRollback(b) PROVE NoTransferAfterDelete'
    <3>1. \A r \in Transferring : ~ \E i \in DOMAIN b : b[i] = r[1]
      <4> SUFFICES ASSUME NEW r \in Transferring, NEW i \in DOMAIN b, b[i] = r[1]
                   PROVE  FALSE
        OBVIOUS
      <4>1. b \in open
        BY <2>1 DEF CreateRollback
      <4>2. task[b[i]].run = 1 /\ pc[<<b[i], 1>>] = "none"
        BY <4>1 DEF RunOrder, RunsFresh
      <4>3. r = <<b[i], 1>>
        BY <1>c, <4>2
      <4> QED
        BY <4>2, <4>3 DEF Transferring, Holders
    <3>2. pc' = pc /\ \A u \in Tasks : (~ \E i \in DOMAIN b : b[i] = u) => task'[u] = task[u]
      BY <2>1 DEF CreateRollback
    <3> QED
      BY <1>0, <3>1, <3>2 DEF NoTransferAfterDelete, Transferring, Holders, InMap
  <2>2. ASSUME NEW b \in Batches, Create(b) PROVE NoTransferAfterDelete'
    <3>1. \A u \in Tasks : InMap(u) => task'[u] = task[u]
      BY <2>2 DEF Create, InMap, Absent
    <3> QED
      BY <1>a, <1>b, <2>2, <3>1 DEF Create, InMap
  <2>3. ASSUME NEW b \in Batches, CreateStart(b) PROVE NoTransferAfterDelete'
    BY <1>a, <2>3 DEF CreateStart, InMap
  <2>4. CASE Stop
    <3>1. \A u \in Tasks : task'[u].status = task[u].status
      BY <1>0, <2>4 DEF Stop, TaskState
    <3> QED
      BY <1>a, <1>b, <2>4, <3>1 DEF Stop, InMap
  <2>5. CASE (\E l \in Limits : RefreshConcurrencyLimit(l)) \/ OpenGate
    BY <1>a, <1>b, <2>5 DEF RefreshConcurrencyLimit, OpenGate, InMap
  <2> QED
    BY <1>4, <2>1, <2>2, <2>3, <2>4, <2>5 DEF Service
<1> QED
  BY <1>1, <1>2, <1>3, <1>4 DEF Next

\* As long as the calls of the handlers do not overlap, a task that is out of the
\* map is not transferred any more: stopTaskForDelete has waited for the worker whose
\* cancel function it called, and gives up the deletion when that takes too long.
THEOREM NoTransferAfterDeleteWhenSerial ==
  Serial /\ Spec => []NoTransferAfterDelete
<1> SUFFICES ASSUME Serial PROVE Spec => []NoTransferAfterDelete
  OBVIOUS
<1>1. Init => HoldsCancel /\ DeleteReady /\ NoTransferAfterDelete
  <2> SUFFICES ASSUME Init PROVE HoldsCancel /\ DeleteReady /\ NoTransferAfterDelete
    OBVIOUS
  <2>1. HoldsCancel /\ NoTransferAfterDelete
    BY DEF Init, HoldsCancel, Holders, DownloadPCs, UploadPCs, NoTransferAfterDelete,
           Transferring
  <2>2. \A c \in Callers : call[c].op = "idle"
    BY DEF Init, Idle
  <2> QED
    BY <2>1, <2>2 DEF DeleteReady
<1>2. Inv /\ RunOrder /\ WaitsCurrent /\ [Next]_vars => RunOrder' /\ WaitsCurrent'
  BY OrderStep, WaitsStep DEF Inv
<1>3. /\ Inv /\ Inv' /\ RunOrder /\ WaitsCurrent
      /\ HoldsCancel /\ DeleteReady /\ NoTransferAfterDelete
      /\ [Next]_vars
      => HoldsCancel' /\ DeleteReady' /\ NoTransferAfterDelete'
  BY CancelHeld, DeleteReadyStep, TransferStep DEF Inv
<1> QED
  BY <1>1, <1>2, <1>3, OrderInit, InvAlways, PTL DEF Spec

=============================================================================

------------------------- MODULE UploadPersistProofs -------------------------
(***************************************************************************)
(* Proofs about UploadPersist, for any number of tasks, batches, callers,   *)
(* checkpoints and restarts: what an acknowledged task leaves in the        *)
(* database and on the disk, and which goroutine answers for it.            *)
(***************************************************************************)
EXTENDS UploadPersist, TLAPS

-----------------------------------------------------------------------------
(***************************************************************************)
(* The records the state is made of                                        *)
(***************************************************************************)
LEMMA Constants ==
  /\ MaxCkpt \in Nat /\ MaxBoot \in Nat /\ 0 \in 0..MaxCkpt /\ 0 \in 0..MaxBoot
  /\ \A b \in Batches : b \in Seq(Tasks) /\ 1 \in DOMAIN b /\ Len(b) \in Nat
                        /\ DOMAIN b = 1..Len(b) /\ \A i \in DOMAIN b : b[i] \in Tasks
  /\ Callers \cap (({"worker", "timer"} \X Tasks) \cup {Main}) = {}
<1>1. \A b \in Batches : b \in Seq(Tasks) /\ b # <<>>
  BY PersistAssumption
<1>2. \A b \in Seq(Tasks) : b # <<>> => Len(b) \in Nat /\ Len(b) > 0 /\ DOMAIN b = 1..Len(b)
                            /\ \A i \in DOMAIN b : b[i] \in Tasks
  OBVIOUS
<1> QED
  BY <1>1, <1>2, PersistAssumption DEF Main

LEMMA WriterNames ==
  /\ \A t \in Tasks : WorkerOf(t) \in Writers /\ TimerOf(t) \in Writers
  /\ Main \in Writers /\ Callers \subseteq Writers
  /\ \A t, u \in Tasks : WorkerOf(t) # TimerOf(u) /\ (WorkerOf(t) = WorkerOf(u) => t = u)
                         /\ (TimerOf(t) = TimerOf(u) => t = u)
  /\ \A t \in Tasks : WorkerOf(t) # Main /\ TimerOf(t) # Main
  /\ \A c \in Callers : c # Main /\ \A t \in Tasks : c # WorkerOf(t) /\ c # TimerOf(t)
<1>1. \A t \in Tasks : WorkerOf(t) \in {"worker", "timer"} \X Tasks
                       /\ TimerOf(t) \in {"worker", "timer"} \X Tasks
  BY DEF WorkerOf, TimerOf
<1>2. \A t \in Tasks : WorkerOf(t) # Main /\ TimerOf(t) # Main
  BY DEF WorkerOf, TimerOf, Main
<1>3. \A t, u \in Tasks : WorkerOf(t) # TimerOf(u) /\ (WorkerOf(t) = WorkerOf(u) => t = u)
                          /\ (TimerOf(t) = TimerOf(u) => t = u)
  BY DEF WorkerOf, TimerOf
<1> QED
  BY <1>1, <1>2, <1>3, Constants DEF Writers

LEMMA IOFields ==
  ASSUME NEW k \in IOState
  PROVE  /\ k.st \in {"none", "failed", "read", "upsert", "delete"}
         /\ k.st \in {"read", "upsert", "delete"} => k.t \in Tasks
         /\ k.st = "upsert" => k.rec \in Record
         /\ k.st = "none" => k = NoIO
         /\ k.st = "failed" => k = Failed
BY DEF IOState, NoIO, Failed

LEMMA IOValues ==
  /\ NoIO \in IOState /\ NoIO.st = "none" /\ Failed \in IOState /\ Failed.st = "failed"
  /\ \A t \in Tasks : /\ Persist(t) \in IOState /\ Persist(t).st = "read" /\ Persist(t).t = t
                      /\ [st |-> "delete", t |-> t] \in IOState
                      /\ \A rec \in Record : [st |-> "upsert", t |-> t, rec |-> rec] \in IOState
BY DEF IOState, NoIO, Failed, Persist

LEMMA CallFields ==
  ASSUME NEW k \in CallState
  PROVE  /\ k.op \in {"idle", "create", "undo", "go", "wait", "pop", "clean"}
         /\ k.op \in {"create", "undo"} => k.b \in Batches /\ k.i \in Nat
         /\ k.op \in {"go", "wait", "pop", "clean"} => k.t \in Tasks
         /\ k.op = "idle" => k = Idle
BY DEF CallState, Idle

LEMMA CallValues ==
  /\ Idle \in CallState /\ Idle.op = "idle"
  /\ \A b \in Batches, i \in Nat : [op |-> "create", b |-> b, i |-> i] \in CallState
                                   /\ [op |-> "undo", b |-> b, i |-> i] \in CallState
  /\ \A t \in Tasks, op \in {"go", "wait", "pop", "clean"} : [op |-> op, t |-> t] \in CallState
BY DEF CallState, Idle

\* A call that goes on, as a record of its own.
LEMMA CallUpdates ==
  ASSUME NEW k \in CallState
  PROVE  /\ k.op \in {"create", "undo"} => \A n :
              [k EXCEPT !.i = n] = [op |-> k.op, b |-> k.b, i |-> n]
         /\ k.op \in {"wait", "pop"} => \A op :
              [k EXCEPT !.op = op] = [op |-> op, t |-> k.t]
BY DEF CallState, Idle

LEMMA TaskUpdates ==
  ASSUME NEW s \in TaskState, NEW x \in Statuses, NEW k \in 0..MaxCkpt, NEW m \in Modes
  PROVE  /\ [s EXCEPT !.present = FALSE] \in TaskState
         /\ [s EXCEPT !.present = TRUE] \in TaskState
         /\ [s EXCEPT !.ckpt = k] \in TaskState
         /\ [s EXCEPT !.status = x] \in TaskState
         /\ [s EXCEPT !.mode = m] \in TaskState
         /\ [s EXCEPT !.status = x, !.mode = m] \in TaskState
         /\ [s EXCEPT !.mode = m, !.status = x] \in TaskState
         /\ [s EXCEPT !.status = x, !.ckpt = k] \in TaskState
         /\ [status |-> s.status, ckpt |-> s.ckpt] \in Record
         /\ s.status \in Statuses /\ s.ckpt \in 0..MaxCkpt
BY DEF TaskState, Record

LEMMA UnbornType == Unborn \in TaskState /\ [Unborn EXCEPT !.present = TRUE] \in TaskState
BY Constants DEF Unborn, TaskState, Statuses, Modes

-----------------------------------------------------------------------------
(***************************************************************************)
(* Types                                                                   *)
(***************************************************************************)
\* What the types rest on: a batch is written and undone within its bounds, and a
\* process that has ended may be restarted.
Indexed == \A c \in Callers : call[c].op \in {"create", "undo"} => call[c].i \in DOMAIN call[c].b
Restartable == proc = "off" => boots < MaxBoot
TypeInv == TypeOK /\ Indexed /\ Restartable

\* The history and the sets of tasks keep their types by themselves.
SetsTyped ==
  \A S \in {file', armed', todo', promised', stored', deleted', refused'} : S \subseteq Tasks
RestTyped == proc' = proc /\ boots' = boots /\ SetsTyped

LEMMA TypeInit == Init => TypeInv
<1> SUFFICES ASSUME Init PROVE TypeInv
  OBVIOUS
<1>1. Indexed /\ Restartable
  BY CallValues DEF Init, Indexed, Restartable
<1> QED
  BY <1>1, UnbornType, IOValues, CallValues, Constants
     DEF Init, TypeInv, TypeOK, WorkerPCs

LEMMA TypeParts ==
  ASSUME TypeInv, RestTyped, mem' \in [Tasks -> TaskState],
         row' \in [Tasks -> Record \cup {NoRow}], worker' \in [Tasks -> WorkerPCs],
         io' \in [Writers -> IOState], call' = call
  PROVE  TypeInv'
BY DEF TypeInv, TypeOK, RestTyped, SetsTyped, Indexed, Restartable

LEMMA DatabaseType == ASSUME TypeInv, NEW w \in Writers, Database(w) PROVE TypeInv'
<1> USE DEF TypeInv, TypeOK, procVars, memVars, history
<1>0. io[w] \in IOState /\ RestTyped /\ call' = call /\ UNCHANGED <<mem, worker>>
  BY DEF Database, ReadRecord, Upsert, DeletePersisted, RestTyped, SetsTyped
<1>1. row' \in [Tasks -> Record \cup {NoRow}]
  BY <1>0, IOFields DEF Database, ReadRecord, Upsert, DeletePersisted
<1>2. io' \in [Writers -> IOState]
  <2>1. CASE ReadRecord(w)
    <3>1. io[w].t \in Tasks
      BY <1>0, <2>1, IOFields DEF ReadRecord
    <3>2. [status |-> mem[io[w].t].status, ckpt |-> mem[io[w].t].ckpt] \in Record
      BY <3>1 DEF TaskState, Record
    <3> QED
      BY <2>1, <3>1, <3>2, IOValues DEF ReadRecord
  <2>2. CASE Upsert(w) \/ DeletePersisted(w)
    BY <2>2, IOValues DEF Upsert, AfterFailure, DeletePersisted
  <2> QED
    BY <2>1, <2>2 DEF Database
<1> QED
  BY <1>0, <1>1, <1>2, TypeParts

LEMMA WorkerType == ASSUME TypeInv, NEW t \in Tasks, Worker(t) PROVE TypeInv'
<1> USE DEF TypeInv, TypeOK, procVars, memVars, history
<1>a. UNCHANGED <<proc, boots, call, row>>
  BY DEF Worker, WorkerStart, Checkpoint, Progress, UploadFails, UploadSucceeds,
     CleanupSource, FinishUpload, WorkerExit, TimerFires
<1>b. SetsTyped
  BY DEF Worker, WorkerStart, Checkpoint, Progress, UploadFails, UploadSucceeds,
     CleanupSource, FinishUpload, WorkerExit, TimerFires, SetsTyped
<1>0. /\ mem[t] \in TaskState /\ RestTyped /\ call' = call /\ row' = row
      /\ WorkerOf(t) \in Writers /\ TimerOf(t) \in Writers
  BY <1>a, <1>b, WriterNames DEF RestTyped
<1>1. worker' \in [Tasks -> WorkerPCs]
  BY DEF Worker, WorkerStart, Checkpoint, Progress, UploadFails, UploadSucceeds,
     CleanupSource, FinishUpload, WorkerExit, TimerFires, WorkerGoes, WorkerPCs
<1>2. io' \in [Writers -> IOState]
  BY <1>0, IOValues DEF Worker, WorkerStart, Checkpoint, Progress, UploadFails,
     UploadSucceeds, CleanupSource, FinishUpload, WorkerExit, TimerFires, Patch
<1>3. mem' \in [Tasks -> TaskState]
  <2>a. ASSUME NEW s \in TaskState, Patch(t, s) PROVE mem' \in [Tasks -> TaskState]
    BY <2>a DEF Patch
  <2>1. CASE WorkerStart(t)
    <3>1. [mem[t] EXCEPT !.status = "running"] \in TaskState
      BY <1>0 DEF TaskState, Statuses
    <3> QED
      BY <2>1, <2>a, <3>1 DEF WorkerStart
  <2>2. CASE Checkpoint(t)
    <3>1. mem[t].ckpt + 1 \in 0..MaxCkpt
      BY <1>0, <2>2, Constants DEF Checkpoint, TaskState
    <3>2. [mem[t] EXCEPT !.ckpt = mem[t].ckpt + 1] \in TaskState
      BY <1>0, <3>1 DEF TaskState
    <3> QED
      BY <2>2, <3>2 DEF Checkpoint
  <2>3. CASE Progress(t)
    <3>1. [mem[t] EXCEPT !.status = "running"] \in TaskState
      BY <1>0 DEF TaskState, Statuses
    <3> QED
      BY <2>3, <3>1 DEF Progress
  <2>4. CASE UploadFails(t)
    <3>1. \A s \in Verdicts(t), k \in {mem[t].ckpt, 0} :
            [mem[t] EXCEPT !.status = s, !.ckpt = k] \in TaskState
      <4>1. Verdicts(t) \subseteq Statuses
        BY DEF Verdicts, Statuses
      <4>2. {mem[t].ckpt, 0} \subseteq 0..MaxCkpt
        BY <1>0, Constants DEF TaskState
      <4> QED
        BY <1>0, <4>1, <4>2 DEF TaskState
    <3> QED
      BY <2>4, <2>a, <3>1 DEF UploadFails
  <2>5. CASE FinishUpload(t)
    <3>1. [mem[t] EXCEPT !.status = "success", !.ckpt = 0] \in TaskState
      BY <1>0, Constants DEF TaskState, Statuses
    <3> QED
      BY <2>5, <2>a, <3>1 DEF FinishUpload
  <2>6. CASE UploadSucceeds(t) \/ CleanupSource(t) \/ WorkerExit(t) \/ TimerFires(t)
    BY <2>6 DEF UploadSucceeds, CleanupSource, WorkerExit, TimerFires
  <2> QED
    BY <2>1, <2>2, <2>3, <2>4, <2>5, <2>6 DEF Worker
<1> QED
  BY <1>0, <1>1, <1>2, <1>3, TypeParts

\* A call that leaves the bounds of its batch alone.
LEMMA CallType ==
  ASSUME TypeInv, RestTyped, NEW c \in Callers, NEW k \in CallState, NEW s \in [Tasks -> TaskState],
         k.op \in {"create", "undo"} => k.i \in DOMAIN k.b,
         call' = [call EXCEPT ![c] = k], mem' = s, row' = row,
         worker' \in [Tasks -> WorkerPCs], io' \in [Writers -> IOState]
  PROVE  TypeInv'
BY DEF TypeInv, TypeOK, RestTyped, SetsTyped, Indexed, Restartable

LEMMA CreateType ==
  ASSUME TypeInv, NEW c \in Callers,
         \/ \E b \in Batches : Create(c, b)
         \/ CreateNext(c) \/ CreateReturns(c) \/ CreateFails(c) \/ Undo(c)
  PROVE  TypeInv'
<1> USE DEF TypeInv, TypeOK, procVars, memVars, history
<1>0. /\ call[c] \in CallState /\ RestTyped /\ row' = row /\ c \in Writers
      /\ call[c].op \in {"create", "undo"} =>
           call[c].b \in Batches /\ call[c].i \in Nat /\ call[c].i \in DOMAIN call[c].b
  BY CallFields, WriterNames DEF Create, CreateNext, CreateReturns, CreateFails, Undo,
     RestTyped, SetsTyped, Indexed
<1>1. worker' \in [Tasks -> WorkerPCs]
  BY DEF Create, CreateNext, CreateReturns, CreateFails, Undo, WorkerPCs
<1>2. ASSUME NEW b \in Batches, Create(c, b) PROVE TypeInv'
  <2> DEFINE k == [op |-> "create", b |-> b, i |-> 1]
  <2>1. k \in CallState /\ k.i \in DOMAIN k.b
    BY CallValues, Constants
  <2>2. io' \in [Writers -> IOState]
    BY <1>0, <1>2, IOValues, Constants DEF Create
  <2>3. mem' \in [Tasks -> TaskState] /\ call' = [call EXCEPT ![c] = k]
    BY <1>2, UnbornType DEF Create
  <2> HIDE DEF k
  <2> QED
    BY <1>0, <1>1, <2>1, <2>2, <2>3, CallType
<1>3. CASE CreateNext(c)
  <2> DEFINE k == [op |-> "create", b |-> call[c].b, i |-> call[c].i + 1]
  <2>1. call[c].i + 1 \in DOMAIN call[c].b
    BY <1>0, <1>3, Constants DEF CreateNext
  <2>2. k \in CallState /\ k.i \in DOMAIN k.b
    <3>1. call[c].b \in Batches /\ call[c].i + 1 \in Nat
      BY <1>0, <1>3 DEF CreateNext
    <3> QED
      BY <2>1, <3>1, CallValues
  <2>3. io' \in [Writers -> IOState]
    BY <1>0, <1>3, <2>1, IOValues, Constants DEF CreateNext
  <2>4. mem' \in [Tasks -> TaskState] /\ call' = [call EXCEPT ![c] = k]
    <3>1. call[c].op = "create" /\ call' = [call EXCEPT ![c] = [call[c] EXCEPT !.i = call[c].i + 1]]
      BY <1>3 DEF CreateNext
    <3>2. [call[c] EXCEPT !.i = call[c].i + 1] = k
      BY <1>0, <3>1, CallUpdates
    <3> HIDE DEF k
    <3> QED
      BY <1>3, <3>1, <3>2 DEF CreateNext
  <2> HIDE DEF k
  <2> QED
    BY <1>0, <1>1, <2>2, <2>3, <2>4, CallType
<1>4. CASE CreateReturns(c)
  BY <1>0, <1>1, <1>4, CallValues, CallType DEF CreateReturns
<1>5. CASE CreateFails(c)
  <2> DEFINE k == [op |-> "undo", b |-> call[c].b, i |-> call[c].i]
  <2>1. k \in CallState /\ k.i \in DOMAIN k.b
    BY <1>0, <1>5, CallValues DEF CreateFails
  <2>2. io' \in [Writers -> IOState]
    BY <1>0, <1>5, IOValues DEF CreateFails
  <2>3. mem' \in [Tasks -> TaskState]
    BY <1>5 DEF CreateFails, TaskState
  <2>4. call' = [call EXCEPT ![c] = k]
    BY <1>5 DEF CreateFails
  <2> HIDE DEF k
  <2> QED
    BY <1>0, <1>1, <2>1, <2>2, <2>3, <2>4, CallType
<1>6. CASE Undo(c)
  <2>1. CASE AllUndone(c)
    BY <1>0, <1>1, <1>6, <2>1, CallValues, CallType DEF Undo
  <2>2. CASE ~AllUndone(c)
    <3> DEFINE k == [op |-> "undo", b |-> call[c].b, i |-> call[c].i - 1]
    <3>1. call[c].i - 1 \in DOMAIN call[c].b /\ call[c].i - 1 \in Nat
      BY <1>0, <1>6, <2>2, Constants DEF Undo, AllUndone
    <3>2. k \in CallState /\ k.i \in DOMAIN k.b
      BY <1>0, <1>6, <3>1, CallValues DEF Undo
    <3>3. io' \in [Writers -> IOState]
      <4>1. call[c].b[call[c].i - 1] \in Tasks
        BY <1>0, <1>6, <3>1, Constants DEF Undo
      <4>2. io' = [io EXCEPT ![c] = [st |-> "delete", t |-> call[c].b[call[c].i - 1]]]
        BY <1>6, <2>2 DEF Undo
      <4> QED
        BY <4>1, <4>2, IOValues
    <3>4. mem' \in [Tasks -> TaskState] /\ call' = [call EXCEPT ![c] = k]
      <4>1. call[c].op = "undo" /\ call' = [call EXCEPT ![c] = [call[c] EXCEPT !.i = call[c].i - 1]]
        BY <1>6, <2>2 DEF Undo
      <4>2. [call[c] EXCEPT !.i = call[c].i - 1] = k
        BY <1>0, <4>1, CallUpdates
      <4> HIDE DEF k
      <4> QED
        BY <1>6, <4>1, <4>2 DEF Undo
    <3> HIDE DEF k
    <3> QED
      BY <1>0, <1>1, <3>2, <3>3, <3>4, CallType
  <2> QED
    BY <2>1, <2>2
<1> QED
  BY <1>2, <1>3, <1>4, <1>5, <1>6

LEMMA CommandType ==
  ASSUME TypeInv, NEW c \in Callers,
         \/ \E t \in Tasks : Pause(c, t) \/ RenameTask(c, t) \/ Resume(c, t) \/ Delete(c, t)
         \/ ResumeGoes(c) \/ DeleteWaited(c) \/ DeletePop(c) \/ DeleteReturns(c)
  PROVE  TypeInv'
<1> USE DEF TypeInv, TypeOK, procVars, memVars, history
<1>0. /\ call[c] \in CallState /\ c \in Writers /\ \A t \in Tasks : mem[t] \in TaskState
      /\ call[c].op \in {"go", "wait", "pop", "clean"} => call[c].t \in Tasks
  BY CallFields, WriterNames
<1>1. ASSUME NEW t \in Tasks, Pause(c, t) PROVE TypeInv'
  <2>1. [mem[t] EXCEPT !.status = "paused", !.mode = "pause"] \in TaskState
    BY <1>0 DEF TaskState, Statuses, Modes
  <2>2. mem' \in [Tasks -> TaskState] /\ io' \in [Writers -> IOState]
    BY <1>0, <1>1, <2>1, IOValues DEF Pause
  <2> QED
    BY <1>1, <2>2, TypeParts DEF Pause, RestTyped, SetsTyped
<1>2. ASSUME NEW t \in Tasks, RenameTask(c, t) PROVE TypeInv'
  <2>1. io' \in [Writers -> IOState]
    BY <1>0, <1>2, IOValues DEF RenameTask
  <2> QED
    BY <1>2, <2>1, TypeParts DEF RenameTask, RestTyped, SetsTyped
<1>3. ASSUME NEW t \in Tasks, Resume(c, t) PROVE TypeInv'
  <2>1. /\ [mem[t] EXCEPT !.status = "pending", !.mode = ""] \in TaskState
        /\ [mem[t] EXCEPT !.status = "failed"] \in TaskState
    BY <1>0 DEF TaskState, Statuses, Modes
  <2>2. /\ mem' \in [Tasks -> TaskState] /\ io' \in [Writers -> IOState]
        /\ worker' \in [Tasks -> WorkerPCs]
    BY <1>0, <1>3, <2>1, IOValues DEF Resume, WorkerGoes, WorkerPCs
  <2>3. RestTyped /\ row' = row
    BY <1>3 DEF Resume, RestTyped, SetsTyped
  <2>4. CASE t \in file
    <3> DEFINE k == [op |-> "go", t |-> t]
    <3>1. k \in CallState /\ k.op \notin {"create", "undo"} /\ call' = [call EXCEPT ![c] = k]
      BY <1>3, <2>4, CallValues DEF Resume
    <3> HIDE DEF k
    <3> QED
      BY <2>2, <2>3, <3>1, CallType
  <2>5. CASE t \notin file
    BY <1>3, <2>2, <2>3, <2>5, TypeParts DEF Resume
  <2> QED
    BY <2>4, <2>5
<1>4. ASSUME NEW t \in Tasks, Delete(c, t) PROVE TypeInv'
  <2> DEFINE k(op) == [op |-> op, t |-> t]
             x == IF mem[t].status \in Active THEN "canceled" ELSE mem[t].status
  <2>1. [mem[t] EXCEPT !.mode = "delete", !.status = x] \in TaskState
    <3>1. x \in Statuses
      BY <1>0 DEF TaskState, Statuses
    <3> HIDE DEF x
    <3> QED
      BY <1>0, <3>1 DEF TaskState, Modes
  <2>2. /\ mem' \in [Tasks -> TaskState] /\ io' \in [Writers -> IOState]
        /\ worker' \in [Tasks -> WorkerPCs]
    BY <1>0, <1>4, <2>1, IOValues DEF Delete
  <2>3. RestTyped /\ row' = row
    BY <1>4 DEF Delete, RestTyped, SetsTyped
  <2>4. call' = [call EXCEPT ![c] = k("pop")] \/ call' = [call EXCEPT ![c] = k("wait")]
    BY <1>4 DEF Delete
  <2>5. \A op \in {"pop", "wait"} : k(op) \in CallState /\ k(op).op \notin {"create", "undo"}
    BY CallValues
  <2> HIDE DEF k
  <2> QED
    BY <2>2, <2>3, <2>4, <2>5, CallType
<1>5. CASE ResumeGoes(c)
  <2>1. worker' \in [Tasks -> WorkerPCs]
    BY <1>0, <1>5 DEF ResumeGoes, WorkerGoes, WorkerPCs
  <2> QED
    BY <1>5, <2>1, CallType, CallValues DEF ResumeGoes, RestTyped, SetsTyped
<1>6. CASE DeleteWaited(c)
  <2> DEFINE k == [op |-> "pop", t |-> call[c].t]
  <2>1. call[c].op = "wait" /\ call[c].t \in Tasks
    BY <1>0, <1>6 DEF DeleteWaited
  <2>2. [call[c] EXCEPT !.op = "pop"] = k
    BY <1>0, <2>1, CallUpdates
  <2>3. k \in CallState /\ k.op \notin {"create", "undo"}
    BY <2>1, CallValues
  <2>4. \/ call' = [call EXCEPT ![c] = [call[c] EXCEPT !.op = "pop"]]
        \/ call' = [call EXCEPT ![c] = Idle]
    BY <1>6 DEF DeleteWaited
  <2>5. RestTyped /\ UNCHANGED <<mem, row, worker, io>>
    BY <1>6 DEF DeleteWaited, RestTyped, SetsTyped
  <2> HIDE DEF k
  <2> QED
    BY <2>2, <2>3, <2>4, <2>5, CallType, CallValues
<1>7. CASE DeletePop(c)
  <2> DEFINE k == [op |-> "clean", t |-> call[c].t]
  <2>1. call[c].op = "pop" /\ call[c].t \in Tasks
    BY <1>0, <1>7 DEF DeletePop
  <2>2. [call[c] EXCEPT !.op = "clean"] = k
    BY <1>0, <2>1, CallUpdates
  <2>3. k \in CallState /\ k.op \notin {"create", "undo"}
    BY <2>1, CallValues
  <2>4. \/ call' = [call EXCEPT ![c] = [call[c] EXCEPT !.op = "clean"]]
        \/ call' = [call EXCEPT ![c] = Idle]
    BY <1>7 DEF DeletePop
  <2>5. RestTyped /\ UNCHANGED <<row, worker>>
    BY <1>7 DEF DeletePop, RestTyped, SetsTyped
  <2>6. [mem[call[c].t] EXCEPT !.present = FALSE] \in TaskState
    BY <1>0, <2>1 DEF TaskState
  <2>7. mem' \in [Tasks -> TaskState] /\ io' \in [Writers -> IOState]
    BY <1>0, <1>7, <2>1, <2>6, IOValues DEF DeletePop
  <2> HIDE DEF k
  <2> QED
    BY <2>2, <2>3, <2>4, <2>5, <2>7, CallType, CallValues
<1>8. CASE DeleteReturns(c)
  <2>1. RestTyped
    BY <1>0, <1>8 DEF DeleteReturns, RestTyped, SetsTyped
  <2> QED
    BY <1>8, <2>1, CallType, CallValues DEF DeleteReturns
<1> QED
  BY <1>1, <1>2, <1>3, <1>4, <1>5, <1>6, <1>7, <1>8

LEMMA LifecycleType == ASSUME TypeInv, Lifecycle PROVE TypeInv'
<1> USE DEF TypeInv, TypeOK, procVars, memVars, history, Indexed, Restartable
<1>1. CASE Stop
  <2>1. \A t \in Tasks : [mem[t] EXCEPT !.mode = "pause"] \in TaskState
    BY DEF TaskState, Modes
  <2>2. mem' \in [Tasks -> TaskState]
    BY <1>1, <2>1 DEF Stop
  <2> QED
    BY <1>1, <2>2 DEF Stop
<1>2. CASE Flush
  BY <1>2 DEF Flush
<1>3. CASE Flushed
  BY <1>3 DEF Flushed
<1>4. ASSUME NEW t \in Tasks, PersistNext(t) PROVE TypeInv'
  <2>1. io' \in [Writers -> IOState]
    BY <1>4, IOValues, WriterNames DEF PersistNext
  <2>2. todo' \subseteq Tasks
    BY <1>4 DEF PersistNext
  <2> QED
    BY <1>4, <2>1, <2>2 DEF PersistNext
<1>5. CASE Exit
  <2>1. mem' \in [Tasks -> TaskState] /\ io' \in [Writers -> IOState]
    BY <1>5, UnbornType, IOValues DEF Exit
  <2>2. worker' \in [Tasks -> WorkerPCs]
    BY <1>5 DEF Exit, WorkerPCs
  <2>3. call' \in [Callers -> CallState] /\ \A c \in Callers : call'[c].op = "idle"
    BY <1>5, CallValues DEF Exit
  <2>4. UNCHANGED <<boots, file, row, promised, stored, deleted, refused>>
        /\ todo' = {} /\ armed' = {} /\ proc' = "off" /\ boots < MaxBoot
    BY <1>5 DEF Exit
  <2> QED
    BY <2>1, <2>2, <2>3, <2>4
<1>6. CASE Restore
  <2>1. boots' \in 0..MaxBoot /\ proc' = "starting"
    <3>1. /\ boots' = boots + 1 /\ boots \in 0..MaxBoot /\ boots < MaxBoot
          /\ MaxBoot \in Nat /\ proc' = "starting"
      BY <1>6, Constants DEF Restore
    <3> QED
      BY <3>1
  <2>2. mem' \in [Tasks -> TaskState]
    <3>1. ASSUME NEW t \in Tasks, row[t] # NoRow
          PROVE  [present |-> TRUE, status |-> RestoredStatus(t), ckpt |-> row[t].ckpt,
                  mode |-> ""] \in TaskState
      <4>1. row[t] \in Record
        BY <3>1
      <4>2. RestoredStatus(t) \in Statuses /\ row[t].ckpt \in 0..MaxCkpt
        BY <4>1 DEF Record, RestoredStatus, Statuses
      <4> QED
        BY <4>2 DEF TaskState, Modes
    <3> QED
      BY <1>6, <3>1, UnbornType DEF Restore
  <2>3. todo' \subseteq Tasks
    BY <1>6 DEF Restore
  <2> QED
    BY <1>6, <2>1, <2>2, <2>3 DEF Restore
<1>7. CASE Started
  <2>1. worker' \in [Tasks -> WorkerPCs]
    BY <1>7 DEF Started, WorkerPCs
  <2> QED
    BY <1>7, <2>1 DEF Started
<1> QED
  BY <1>1, <1>2, <1>3, <1>4, <1>5, <1>6, <1>7 DEF Lifecycle

LEMMA TypeNext == TypeInv /\ [Next]_vars => TypeInv'
<1> SUFFICES ASSUME TypeInv, [Next]_vars PROVE TypeInv'
  OBVIOUS
<1>1. CASE UNCHANGED vars
  BY <1>1 DEF vars, procVars, memVars, history, TypeInv, TypeOK, Indexed, Restartable
<1>2. CASE \E c \in Callers : Handler(c)
  BY <1>2, CreateType, CommandType DEF Handler
<1> QED
  BY <1>1, <1>2, DatabaseType, WorkerType, LifecycleType DEF Next

\* Whatever the callers do, and wherever the process is stopped or dies, every record
\* in memory, in the table and under way between them is one the code can write.
THEOREM TypesPersist == Spec => []TypeOK
<1>1. TypeInv => TypeOK
  BY DEF TypeInv
<1> QED
  BY <1>1, TypeInit, TypeNext, PTL DEF Spec

-----------------------------------------------------------------------------
(***************************************************************************)
(* The invariant behind the promises: who may still write or delete a row,  *)
(* and which goroutine a task has.                                          *)
(***************************************************************************)
\* Out of the map for good, as far as this process goes.
Doomed(t) == ~mem[t].present /\ t \notin promised /\ worker[t] # "none"

\* Only the call that holds the task of a new run may start its worker.
Owns(c, t) ==
  \/ call[c].op = "create" /\ In(call[c].b, t)
  \/ call[c].op = "go" /\ call[c].t = t
Owned ==
  /\ \A c \in Callers, t \in Tasks : Owns(c, t) => worker[t] = "owed"
  /\ \A c, d \in Callers, t \in Tasks : Owns(c, t) /\ Owns(d, t) => c = d

\* The worker of a task tells how far its record and its file may be.
WorkerSound(t) ==
  /\ worker[t] = "none" => ~mem[t].present /\ row[t] = NoRow /\ t \notin promised
  /\ worker[t] = "lost" => ~mem[t].present
  /\ worker[t] \in {"owed", "start"} => mem[t].status # "running"
  /\ worker[t] = "exit" \/ (worker[t] = "ended" /\ proc = "up")
       => ~mem[t].present \/ mem[t].status \notin Active
  /\ worker[t] \in {"stored", "cleaned"} => t \in stored
  /\ proc \in {"off", "starting"} => worker[t] \in {"none", "ended"} /\ mem[t].status # "running"
  /\ proc = "off" => ~mem[t].present

\* What was promised is in the table; it is in memory and has its file, or is stored,
\* unless the table could not be read at a restart.
PromiseSound(t) ==
  t \in promised =>
    /\ row[t] # NoRow
    /\ "list" \notin Failing => (proc # "off" => mem[t].present) /\ t \in file \cup stored

\* Rows are only deleted of tasks that are out of the map for good.
Busy(w) == io[w].st \in {"read", "upsert", "delete"}
WriterSound(w) ==
  /\ Busy(w) => worker[io[w].t] # "none"
  /\ io[w].st = "delete" => Doomed(io[w].t)
  /\ proc = "off" => io[w] = NoIO

\* Row j of the batch that caller c creates has been written.
Written(c, j) == j < call[c].i \/ (j = call[c].i /\ io[c] = NoIO)

CallSound(c) ==
  /\ proc \in {"off", "starting"} => call[c] = Idle
  /\ call[c].op = "undo" => \A t \in Tasks : In(call[c].b, t) => Doomed(t)
  /\ call[c].op = "clean" => Doomed(call[c].t)
  /\ call[c].op = "create" =>
       /\ io[c].st # "delete"
       /\ io[c].st \in {"read", "upsert"} => io[c].t = call[c].b[call[c].i]
       /\ \A t \in Tasks : In(call[c].b, t) => t \notin promised /\ (mem[t].present => t \in file)
       /\ \A j \in DOMAIN call[c].b :
            Written(c, j) /\ mem[call[c].b[j]].present => row[call[c].b[j]] # NoRow

Sound ==
  /\ TypeInv /\ Owned
  /\ \A t \in Tasks : WorkerSound(t) /\ PromiseSound(t)
  /\ \A w \in Writers : WriterSound(w)
  /\ \A c \in Callers : CallSound(c)

LEMMA SoundInit == Init => Sound
<1> SUFFICES ASSUME Init PROVE Sound
  OBVIOUS
<1>1. \A c \in Callers : call[c] = Idle /\ call[c].op = "idle"
  BY CallValues DEF Init
<1>2. \A w \in Writers : io[w] = NoIO /\ io[w].st = "none"
  BY IOValues DEF Init
<1>3. \A t \in Tasks : WorkerSound(t) /\ PromiseSound(t)
  BY DEF Init, WorkerSound, PromiseSound, Unborn
<1>4. Owned /\ \A c \in Callers : CallSound(c)
  BY <1>1 DEF Owned, Owns, CallSound
<1>5. \A w \in Writers : WriterSound(w)
  BY <1>2 DEF WriterSound, Busy
<1> QED
  BY <1>3, <1>4, <1>5, TypeInit DEF Sound

-----------------------------------------------------------------------------
(***************************************************************************)
(* What a step leaves alone                                                 *)
(***************************************************************************)
\* Task t is as it was.
Kept(t) ==
  /\ mem'[t] = mem[t] /\ worker'[t] = worker[t] /\ row'[t] = row[t]
  /\ t \in promised' <=> t \in promised
  /\ t \in file => t \in file'
  /\ t \in stored => t \in stored'

\* Its worker has not moved and it has lost nothing unless it has left the map.
Spared(t) ==
  /\ worker'[t] = worker[t]
  /\ mem'[t].present => mem[t].present
  /\ t \in promised' => t \in promised
  /\ mem'[t].present /\ row[t] # NoRow => row'[t] # NoRow
  /\ mem'[t].present /\ t \in file => t \in file'

\* Nobody's task becomes new or comes back to life.
Onward ==
  /\ proc' = proc
  /\ \A t \in Tasks : worker[t] # "none" => worker'[t] # "none"
  /\ \A t \in Tasks : Doomed(t) => Doomed(t)'

LEMMA KeptSpared == ASSUME NEW t, Kept(t) PROVE Spared(t) /\ (Doomed(t) => Doomed(t)')
BY DEF Kept, Spared, Doomed

LEMMA KeptSound ==
  ASSUME NEW t, Kept(t), proc' = proc, WorkerSound(t), PromiseSound(t)
  PROVE  WorkerSound(t)' /\ PromiseSound(t)'
BY DEF Kept, WorkerSound, PromiseSound

LEMMA WriterStays ==
  ASSUME Sound, Onward, NEW w \in Writers, io'[w] = io[w]
  PROVE  WriterSound(w)'
<1>1. io[w] \in IOState
  BY DEF Sound, TypeInv, TypeOK
<1>2. Busy(w) => io[w].t \in Tasks
  BY <1>1, IOFields DEF Busy
<1>3. io[w].st = "delete" => Busy(w)
  BY DEF Busy
<1> QED
  BY <1>2, <1>3 DEF Sound, WriterSound, Onward, Busy

LEMMA CallStays ==
  ASSUME Sound, Onward, NEW c \in Callers, call'[c] = call[c], io'[c] = io[c],
         \A t \in Tasks : Owns(c, t) => Spared(t)
  PROVE  CallSound(c)'
<1>1. call[c] \in CallState
  BY DEF Sound, TypeInv, TypeOK
<1>2. call[c].op = "clean" => call[c].t \in Tasks
  BY <1>1, CallFields
<1>3. CASE call[c].op = "create"
  <2>1. \A j \in DOMAIN call[c].b : call[c].b[j] \in Tasks /\ Owns(c, call[c].b[j])
    BY <1>1, <1>3, CallFields, Constants DEF Owns, In
  <2>2. \A j \in DOMAIN call[c].b : Written(c, j)' <=> Written(c, j)
    BY DEF Written
  <2>3. \A j \in DOMAIN call[c].b : Spared(call[c].b[j])
    BY <2>1
  <2>4. \A t \in Tasks : In(call[c].b, t) => Spared(t)
    BY <1>3 DEF Owns
  <2> QED
    BY <1>3, <2>2, <2>3, <2>4 DEF Sound, CallSound, Onward, Spared
<1>4. CASE call[c].op # "create"
  BY <1>2, <1>4 DEF Sound, CallSound, Onward
<1> QED
  BY <1>3, <1>4

\* A call that has nothing to answer for.
LEMMA CallFree ==
  ASSUME NEW c \in Callers, call'[c].op \in {"idle", "go", "wait", "pop"},
         proc' \notin {"off", "starting"} \/ call'[c] = Idle
  PROVE  CallSound(c)'
BY DEF CallSound

LEMMA OwnedStays ==
  ASSUME Sound,
         \A c \in Callers, t \in Tasks : Owns(c, t)' => Owns(c, t) /\ worker'[t] = "owed"
  PROVE  Owned'
BY DEF Sound, Owned

LEMMA SoundTypes ==
  ASSUME Sound
  PROVE  /\ \A t \in Tasks : mem[t] \in TaskState /\ worker[t] \in WorkerPCs
                             /\ row[t] \in Record \cup {NoRow}
         /\ \A w \in Writers : io[w] \in IOState /\ (Busy(w) => io[w].t \in Tasks)
         /\ \A c \in Callers : call[c] \in CallState
BY IOFields DEF Sound, TypeInv, TypeOK, Busy

LEMMA RecordIsRow == \A rec \in Record : rec # NoRow
BY DEF Record, NoRow, Statuses

-----------------------------------------------------------------------------
(***************************************************************************)
(* persistTask and deletePersisted                                         *)
(***************************************************************************)
\* The only task a writer touches is the one it is writing; the row it writes is
\* a row, and it deletes none of a task in the map.
LEMMA DatabaseRow ==
  ASSUME Sound, NEW w \in Writers, Database(w)
  PROVE  /\ Onward /\ UNCHANGED <<proc, mem, worker, file, promised, stored, call>>
         /\ Busy(w) /\ io[w].t \in Tasks /\ io[w] # NoIO
         /\ \A v \in Writers : v # w => io'[v] = io[v]
         /\ \A t \in Tasks : t # io[w].t => row'[t] = row[t]
         /\ row'[io[w].t] = NoRow => row[io[w].t] = NoRow \/ Doomed(io[w].t)
<1>1. io[w] \in IOState /\ Busy(w)
  BY DEF Sound, TypeInv, TypeOK, Busy, Database, ReadRecord, Upsert, DeletePersisted
<1>2. io[w].t \in Tasks /\ io[w] # NoIO
  BY <1>1, IOFields, IOValues DEF Busy
<1>3. UNCHANGED <<proc, mem, worker, file, promised, stored, call>>
  BY DEF Database, ReadRecord, Upsert, DeletePersisted, memVars, procVars, history
<1>4. Onward
  BY <1>3 DEF Onward, Doomed
<1>5. \A v \in Writers : v # w => io'[v] = io[v]
  BY DEF Sound, TypeInv, TypeOK, Database, ReadRecord, Upsert, DeletePersisted
<1>6. \A t \in Tasks : t # io[w].t => row'[t] = row[t]
  BY DEF Sound, TypeInv, TypeOK, Database, ReadRecord, Upsert, DeletePersisted
<1>7. row'[io[w].t] = NoRow => row[io[w].t] = NoRow \/ Doomed(io[w].t)
  <2>1. CASE ReadRecord(w)
    BY <2>1 DEF ReadRecord
  <2>2. CASE Upsert(w)
    <3>1. io[w].rec # NoRow
      BY <1>1, <2>2, IOFields, RecordIsRow DEF Upsert
    <3> QED
      BY <1>2, <2>2, <3>1 DEF Upsert, Sound, TypeInv, TypeOK
  <2>3. CASE DeletePersisted(w)
    BY <2>3 DEF DeletePersisted, Sound, WriterSound
  <2> QED
    BY <2>1, <2>2, <2>3 DEF Database
<1> QED
  BY <1>1, <1>2, <1>3, <1>4, <1>5, <1>6, <1>7

LEMMA DatabaseIO ==
  ASSUME Sound, NEW w \in Writers, Database(w)
  PROVE  \/ io[w].st = "read" /\ io'[w].st = "upsert" /\ io'[w].t = io[w].t
         \/ io[w].st = "upsert" /\ io'[w] = NoIO /\ row'[io[w].t] # NoRow
         \/ io[w].st = "upsert" /\ io'[w] = AfterFailure(w)
         \/ io[w].st = "delete" /\ io'[w] = NoIO
<1> USE DEF Sound, TypeInv, TypeOK
<1>1. CASE ReadRecord(w)
  BY <1>1 DEF ReadRecord
<1>2. CASE Upsert(w)
  <2>1. io[w].rec \in Record /\ io[w].t \in Tasks
    BY <1>2, IOFields DEF Upsert
  <2>2. io[w].rec # NoRow
    BY <2>1, RecordIsRow
  <2> QED
    BY <1>2, <2>1, <2>2 DEF Upsert
<1>3. CASE DeletePersisted(w)
  BY <1>3 DEF DeletePersisted
<1> QED
  BY <1>1, <1>2, <1>3 DEF Database

LEMMA DatabaseSound == ASSUME Sound, NEW w \in Writers, Database(w) PROVE Sound'
<1>1. TypeInv'
  BY DatabaseType DEF Sound
<1>2. Owned'
  BY DatabaseRow, OwnedStays DEF Sound, Owned, Owns
<1>3. \A t \in Tasks : WorkerSound(t)' /\ PromiseSound(t)'
  <2> TAKE t \in Tasks
  <2>0. WorkerSound(t) /\ PromiseSound(t)
    BY DEF Sound
  <2>1. CASE t # io[w].t
    <3>1. Kept(t) /\ proc' = proc
      BY <2>1, DatabaseRow DEF Kept
    <3> QED
      BY <2>0, <3>1, KeptSound
  <2>2. CASE t = io[w].t
    <3>1. worker[t] # "none"
      BY <2>2, DatabaseRow DEF Sound, WriterSound
    <3>2. UNCHANGED <<proc, mem, worker, file, promised, stored>>
      BY DatabaseRow
    <3>3. row'[t] = NoRow => row[t] = NoRow \/ t \notin promised
      BY <2>2, DatabaseRow DEF Doomed
    <3>4. WorkerSound(t)'
      BY <2>0, <3>1, <3>2 DEF WorkerSound
    <3>5. PromiseSound(t)'
      BY <2>0, <3>2, <3>3 DEF PromiseSound
    <3> QED
      BY <3>4, <3>5
  <2> QED
    BY <2>1, <2>2
<1>4. \A v \in Writers : WriterSound(v)'
  <2> TAKE v \in Writers
  <2>1. CASE v # w
    BY <2>1, DatabaseRow, WriterStays
  <2>2. CASE v = w
    <3>1. proc' # "off" /\ worker'[io[w].t] # "none"
      BY DatabaseRow DEF Sound, WriterSound
    <3>2. \/ io'[w].st = "upsert" /\ io'[w].t = io[w].t
          \/ io'[w] = NoIO \/ io'[w] = Failed
      BY DatabaseIO DEF AfterFailure
    <3> QED
      BY <2>2, <3>1, <3>2, IOValues DEF WriterSound, Busy
  <2> QED
    BY <2>1, <2>2
<1>5. \A c \in Callers : CallSound(c)'
  <2> TAKE c \in Callers
  <2>a. \A t \in Tasks : Spared(t)
    <3> TAKE t \in Tasks
    <3>1. row[t] # NoRow /\ row'[t] = NoRow => ~mem[t].present
      BY DatabaseRow DEF Doomed
    <3> QED
      BY <3>1, DatabaseRow DEF Spared
  <2>b. call[c] \in CallState /\ call' = call /\ proc' = proc
    BY SoundTypes, DatabaseRow
  <2>c. CallSound(c)
    BY DEF Sound
  <2>1. CASE c # w
    <3>1. io'[c] = io[c] /\ call'[c] = call[c]
      BY <2>1, DatabaseRow, WriterNames
    <3> QED
      BY <2>a, <3>1, DatabaseRow, CallStays
  <2>2. CASE c = w /\ call[c].op = "create"
    <3>1. /\ call[c].b \in Batches /\ call[c].i \in DOMAIN call[c].b
          /\ \A j \in DOMAIN call[c].b : call[c].b[j] \in Tasks
      BY <2>2, <2>b, CallFields, Constants DEF Sound, TypeInv, Indexed
    <3>2. AfterFailure(c) = Failed
      BY <2>2 DEF AfterFailure
    <3>3. io[c].st \in {"read", "upsert"} /\ io[c].t = call[c].b[call[c].i] /\ io[c] # NoIO
      BY <2>2, <2>c, DatabaseRow DEF CallSound, Busy
    <3>4. \/ io'[c].st = "upsert" /\ io'[c].t = io[c].t /\ io'[c] # NoIO
          \/ io'[c] = NoIO /\ row'[io[c].t] # NoRow
          \/ io'[c] = Failed /\ Failed # NoIO
      BY <2>2, <3>2, <3>3, DatabaseIO, IOValues
    <3>5. \A j \in DOMAIN call[c].b :
            Written(c, j)' /\ mem[call[c].b[j]].present => row'[call[c].b[j]] # NoRow
      <4> TAKE j \in DOMAIN call[c].b
      <4>1. Written(c, j) /\ mem[call[c].b[j]].present => row'[call[c].b[j]] # NoRow
        BY <2>2, <2>a, <2>c, <3>1, DatabaseRow DEF CallSound, Spared
      <4>2. Written(c, j)' => Written(c, j) \/ (j = call[c].i /\ io'[c] = NoIO)
        BY <2>b DEF Written
      <4> QED
        BY <3>3, <3>4, <4>1, <4>2
    <3>6. io'[c].st # "delete" /\ (io'[c].st \in {"read", "upsert"} => io'[c].t = io[c].t)
      BY <3>4, IOValues
    <3>7. UNCHANGED <<mem, file, promised>>
      BY DatabaseRow
    <3>8. proc \notin {"off", "starting"}
      BY <2>2, <2>c, CallValues DEF CallSound
    <3> QED
      BY <2>2, <2>b, <2>c, <3>3, <3>5, <3>6, <3>7, <3>8 DEF CallSound
  <2>3. CASE call[c].op # "create"
    <3>1. call[c].op = "clean" => call[c].t \in Tasks
      BY <2>b, CallFields
    <3> QED
      BY <2>3, <2>b, <2>c, <3>1, DatabaseRow DEF CallSound, Onward
  <2> QED
    BY <2>1, <2>2, <2>3
<1> QED
  BY <1>1, <1>2, <1>3, <1>4, <1>5 DEF Sound

-----------------------------------------------------------------------------
(***************************************************************************)
(* The worker                                                              *)
(***************************************************************************)
\* A worker changes its own task, leaves it where it is, and persists it itself.
LEMMA WorkerFrame ==
  ASSUME Sound, NEW t \in Tasks, Worker(t)
  PROVE  /\ UNCHANGED <<proc, row, call, promised>>
         /\ \A u \in Tasks : u # t => mem'[u] = mem[u] /\ worker'[u] = worker[u]
                                      /\ (u \in file => u \in file')
         /\ \A u \in Tasks : u \in stored => u \in stored'
         /\ mem'[t].present = mem[t].present
         /\ worker[t] \in {"none", "owed"} => mem'[t] = mem[t] /\ file' = file
         /\ worker[t] = "owed" => worker'[t] = "owed"
         /\ worker'[t] = "none" <=> worker[t] = "none"
         /\ \A w \in Writers : \/ io'[w] = io[w]
                               \/ w \notin Callers /\ io'[w] = Persist(t) /\ worker[t] # "none"
<1> USE DEF Sound, TypeInv, TypeOK, memVars, procVars, history
<1>1. UNCHANGED <<proc, row, call, promised>>
  BY DEF Worker, WorkerStart, Checkpoint, Progress, UploadFails, UploadSucceeds,
     CleanupSource, FinishUpload, WorkerExit, TimerFires
<1>2. \A u \in Tasks : u # t => mem'[u] = mem[u] /\ worker'[u] = worker[u]
                                /\ (u \in file => u \in file')
  BY DEF Worker, WorkerStart, Checkpoint, Progress, UploadFails, UploadSucceeds,
     CleanupSource, FinishUpload, WorkerExit, TimerFires, Patch, WorkerGoes
<1>3. \A u \in Tasks : u \in stored => u \in stored'
  BY DEF Worker, WorkerStart, Checkpoint, Progress, UploadFails, UploadSucceeds,
     CleanupSource, FinishUpload, WorkerExit, TimerFires
<1>4. mem'[t].present = mem[t].present
  BY DEF Worker, WorkerStart, Checkpoint, Progress, UploadFails, UploadSucceeds,
     CleanupSource, FinishUpload, WorkerExit, TimerFires, Patch, TaskState
<1>6. /\ worker[t] \in {"none", "owed"} => mem'[t] = mem[t] /\ file' = file
      /\ worker[t] = "owed" => worker'[t] = "owed"
      /\ worker'[t] = "none" <=> worker[t] = "none"
  <2>1. CASE TimerFires(t)
    BY <2>1 DEF TimerFires
  <2>2. CASE ~TimerFires(t)
    <3>1. worker[t] \notin {"none", "owed"}
      BY <2>2 DEF Worker, WorkerStart, Checkpoint, Progress, UploadFails, UploadSucceeds,
         CleanupSource, FinishUpload, WorkerExit
    <3>2. worker' = worker \/ \E to \in WorkerPCs \ {"none"} : WorkerGoes(t, to)
      BY <2>2 DEF Worker, WorkerStart, Checkpoint, Progress, UploadFails, UploadSucceeds,
         CleanupSource, FinishUpload, WorkerExit, WorkerPCs
    <3> QED
      BY <3>1, <3>2 DEF WorkerGoes
  <2> QED
    BY <2>1, <2>2
<1>7. \A w \in Writers : \/ io'[w] = io[w]
                         \/ w \notin Callers /\ io'[w] = Persist(t) /\ worker[t] # "none"
  <2>1. WorkerOf(t) \notin Callers /\ TimerOf(t) \notin Callers
    BY WriterNames
  <2>2. \/ io' = io
        \/ io' = [io EXCEPT ![WorkerOf(t)] = Persist(t)]
        \/ io' = [io EXCEPT ![TimerOf(t)] = Persist(t)]
    BY DEF Worker, WorkerStart, Checkpoint, Progress, UploadFails, UploadSucceeds,
       CleanupSource, FinishUpload, WorkerExit, TimerFires, Patch
  <2>3. worker[t] = "none" => io' = io
    <3>1. WorkerSound(t)
      OBVIOUS
    <3> QED
      BY <3>1 DEF Worker, WorkerStart, Checkpoint, Progress, UploadFails, UploadSucceeds,
         CleanupSource, FinishUpload, WorkerExit, TimerFires, WorkerSound
  <2>4. io \in [Writers -> IOState] /\ WorkerOf(t) \in Writers /\ TimerOf(t) \in Writers
    BY WriterNames
  <2> HIDE DEF Sound, TypeInv, TypeOK
  <2> QED
    BY <2>1, <2>2, <2>3, <2>4
<1> QED
  BY <1>1, <1>2, <1>3, <1>4, <1>6, <1>7

LEMMA WorkerTask ==
  ASSUME Sound, NEW t \in Tasks, Worker(t)
  PROVE  WorkerSound(t)' /\ PromiseSound(t)'
<1>0. /\ WorkerSound(t) /\ PromiseSound(t) /\ mem[t] \in TaskState
      /\ UNCHANGED <<proc, row, promised>> /\ mem'[t].present = mem[t].present
      /\ worker'[t] = "none" <=> worker[t] = "none"
      /\ t \in stored => t \in stored'
  BY WorkerFrame, SoundTypes DEF Sound
<1>1. t \in file \cup stored => t \in file' \cup stored'
  BY <1>0 DEF Worker, WorkerStart, Checkpoint, Progress, UploadFails, UploadSucceeds,
     CleanupSource, FinishUpload, WorkerExit, TimerFires, WorkerSound, Sound, TypeInv, TypeOK
<1>2. PromiseSound(t)'
  BY <1>0, <1>1 DEF PromiseSound
<1>3. proc \notin {"off", "starting"}
  BY DEF Worker, WorkerStart, Checkpoint, Progress, UploadFails, UploadSucceeds,
     CleanupSource, FinishUpload, WorkerExit, TimerFires, Running
<1>4. /\ worker'[t] = "lost" => ~mem'[t].present
      /\ worker'[t] \in {"owed", "start"} => mem'[t].status # "running"
      /\ worker'[t] = "exit" \/ (worker'[t] = "ended" /\ proc = "up")
           => ~mem'[t].present \/ mem'[t].status \notin Active
      /\ worker'[t] \in {"stored", "cleaned"} => t \in stored'
  <2> USE DEF Sound, TypeInv, TypeOK
  <2>1. CASE WorkerStart(t)
    BY <1>0, <2>1 DEF WorkerStart, Patch, WorkerGoes, WorkerSound, Active
  <2>2. CASE Checkpoint(t) \/ Progress(t)
    BY <1>0, <2>2 DEF Checkpoint, Progress, WorkerSound
  <2>3. CASE UploadFails(t)
    <3>1. Verdicts(t) \cap Active = {}
      BY DEF Verdicts, Active
    <3>2. worker'[t] = "exit"
      BY <2>3 DEF UploadFails, WorkerGoes
    <3>3. ~mem'[t].present \/ mem'[t].status \notin Active
      <4>1. PICK x \in Verdicts(t), k \in {mem[t].ckpt, 0} :
                Patch(t, [mem[t] EXCEPT !.status = x, !.ckpt = k])
        BY <2>3 DEF UploadFails
      <4>2. [mem[t] EXCEPT !.status = x, !.ckpt = k].status = x
        BY <1>0 DEF TaskState
      <4> QED
        BY <1>0, <3>1, <4>1, <4>2 DEF Patch
    <3> QED
      BY <3>2, <3>3
  <2>4. CASE UploadSucceeds(t)
    BY <1>0, <2>4 DEF UploadSucceeds, WorkerGoes, WorkerSound
  <2>5. CASE CleanupSource(t) \/ WorkerExit(t)
    BY <1>0, <2>5 DEF CleanupSource, WorkerExit, WorkerGoes, WorkerSound
  <2>6. CASE FinishUpload(t)
    <3>1. [mem[t] EXCEPT !.status = "success", !.ckpt = 0].status = "success"
      BY <1>0 DEF TaskState
    <3>2. worker'[t] = "exit" /\ (~mem'[t].present \/ mem'[t].status = "success")
      BY <1>0, <2>6, <3>1 DEF FinishUpload, Patch, WorkerGoes
    <3> QED
      BY <3>2 DEF Active
  <2>7. CASE TimerFires(t)
    BY <1>0, <2>7 DEF TimerFires, WorkerSound
  <2> QED
    BY <2>1, <2>2, <2>3, <2>4, <2>5, <2>6, <2>7 DEF Worker
<1>5. WorkerSound(t)'
  BY <1>0, <1>3, <1>4 DEF WorkerSound
<1> QED
  BY <1>2, <1>5

LEMMA WorkerStep == ASSUME Sound, NEW t \in Tasks, Worker(t) PROVE Sound'
<1>1. TypeInv'
  BY WorkerType DEF Sound
<1>2. Onward
  <2>1. \A u \in Tasks : worker[u] # "none" => worker'[u] # "none"
    BY WorkerFrame
  <2>2. \A u \in Tasks : mem'[u].present = mem[u].present
    BY WorkerFrame
  <2> QED
    BY <2>1, <2>2, WorkerFrame DEF Onward, Doomed
<1>3. Owned'
  <2>1. \A c \in Callers, u \in Tasks : Owns(c, u)' <=> Owns(c, u)
    BY WorkerFrame DEF Owns
  <2>2. \A c \in Callers, u \in Tasks : Owns(c, u) => worker[u] = "owed"
    BY DEF Sound, Owned
  <2>3. \A u \in Tasks : worker[u] = "owed" => worker'[u] = "owed"
    BY WorkerFrame
  <2> QED
    BY <2>1, <2>2, <2>3, OwnedStays
<1>4. \A u \in Tasks : WorkerSound(u)' /\ PromiseSound(u)'
  <2> TAKE u \in Tasks
  <2>1. CASE u # t
    <3>1. Kept(u) /\ proc' = proc
      BY <2>1, WorkerFrame DEF Kept
    <3> QED
      BY <3>1, KeptSound DEF Sound
  <2>2. CASE u = t
    BY <2>2, WorkerTask
  <2> QED
    BY <2>1, <2>2
<1>5. \A w \in Writers : WriterSound(w)'
  <2> TAKE w \in Writers
  <2>1. CASE io'[w] = io[w]
    BY <1>2, <2>1, WriterStays
  <2>2. CASE io'[w] # io[w]
    <3>1. proc' # "off"
      BY WorkerFrame DEF Worker, WorkerStart, Checkpoint, Progress, UploadFails, UploadSucceeds,
         CleanupSource, FinishUpload, WorkerExit, TimerFires, Running
    <3>2. io'[w] = Persist(t) /\ worker'[t] # "none"
      BY <2>2, WorkerFrame
    <3> QED
      BY <3>1, <3>2, IOValues DEF WriterSound, Busy
  <2> QED
    BY <2>1, <2>2, WorkerFrame
<1>6. \A c \in Callers : CallSound(c)'
  <2> TAKE c \in Callers
  <2>1. io'[c] = io[c] /\ call'[c] = call[c]
    BY WorkerFrame, WriterNames
  <2>2. \A u \in Tasks : Owns(c, u) => Spared(u)
    <3> TAKE u \in Tasks
    <3>1. Owns(c, u) => worker[u] = "owed"
      BY DEF Sound, Owned
    <3> QED
      BY <3>1, WorkerFrame DEF Spared
  <2> QED
    BY <1>2, <2>1, <2>2, CallStays
<1> QED
  BY <1>1, <1>3, <1>4, <1>5, <1>6 DEF Sound

-----------------------------------------------------------------------------
(***************************************************************************)
(* The handlers                                                            *)
(***************************************************************************)
\* A step of handler c, and what is left to show of it.
CallerStep(c) ==
  /\ Onward
  /\ \A d \in Callers : d # c => call'[d] = call[d]
  /\ \A w \in Writers : w # c => io'[w] = io[w]
  /\ \A d \in Callers, t \in Tasks : d # c /\ Owns(d, t) => Spared(t)

LEMMA HandlerSound ==
  ASSUME Sound, TypeInv', NEW c \in Callers, CallerStep(c), Owned', WriterSound(c)', CallSound(c)',
         \A t \in Tasks : Kept(t) \/ (WorkerSound(t)' /\ PromiseSound(t)')
  PROVE  Sound'
<1>1. \A t \in Tasks : WorkerSound(t)' /\ PromiseSound(t)'
  BY KeptSound DEF Sound, CallerStep, Onward
<1>2. \A w \in Writers : WriterSound(w)'
  BY WriterStays DEF CallerStep
<1>3. \A d \in Callers : CallSound(d)'
  <2> TAKE d \in Callers
  <2>1. CASE d = c
    BY <2>1
  <2>2. CASE d # c
    BY <2>2, CallStays, WriterNames DEF CallerStep
  <2> QED
    BY <2>1, <2>2
<1> QED
  BY <1>1, <1>2, <1>3 DEF Sound

LEMMA CallerFacts ==
  ASSUME Sound, NEW c \in Callers
  PROVE  /\ call \in [Callers -> CallState] /\ io \in [Writers -> IOState]
         /\ mem \in [Tasks -> TaskState] /\ worker \in [Tasks -> WorkerPCs]
         /\ row \in [Tasks -> Record \cup {NoRow}]
         /\ c \in Writers /\ call[c] \in CallState
         /\ call[c].op \in {"create", "undo"} =>
              /\ call[c].b \in Batches /\ call[c].i \in 1..Len(call[c].b)
              /\ Len(call[c].b) \in Nat /\ DOMAIN call[c].b = 1..Len(call[c].b)
              /\ \A j \in DOMAIN call[c].b : call[c].b[j] \in Tasks /\ In(call[c].b, call[c].b[j])
         /\ call[c].op \in {"go", "wait", "pop", "clean"} => call[c].t \in Tasks
         /\ call[c] # Idle => proc \notin {"off", "starting"}
         /\ \A t \in Tasks : Owns(c, t) => worker[t] = "owed"
         /\ \A d \in Callers, t \in Tasks : Owns(c, t) /\ Owns(d, t) => d = c
         /\ CallSound(c) /\ WriterSound(c)
         /\ \A t \in Tasks : WorkerSound(t) /\ PromiseSound(t)
<1>1. /\ call \in [Callers -> CallState] /\ io \in [Writers -> IOState]
      /\ mem \in [Tasks -> TaskState] /\ worker \in [Tasks -> WorkerPCs]
      /\ row \in [Tasks -> Record \cup {NoRow}]
  BY DEF Sound, TypeInv, TypeOK
<1>2. c \in Writers /\ call[c] \in CallState
  BY <1>1, WriterNames
<1>3. CallSound(c) /\ WriterSound(c) /\ \A t \in Tasks : WorkerSound(t) /\ PromiseSound(t)
  BY <1>2 DEF Sound
<1>4. /\ \A t \in Tasks : Owns(c, t) => worker[t] = "owed"
      /\ \A d \in Callers, t \in Tasks : Owns(c, t) /\ Owns(d, t) => d = c
  BY DEF Sound, Owned
<1>5. call[c].op \in {"create", "undo"} =>
        /\ call[c].b \in Batches /\ call[c].i \in 1..Len(call[c].b)
        /\ Len(call[c].b) \in Nat /\ DOMAIN call[c].b = 1..Len(call[c].b)
        /\ \A j \in DOMAIN call[c].b : call[c].b[j] \in Tasks /\ In(call[c].b, call[c].b[j])
  BY <1>2, CallFields, Constants DEF Sound, TypeInv, Indexed, In
<1>6. call[c].op \in {"go", "wait", "pop", "clean"} => call[c].t \in Tasks
  BY <1>2, CallFields
<1> QED
  BY <1>1, <1>2, <1>3, <1>4, <1>5, <1>6 DEF CallSound

LEMMA CreateSound ==
  ASSUME Sound, NEW c \in Callers, NEW b \in Batches, Create(c, b)
  PROVE  Sound'
<1> USE CallerFacts
<1>0. /\ TypeInv' /\ UNCHANGED <<proc, row, promised, stored>> /\ proc = "up"
      /\ \A t \in Tasks : In(b, t) =>
           /\ worker[t] = "none" /\ worker'[t] = "owed" /\ t \in file'
           /\ mem'[t] = [Unborn EXCEPT !.present = TRUE]
      /\ \A t \in Tasks : ~In(b, t) => worker'[t] = worker[t] /\ mem'[t] = mem[t]
      /\ \A t \in file : t \in file'
      /\ io' = [io EXCEPT ![c] = Persist(b[1])]
  BY CreateType DEF Sound, Create, Serving, procVars, history
<1>1. /\ call'[c].op = "create" /\ call'[c].b = b /\ call'[c].i = 1
      /\ \A d \in Callers : d # c => call'[d] = call[d]
  BY DEF Create
<1>2. 1 \in DOMAIN b /\ b[1] \in Tasks /\ In(b, b[1])
  BY Constants DEF In
<1>3. io'[c].st = "read" /\ io'[c].t = b[1] /\ io'[c] # NoIO
  BY <1>0, <1>2, IOValues
<1>4. \A t \in Tasks : ~In(b, t) => Kept(t)
  BY <1>0 DEF Kept
<1>5. \A t \in Tasks : In(b, t) => WorkerSound(t)' /\ PromiseSound(t)'
  <2> SUFFICES ASSUME NEW t \in Tasks, In(b, t) PROVE WorkerSound(t)' /\ PromiseSound(t)'
    OBVIOUS
  <2>1. worker[t] = "none" /\ worker'[t] = "owed" /\ mem'[t].status = "pending"
    BY <1>0 DEF Unborn
  <2>2. t \notin promised'
    BY <1>0, <2>1 DEF WorkerSound
  <2> QED
    BY <1>0, <2>1, <2>2 DEF WorkerSound, PromiseSound
<1>6. CallerStep(c)
  <2>1. Onward
    <3>1. \A t \in Tasks : worker[t] # "none" => ~In(b, t) /\ worker'[t] # "none"
      BY <1>0
    <3> QED
      BY <1>0, <3>1 DEF Onward, Doomed
  <2>2. ASSUME NEW d \in Callers, NEW t \in Tasks, Owns(d, t) PROVE Spared(t)
    BY <1>0, <1>4, <2>2, KeptSpared
  <2> QED
    BY <1>0, <1>1, <2>1, <2>2 DEF CallerStep
<1>7. Owned'
  <2>1. \A d \in Callers, t \in Tasks : Owns(d, t)' => Owns(d, t) \/ (d = c /\ In(b, t))
    BY <1>1 DEF Owns
  <2>2. \A t \in Tasks : In(b, t) => \A d \in Callers : ~Owns(d, t)
    BY <1>0
  <2>3. \A d \in Callers, t \in Tasks : Owns(d, t) => worker[t] = "owed" /\ worker'[t] = "owed"
    BY <1>0
  <2> QED
    BY <1>0, <2>1, <2>2, <2>3 DEF Owned
<1>8. WriterSound(c)'
  BY <1>0, <1>2, <1>3 DEF WriterSound, Busy
<1>9. CallSound(c)'
  <2>1. \A t \in Tasks : In(b, t) => t \notin promised' /\ t \in file'
    BY <1>0 DEF WorkerSound
  <2>2. \A j \in DOMAIN b : ~Written(c, j)'
    BY <1>1, <1>3, Constants DEF Written
  <2> QED
    BY <1>0, <1>1, <1>3, <2>1, <2>2 DEF CallSound
<1> QED
  BY <1>0, <1>4, <1>5, <1>6, <1>7, <1>8, <1>9, HandlerSound

LEMMA CreateNextSound == ASSUME Sound, NEW c \in Callers, CreateNext(c) PROVE Sound'
<1> USE CallerFacts
<1> DEFINE b == call[c].b
           i == call[c].i
<1>0. /\ TypeInv' /\ UNCHANGED <<proc, mem, worker, file, row, promised, stored>>
      /\ call[c].op = "create" /\ io[c] = NoIO /\ i < Len(b)
      /\ io' = [io EXCEPT ![c] = Persist(b[i + 1])]
      /\ \A d \in Callers : d # c => call'[d] = call[d]
  BY CreateType DEF Sound, CreateNext, Quiet, procVars, memVars, history
<1>1. call'[c].op = "create" /\ call'[c].b = b /\ call'[c].i = i + 1
  BY <1>0, CallUpdates DEF CreateNext
<1>2. i + 1 \in DOMAIN b /\ b[i + 1] \in Tasks /\ Owns(c, b[i + 1]) /\ i \in Nat
  BY <1>0 DEF Owns
<1>3. io'[c].st = "read" /\ io'[c].t = b[i + 1] /\ io'[c] # NoIO
  BY <1>0, <1>2, IOValues
<1>4. \A t \in Tasks : Kept(t)
  BY <1>0 DEF Kept
<1>5. CallerStep(c)
  BY <1>0, <1>4, KeptSpared DEF CallerStep, Onward, Doomed
<1>6. \A d \in Callers, t \in Tasks : Owns(d, t)' => Owns(d, t)
  BY <1>0, <1>1 DEF Owns
<1>7. Owned'
  BY <1>0, <1>6, OwnedStays
<1>8. WriterSound(c)' /\ proc # "off"
  BY <1>0, <1>2, <1>3, CallValues DEF WriterSound, Busy
<1>9. CallSound(c)'
  <2>1. \A j \in DOMAIN b : Written(c, j)' => Written(c, j)
    BY <1>0, <1>1, <1>2, <1>3 DEF Written
  <2>2. proc' \notin {"off", "starting"}
    BY <1>0, CallValues
  <2> QED
    BY <1>0, <1>1, <1>3, <2>1, <2>2 DEF CallSound
<1> QED
  BY <1>0, <1>4, <1>5, <1>7, <1>8, <1>9, HandlerSound

LEMMA CreateReturnsSound == ASSUME Sound, NEW c \in Callers, CreateReturns(c) PROVE Sound'
<1> USE CallerFacts
<1> DEFINE b == call[c].b
<1>0. /\ TypeInv' /\ UNCHANGED <<proc, mem, row, file, stored, io>>
      /\ call[c].op = "create" /\ io[c] = NoIO /\ call[c].i = Len(b)
      /\ call' = [call EXCEPT ![c] = Idle]
      /\ promised' = promised \cup {t \in Tasks : In(b, t) /\ mem[t].present}
      /\ worker' = [t \in Tasks |-> IF In(b, t) THEN "start" ELSE worker[t]]
  BY CreateType DEF Sound, CreateReturns, Quiet, AllWritten, procVars, history
<1>1. \A t \in Tasks : ~In(b, t) => Kept(t)
  BY <1>0 DEF Kept
<1>2. \A t \in Tasks : In(b, t) => Owns(c, t) /\ worker[t] = "owed"
  BY <1>0 DEF Owns
<1>3. proc \notin {"off", "starting"}
  BY <1>0, CallValues
<1>4. \A t \in Tasks : In(b, t) /\ mem[t].present => row[t] # NoRow /\ t \in file
  <2> SUFFICES ASSUME NEW t \in Tasks, In(b, t), mem[t].present PROVE row[t] # NoRow /\ t \in file
    OBVIOUS
  <2>1. PICK j \in DOMAIN b : b[j] = t
    BY DEF In
  <2>2. Written(c, j)
    BY <1>0 DEF Written
  <2> QED
    BY <1>0, <2>1, <2>2 DEF CallSound
<1>5. \A t \in Tasks : In(b, t) => WorkerSound(t)' /\ PromiseSound(t)'
  <2> SUFFICES ASSUME NEW t \in Tasks, In(b, t) PROVE WorkerSound(t)' /\ PromiseSound(t)'
    OBVIOUS
  <2>1. WorkerSound(t)'
    BY <1>0, <1>2, <1>3 DEF WorkerSound
  <2>2. t \in promised' => mem[t].present
    BY <1>0 DEF CallSound
  <2> QED
    BY <1>0, <1>4, <2>1, <2>2 DEF PromiseSound
<1>6. CallerStep(c)
  <2>1. Onward
    BY <1>0 DEF Onward, Doomed
  <2>2. ASSUME NEW d \in Callers, NEW t \in Tasks, d # c, Owns(d, t) PROVE Spared(t)
    BY <1>1, <1>2, <2>2, KeptSpared
  <2> QED
    BY <1>0, <2>1, <2>2 DEF CallerStep
<1>7. Owned'
  <2>1. \A d \in Callers, t \in Tasks : Owns(d, t)' => Owns(d, t) /\ d # c
    BY <1>0, CallValues DEF Owns
  <2>2. \A d \in Callers, t \in Tasks : Owns(d, t) /\ d # c => worker'[t] = "owed"
    BY <1>0, <1>2
  <2> QED
    BY <2>1, <2>2, OwnedStays
<1>8. WriterSound(c)'
  BY <1>0, <1>6, WriterStays DEF CallerStep
<1>9. CallSound(c)'
  BY <1>0, CallFree, CallValues
<1> QED
  BY <1>0, <1>1, <1>5, <1>6, <1>7, <1>8, <1>9, HandlerSound

LEMMA CreateFailsSound == ASSUME Sound, NEW c \in Callers, CreateFails(c) PROVE Sound'
<1> USE CallerFacts
<1> DEFINE b == call[c].b
<1>0. /\ TypeInv' /\ UNCHANGED <<proc, row, file, promised, stored>>
      /\ call[c].op = "create"
      /\ call' = [call EXCEPT ![c] = [op |-> "undo", b |-> b, i |-> call[c].i]]
      /\ io' = [io EXCEPT ![c] = NoIO]
      /\ worker' = [t \in Tasks |-> IF In(b, t) THEN "lost" ELSE worker[t]]
      /\ mem' = [t \in Tasks |-> IF In(b, t) THEN [mem[t] EXCEPT !.present = FALSE] ELSE mem[t]]
  BY CreateType DEF Sound, CreateFails, procVars, history
<1>1. \A t \in Tasks : ~In(b, t) => Kept(t)
  BY <1>0 DEF Kept
<1>2. \A t \in Tasks : In(b, t) => Owns(c, t) /\ worker[t] = "owed" /\ t \notin promised
  BY <1>0 DEF Owns, CallSound
<1>3. proc \notin {"off", "starting"}
  BY <1>0, CallValues
<1>4. \A t \in Tasks : In(b, t) => worker'[t] = "lost" /\ ~mem'[t].present
  BY <1>0 DEF TaskState
<1>5. \A t \in Tasks : In(b, t) => WorkerSound(t)' /\ PromiseSound(t)' /\ Doomed(t)'
  BY <1>0, <1>2, <1>3, <1>4 DEF WorkerSound, PromiseSound, Doomed
<1>6. CallerStep(c)
  <2>1. Onward
    BY <1>0, <1>5 DEF Onward, Doomed
  <2>2. ASSUME NEW d \in Callers, NEW t \in Tasks, d # c, Owns(d, t) PROVE Spared(t)
    BY <1>1, <1>2, <2>2, KeptSpared
  <2> QED
    BY <1>0, <2>1, <2>2 DEF CallerStep
<1>7. Owned'
  <2>1. \A d \in Callers, t \in Tasks : Owns(d, t)' => Owns(d, t) /\ d # c
    BY <1>0 DEF Owns
  <2>2. \A d \in Callers, t \in Tasks : Owns(d, t) /\ d # c => worker'[t] = "owed"
    BY <1>0, <1>2
  <2> QED
    BY <2>1, <2>2, OwnedStays
<1>8. WriterSound(c)'
  BY <1>0, IOValues DEF WriterSound, Busy
<1>9. CallSound(c)'
  BY <1>0, <1>3, <1>5 DEF CallSound
<1> QED
  BY <1>0, <1>1, <1>5, <1>6, <1>7, <1>8, <1>9, HandlerSound

LEMMA UndoSound == ASSUME Sound, NEW c \in Callers, Undo(c) PROVE Sound'
<1> USE CallerFacts
<1> DEFINE b == call[c].b
<1>0. /\ TypeInv' /\ UNCHANGED <<proc, mem, worker, file, row, promised, stored>>
      /\ call[c].op = "undo"
      /\ \A d \in Callers : d # c => call'[d] = call[d]
      /\ \A w \in Writers : w # c => io'[w] = io[w]
  BY CreateType DEF Sound, Undo, procVars, memVars
<1>1. \A t \in Tasks : Kept(t)
  BY <1>0 DEF Kept
<1>2. CallerStep(c)
  BY <1>0, <1>1, KeptSpared DEF CallerStep, Onward, Doomed
<1>3. proc \notin {"off", "starting"}
  BY <1>0, CallValues
<1>4. CASE AllUndone(c)
  <2>1. call'[c] = Idle /\ io' = io
    BY <1>4 DEF Undo
  <2>2. \A d \in Callers, t \in Tasks : Owns(d, t)' => Owns(d, t)
    BY <1>0, <2>1, CallValues DEF Owns
  <2>3. Owned' /\ WriterSound(c)' /\ CallSound(c)'
    BY <1>0, <1>2, <2>1, <2>2, OwnedStays, WriterStays, CallFree, CallValues DEF CallerStep
  <2> QED
    BY <1>0, <1>1, <1>2, <2>3, HandlerSound
<1>5. CASE ~AllUndone(c)
  <2>1. call'[c].op = "undo" /\ call'[c].b = b
    <3>1. call' = [call EXCEPT ![c] = [call[c] EXCEPT !.i = call[c].i - 1]]
      BY <1>5 DEF Undo
    <3>2. [call[c] EXCEPT !.i = call[c].i - 1] = [op |-> "undo", b |-> b, i |-> call[c].i - 1]
      BY <1>0, CallUpdates
    <3> QED
      BY <3>1, <3>2
  <2>2. io'[c] = [st |-> "delete", t |-> b[call[c].i - 1]]
    BY <1>5 DEF Undo
  <2>3. b[call[c].i - 1] \in Tasks /\ In(b, b[call[c].i - 1])
    BY <1>0, <1>5 DEF AllUndone
  <2>4. \A t \in Tasks : In(b, t) => Doomed(t)'
    BY <1>0 DEF CallSound, Doomed
  <2>5. \A d \in Callers, t \in Tasks : Owns(d, t)' => Owns(d, t)
    BY <1>0, <2>1 DEF Owns
  <2>6. Owned'
    BY <1>0, <2>5, OwnedStays
  <2>7. WriterSound(c)'
    BY <1>0, <1>3, <2>2, <2>3, <2>4 DEF WriterSound, Busy, Doomed
  <2>8. CallSound(c)'
    BY <1>0, <1>3, <2>1, <2>4 DEF CallSound
  <2> QED
    BY <1>0, <1>1, <1>2, <2>6, <2>7, <2>8, HandlerSound
<1> QED
  BY <1>4, <1>5

\* What a handler makes of a record of the map.
LEMMA RecordChanges ==
  ASSUME NEW s \in TaskState, NEW x, NEW m
  PROVE  /\ [s EXCEPT !.status = x].present = s.present
         /\ [s EXCEPT !.status = x].status = x
         /\ [s EXCEPT !.status = x, !.mode = m].present = s.present
         /\ [s EXCEPT !.status = x, !.mode = m].status = x
         /\ [s EXCEPT !.mode = m, !.status = x].present = s.present
         /\ [s EXCEPT !.mode = m, !.status = x].status = x
         /\ [s EXCEPT !.present = FALSE].present = FALSE
         /\ [s EXCEPT !.present = FALSE].status = s.status
BY DEF TaskState

\* A task in the map has been given a run.
LEMMA PresentIsBorn ==
  ASSUME Sound, NEW t \in Tasks, mem[t].present
  PROVE  worker[t] # "none" /\ worker[t] # "lost" /\ ~Doomed(t)
BY DEF Sound, WorkerSound, Doomed

LEMMA PauseSound ==
  ASSUME Sound, NEW c \in Callers, NEW t \in Tasks, Pause(c, t) \/ RenameTask(c, t)
  PROVE  Sound'
<1> USE CallerFacts
<1>0. /\ TypeInv' /\ UNCHANGED <<proc, worker, call, file, row, promised, stored>>
      /\ proc = "up" /\ call[c] = Idle /\ mem[t].present
      /\ io' = [io EXCEPT ![c] = Persist(t)]
      /\ \A u \in Tasks : u # t => mem'[u] = mem[u]
      /\ mem'[t] = mem[t] \/ (mem'[t].present /\ mem'[t].status = "paused")
  <2>1. TypeInv'
    BY CommandType DEF Sound
  <2>2. CASE Pause(c, t)
    <3>1. mem' = [mem EXCEPT ![t] = [mem[t] EXCEPT !.status = "paused", !.mode = "pause"]]
      BY <2>2 DEF Pause
    <3>2. mem[t].present /\ mem'[t].present /\ mem'[t].status = "paused"
      BY <2>2, <3>1, RecordChanges DEF Pause
    <3> QED
      BY <2>1, <2>2, <3>1, <3>2 DEF Pause, MayCall, Serving, procVars, history
  <2>3. CASE RenameTask(c, t)
    BY <2>1, <2>3 DEF RenameTask, MayCall, Serving, procVars, memVars, history
  <2> QED
    BY <2>2, <2>3
<1>1. \A u \in Tasks : mem'[u].present <=> mem[u].present
  <2> TAKE u \in Tasks
  <2> QED
    BY <1>0
<1>2. \A u \in Tasks : Kept(u) \/ (WorkerSound(u)' /\ PromiseSound(u)')
  <2> TAKE u \in Tasks
  <2>1. CASE mem'[u] = mem[u]
    BY <1>0, <2>1 DEF Kept
  <2>2. CASE mem'[u] # mem[u]
    BY <1>0, <2>2 DEF WorkerSound, PromiseSound, Active
  <2> QED
    BY <2>1, <2>2
<1>3. CallerStep(c)
  BY <1>0, <1>1 DEF CallerStep, Onward, Doomed, Spared
<1>4. Owned'
  BY <1>0, OwnedStays DEF Owns
<1>5. WriterSound(c)' /\ CallSound(c)'
  <2>1. io'[c].st = "read" /\ io'[c].t = t /\ worker'[t] # "none"
    BY <1>0, IOValues, PresentIsBorn
  <2>2. call'[c].op = "idle" /\ proc' \notin {"off", "starting"}
    BY <1>0, CallValues
  <2> QED
    BY <2>1, <2>2, CallFree DEF WriterSound, Busy
<1> QED
  BY <1>0, <1>2, <1>3, <1>4, <1>5, HandlerSound

LEMMA ResumeSound ==
  ASSUME Sound, NEW c \in Callers, NEW t \in Tasks, Resume(c, t)
  PROVE  Sound'
<1> USE CallerFacts
<1>0. /\ TypeInv' /\ UNCHANGED <<proc, file, row, promised, stored>>
      /\ proc = "up" /\ call[c] = Idle /\ mem[t].present /\ worker[t] = "ended"
      /\ io' = [io EXCEPT ![c] = Persist(t)]
      /\ \A u \in Tasks : u # t => mem'[u] = mem[u] /\ worker'[u] = worker[u]
      /\ mem'[t].present
      /\ \A d \in Callers : d # c => call'[d] = call[d]
  <2>1. /\ TypeInv' /\ UNCHANGED <<proc, file, row, promised, stored>>
        /\ proc = "up" /\ call[c] = Idle /\ mem[t].present /\ worker[t] = "ended"
        /\ io' = [io EXCEPT ![c] = Persist(t)]
    BY CommandType DEF Sound, Resume, MayCall, Serving, procVars, history
  <2>2. \/ mem' = [mem EXCEPT ![t] = [mem[t] EXCEPT !.status = "pending", !.mode = ""]]
        \/ mem' = [mem EXCEPT ![t] = [mem[t] EXCEPT !.status = "failed"]]
    BY DEF Resume
  <2>3. mem'[t].present
    <3>1. CASE mem' = [mem EXCEPT ![t] = [mem[t] EXCEPT !.status = "pending", !.mode = ""]]
      BY <2>1, <3>1, RecordChanges
    <3>2. CASE mem' = [mem EXCEPT ![t] = [mem[t] EXCEPT !.status = "failed"]]
      BY <2>1, <3>2, RecordChanges
    <3> QED
      BY <2>2, <3>1, <3>2
  <2>4. \A u \in Tasks : u # t => mem'[u] = mem[u] /\ worker'[u] = worker[u]
    BY <2>2 DEF Resume, WorkerGoes
  <2>5. \A d \in Callers : d # c => call'[d] = call[d]
    BY DEF Resume
  <2> QED
    BY <2>1, <2>3, <2>4, <2>5
<1>1. \/ /\ worker'[t] = "owed" /\ mem'[t].status = "pending"
         /\ call'[c].op = "go" /\ call'[c].t = t
      \/ worker'[t] = "ended" /\ mem'[t].status = "failed" /\ call'[c] = Idle
  <2>1. CASE t \in file
    <3>1. /\ mem' = [mem EXCEPT ![t] = [mem[t] EXCEPT !.status = "pending", !.mode = ""]]
          /\ worker' = [worker EXCEPT ![t] = "owed"]
          /\ call' = [call EXCEPT ![c] = [op |-> "go", t |-> t]]
      BY <2>1 DEF Resume, WorkerGoes
    <3> QED
      BY <3>1, RecordChanges
  <2>2. CASE t \notin file
    <3>1. /\ mem' = [mem EXCEPT ![t] = [mem[t] EXCEPT !.status = "failed"]]
          /\ worker' = worker /\ call' = call
      BY <2>2 DEF Resume
    <3> QED
      BY <1>0, <3>1, RecordChanges
  <2> QED
    BY <2>1, <2>2
<1>2. \A u \in Tasks : Kept(u) \/ (WorkerSound(u)' /\ PromiseSound(u)')
  <2> TAKE u \in Tasks
  <2>1. CASE u # t
    BY <1>0, <2>1 DEF Kept
  <2>2. CASE u = t
    <3>1. WorkerSound(t)'
      BY <1>0, <1>1 DEF WorkerSound, Active
    <3>2. PromiseSound(t)'
      BY <1>0 DEF PromiseSound
    <3> QED
      BY <2>2, <3>1, <3>2
  <2> QED
    BY <2>1, <2>2
<1>3. CallerStep(c)
  <2>1. \A u \in Tasks : worker[u] # "none" => worker'[u] # "none"
    BY <1>0, <1>1
  <2>2. \A u \in Tasks : Doomed(u) => Doomed(u)'
    BY <1>0, <2>1 DEF Doomed
  <2>3. ASSUME NEW d \in Callers, NEW u \in Tasks, Owns(d, u) PROVE Spared(u)
    <3>1. u # t
      BY <1>0, <2>3
    <3> QED
      BY <1>0, <3>1 DEF Spared
  <2> QED
    BY <1>0, <2>1, <2>2, <2>3 DEF CallerStep, Onward
<1>4. Owned'
  <2>1. \A d \in Callers, u \in Tasks :
          Owns(d, u)' => Owns(d, u) \/ (d = c /\ u = t /\ worker'[t] = "owed")
    BY <1>0, <1>1, CallValues DEF Owns
  <2>2. \A d \in Callers, u \in Tasks : Owns(d, u) => u # t /\ worker'[u] = "owed"
    BY <1>0
  <2> QED
    BY <2>1, <2>2 DEF Sound, Owned
<1>5. WriterSound(c)'
  BY <1>0, <1>1, IOValues DEF WriterSound, Busy
<1>6. CallSound(c)'
  BY <1>0, <1>1, CallFree, CallValues
<1> QED
  BY <1>0, <1>2, <1>3, <1>4, <1>5, <1>6, HandlerSound

LEMMA ResumeGoesSound == ASSUME Sound, NEW c \in Callers, ResumeGoes(c) PROVE Sound'
<1> USE CallerFacts
<1> DEFINE t == call[c].t
<1>0. /\ TypeInv' /\ UNCHANGED <<proc, mem, file, row, promised, stored, io>>
      /\ call[c].op = "go" /\ t \in Tasks
      /\ call' = [call EXCEPT ![c] = Idle] /\ worker' = [worker EXCEPT ![t] = "start"]
  BY CommandType DEF Sound, ResumeGoes, procVars, history, WorkerGoes
<1>1. Owns(c, t) /\ worker[t] = "owed" /\ proc \notin {"off", "starting"}
  BY <1>0, CallValues DEF Owns
<1>2. \A u \in Tasks : Kept(u) \/ (WorkerSound(u)' /\ PromiseSound(u)')
  <2> TAKE u \in Tasks
  <2>1. CASE u # t
    BY <1>0, <2>1 DEF Kept
  <2>2. CASE u = t
    BY <1>0, <1>1, <2>2 DEF WorkerSound, PromiseSound
  <2> QED
    BY <2>1, <2>2
<1>3. CallerStep(c)
  <2>1. Onward
    BY <1>0 DEF Onward, Doomed
  <2>2. ASSUME NEW d \in Callers, NEW u \in Tasks, d # c, Owns(d, u) PROVE Spared(u)
    <3>1. u # t
      BY <1>1, <2>2
    <3> QED
      BY <1>0, <3>1 DEF Spared
  <2> QED
    BY <1>0, <2>1, <2>2 DEF CallerStep
<1>4. Owned'
  <2>1. \A d \in Callers, u \in Tasks : Owns(d, u)' => Owns(d, u) /\ d # c
    BY <1>0, CallValues DEF Owns
  <2>2. \A d \in Callers, u \in Tasks : Owns(d, u) /\ d # c => worker'[u] = "owed"
    BY <1>0, <1>1
  <2> QED
    BY <2>1, <2>2, OwnedStays
<1>5. WriterSound(c)' /\ CallSound(c)'
  BY <1>0, <1>3, WriterStays, CallFree, CallValues DEF CallerStep
<1> QED
  BY <1>0, <1>2, <1>3, <1>4, <1>5, HandlerSound

LEMMA DeleteSound ==
  ASSUME Sound, NEW c \in Callers, (\E t \in Tasks : Delete(c, t)) \/ DeleteWaited(c)
  PROVE  Sound'
<1> USE CallerFacts
<1>0. /\ TypeInv' /\ UNCHANGED <<proc, worker, file, row, promised, stored>>
      /\ proc \notin {"off", "starting"}
      /\ \A d \in Callers : d # c => call'[d] = call[d]
  BY CommandType, CallValues
     DEF Sound, Delete, DeleteWaited, MayCall, Serving, procVars, memVars, history
<1>1. call'[c].op \in {"idle", "wait", "pop"}
  <2>1. CASE DeleteWaited(c)
    <3>1. call[c].op = "wait"
      BY <2>1 DEF DeleteWaited
    <3>2. call' = [call EXCEPT ![c] = [call[c] EXCEPT !.op = "pop"]] \/ call'[c] = Idle
      BY <2>1 DEF DeleteWaited
    <3>3. [call[c] EXCEPT !.op = "pop"].op = "pop"
      BY <3>1, CallUpdates
    <3> QED
      BY <3>2, <3>3, CallValues
  <2>2. CASE \E t \in Tasks : Delete(c, t)
    <3>1. \E op \in {"pop", "wait"}, t \in Tasks : call' = [call EXCEPT ![c] = [op |-> op, t |-> t]]
      BY <2>2 DEF Delete
    <3> QED
      BY <3>1
  <2> QED
    BY <2>1, <2>2
<1>2. \A u \in Tasks : mem'[u] = mem[u] \/ (mem'[u].present = mem[u].present /\
                         (mem'[u].status = mem[u].status \/ mem'[u].status = "canceled"))
  <2>1. CASE mem' = mem
    BY <2>1
  <2>2. CASE mem' # mem
    <3>1. PICK t \in Tasks : mem' = [mem EXCEPT ![t] = [mem[t] EXCEPT !.mode = "delete",
             !.status = IF mem[t].status \in Active THEN "canceled" ELSE mem[t].status]]
      BY <2>2 DEF Delete, DeleteWaited, memVars
    <3> DEFINE x == IF mem[t].status \in Active THEN "canceled" ELSE mem[t].status
    <3>2. x = mem[t].status \/ x = "canceled"
      OBVIOUS
    <3>3. mem' = [mem EXCEPT ![t] = [mem[t] EXCEPT !.mode = "delete", !.status = x]]
      BY <3>1
    <3> HIDE DEF x
    <3>4. mem'[t].present = mem[t].present /\ mem'[t].status = x
      BY <3>3, RecordChanges
    <3> QED
      BY <3>2, <3>3, <3>4
  <2> QED
    BY <2>1, <2>2
<1>3. \A u \in Tasks : Kept(u) \/ (WorkerSound(u)' /\ PromiseSound(u)')
  <2> TAKE u \in Tasks
  <2>1. CASE mem'[u] = mem[u]
    BY <1>0, <2>1 DEF Kept
  <2>2. CASE mem'[u] # mem[u]
    BY <1>0, <1>2, <2>2 DEF WorkerSound, PromiseSound, Active
  <2> QED
    BY <2>1, <2>2
<1>4. /\ \A w \in Writers : w # c => io'[w] = io[w]
      /\ io'[c] = io[c] \/ \E t \in Tasks : mem[t].present /\ io'[c] = Persist(t)
  BY DEF Delete, DeleteWaited
<1>5. CallerStep(c)
  <2>1. \A u \in Tasks : mem'[u].present = mem[u].present
    BY <1>2
  <2> QED
    BY <1>0, <1>4, <2>1 DEF CallerStep, Onward, Doomed, Spared
<1>6. Owned'
  <2>1. \A d \in Callers, u \in Tasks : Owns(d, u)' => Owns(d, u)
    BY <1>0, <1>1 DEF Owns
  <2> QED
    BY <1>0, <2>1, OwnedStays
<1>7. WriterSound(c)'
  <2>1. CASE io'[c] = io[c]
    BY <1>5, <2>1, WriterStays DEF CallerStep
  <2>2. CASE \E t \in Tasks : mem[t].present /\ io'[c] = Persist(t)
    <3>1. PICK t \in Tasks : mem[t].present /\ io'[c] = Persist(t)
      BY <2>2
    <3>2. io'[c].st = "read" /\ io'[c].t = t /\ worker'[t] # "none"
      BY <1>0, <3>1, PresentIsBorn, IOValues
    <3> QED
      BY <1>0, <3>2 DEF WriterSound, Busy
  <2> QED
    BY <1>4, <2>1, <2>2
<1>8. CallSound(c)'
  BY <1>0, <1>1, CallFree
<1> QED
  BY <1>0, <1>3, <1>5, <1>6, <1>7, <1>8, HandlerSound

LEMMA DeletePopSound == ASSUME Sound, NEW c \in Callers, DeletePop(c) PROVE Sound'
<1> USE CallerFacts
<1>t. PICK t \in Tasks : t = call[c].t
  BY DEF DeletePop
<1>0. /\ TypeInv' /\ UNCHANGED <<proc, worker, file, row, stored>>
      /\ call[c].op = "pop" /\ call[c].t = t
      /\ \A d \in Callers : d # c => call'[d] = call[d]
      /\ \A w \in Writers : w # c => io'[w] = io[w]
      /\ \A u \in Tasks : u # t => mem'[u] = mem[u] /\ (u \in promised' <=> u \in promised)
  BY <1>t, CommandType DEF Sound, DeletePop, procVars
<1>1. proc \notin {"off", "starting"}
  BY <1>0, CallValues
<1>2. \A u \in Tasks : u # t => Kept(u)
  BY <1>0 DEF Kept
<1>3. CASE ~mem[t].present
  <2>1. call'[c] = Idle /\ UNCHANGED <<mem, io, promised>>
    BY <1>0, <1>3 DEF DeletePop
  <2>2. \A u \in Tasks : Kept(u)
    BY <1>0, <2>1 DEF Kept
  <2>3. CallerStep(c)
    BY <1>0, <2>1, <2>2, KeptSpared DEF CallerStep, Onward, Doomed
  <2>4. \A d \in Callers, u \in Tasks : Owns(d, u)' => Owns(d, u)
    BY <1>0, <2>1, CallValues DEF Owns
  <2>5. Owned' /\ WriterSound(c)' /\ CallSound(c)'
    BY <1>0, <2>1, <2>3, <2>4, OwnedStays, WriterStays, CallFree, CallValues DEF CallerStep
  <2> QED
    BY <1>0, <2>2, <2>3, <2>5, HandlerSound
<1>4. CASE mem[t].present
  <2>1. /\ mem' = [mem EXCEPT ![t] = [mem[t] EXCEPT !.present = FALSE]]
        /\ io'[c] = [st |-> "delete", t |-> t] /\ promised' = promised \ {t}
        /\ call' = [call EXCEPT ![c] = [call[c] EXCEPT !.op = "clean"]]
    BY <1>0, <1>4 DEF DeletePop
  <2>2. call'[c].op = "clean" /\ call'[c].t = t
    <3>1. [call[c] EXCEPT !.op = "clean"] = [op |-> "clean", t |-> t]
      BY <1>0, CallUpdates
    <3> QED
      BY <2>1, <3>1
  <2>3. ~mem'[t].present /\ mem'[t].status = mem[t].status /\ t \notin promised'
    BY <1>0, <2>1 DEF TaskState
  <2>a. worker[t] # "none" /\ WorkerSound(t)
    BY <1>0, <1>4, PresentIsBorn
  <2>4. Doomed(t)'
    BY <1>0, <2>3, <2>a DEF Doomed
  <2>5. WorkerSound(t)' /\ PromiseSound(t)'
    BY <1>0, <1>1, <2>3, <2>a DEF WorkerSound, PromiseSound
  <2>6. CallerStep(c)
    <3>1. \A u \in Tasks : Doomed(u) => Doomed(u)'
      <4> TAKE u \in Tasks
      <4>1. CASE u = t
        BY <2>4, <4>1
      <4>2. CASE u # t
        BY <1>2, <4>2, KeptSpared
      <4> QED
        BY <4>1, <4>2
    <3>2. \A u \in Tasks : Spared(u)
      BY <1>0, <2>3 DEF Spared
    <3> QED
      BY <1>0, <3>1, <3>2 DEF CallerStep, Onward
  <2>7. Owned'
    <3>1. \A d \in Callers, u \in Tasks : Owns(d, u)' => Owns(d, u)
      BY <1>0, <2>2 DEF Owns
    <3> QED
      BY <1>0, <3>1, OwnedStays
  <2>8. WriterSound(c)'
    BY <1>0, <1>1, <2>1, <2>4 DEF WriterSound, Busy, Doomed
  <2>9. CallSound(c)'
    BY <1>0, <1>1, <2>2, <2>4 DEF CallSound
  <2>b. \A u \in Tasks : Kept(u) \/ (WorkerSound(u)' /\ PromiseSound(u)')
    <3> TAKE u \in Tasks
    <3>1. CASE u = t
      BY <2>5, <3>1
    <3> QED
      BY <1>2, <3>1
  <2> QED
    BY <1>0, <2>6, <2>7, <2>8, <2>9, <2>b, HandlerSound
<1> QED
  BY <1>3, <1>4

LEMMA DeleteReturnsSound == ASSUME Sound, NEW c \in Callers, DeleteReturns(c) PROVE Sound'
<1> USE CallerFacts
<1> DEFINE t == call[c].t
<1>0. /\ TypeInv' /\ UNCHANGED <<proc, mem, worker, row, promised, stored, io>>
      /\ call[c].op = "clean" /\ t \in Tasks
      /\ call' = [call EXCEPT ![c] = Idle] /\ file' = file \ {t}
  BY CommandType DEF Sound, DeleteReturns, procVars
<1>1. Doomed(t)
  BY <1>0 DEF CallSound
<1>2. \A u \in Tasks : Kept(u) \/ (WorkerSound(u)' /\ PromiseSound(u)')
  <2> TAKE u \in Tasks
  <2>1. CASE u # t
    BY <1>0, <2>1 DEF Kept
  <2>2. CASE u = t
    BY <1>0, <1>1, <2>2 DEF WorkerSound, PromiseSound, Doomed
  <2> QED
    BY <2>1, <2>2
<1>3. CallerStep(c)
  BY <1>0, <1>1 DEF CallerStep, Onward, Doomed, Spared
<1>4. Owned'
  <2>1. \A d \in Callers, u \in Tasks : Owns(d, u)' => Owns(d, u)
    BY <1>0, CallValues DEF Owns
  <2> QED
    BY <1>0, <2>1, OwnedStays
<1>5. WriterSound(c)' /\ CallSound(c)'
  BY <1>0, <1>3, WriterStays, CallFree, CallValues DEF CallerStep
<1> QED
  BY <1>0, <1>2, <1>3, <1>4, <1>5, HandlerSound

LEMMA HandlerStep == ASSUME Sound, NEW c \in Callers, Handler(c) PROVE Sound'
BY CreateSound, CreateNextSound, CreateReturnsSound, CreateFailsSound, UndoSound,
   PauseSound, ResumeSound, ResumeGoesSound, DeleteSound, DeletePopSound, DeleteReturnsSound
   DEF Handler

-----------------------------------------------------------------------------
(***************************************************************************)
(* Shutdown, crash, restart                                                *)
(***************************************************************************)
\* The shutdown goes on.
LEMMA ShutdownSound == ASSUME Sound, Stop \/ Flush \/ Flushed PROVE Sound'
<1>0. /\ TypeInv' /\ UNCHANGED <<worker, row, file, promised, stored, io, call>>
      /\ proc' \in {"stopping", "flushing", "flushed"} /\ proc \notin {"off", "starting"}
  BY LifecycleType DEF Sound, Lifecycle, Stop, Flush, Flushed, memVars, history
<1>1. \A t \in Tasks : (mem'[t].present <=> mem[t].present) /\ mem'[t].status = mem[t].status
  <2>1. CASE Stop
    <3> TAKE t \in Tasks
    <3>1. mem'[t] = mem[t] \/ mem'[t] = [mem[t] EXCEPT !.mode = "pause"]
      BY <2>1 DEF Stop
    <3>2. mem[t] \in TaskState
      BY SoundTypes
    <3> QED
      BY <3>1, <3>2 DEF TaskState
  <2>2. CASE Flush \/ Flushed
    BY <2>2 DEF Flush, Flushed, memVars
  <2> QED
    BY <2>1, <2>2
<1>2. \A t \in Tasks : WorkerSound(t)' /\ PromiseSound(t)'
  BY <1>0, <1>1 DEF Sound, WorkerSound, PromiseSound
<1>3. \A t \in Tasks : Doomed(t) => Doomed(t)'
  BY <1>0, <1>1 DEF Doomed
<1>4. \A w \in Writers : WriterSound(w)'
  BY <1>0, <1>3, SoundTypes DEF Sound, WriterSound, Busy
<1>5. \A c \in Callers : CallSound(c)'
  <2> TAKE c \in Callers
  <2>1. CASE call[c].op = "create"
    <3>1. \A j \in DOMAIN call[c].b : Written(c, j)' <=> Written(c, j)
      BY <1>0 DEF Written
    <3>2. CallSound(c) /\ \A j \in DOMAIN call[c].b : call[c].b[j] \in Tasks
      BY <2>1, CallerFacts
    <3> QED
      BY <1>0, <1>1, <2>1, <3>1, <3>2 DEF CallSound
  <2>2. CASE call[c].op # "create"
    BY <1>0, <1>3, <2>2, CallerFacts DEF CallSound
  <2> QED
    BY <2>1, <2>2
<1>6. Owned'
  BY <1>0 DEF Sound, Owned, Owns
<1> QED
  BY <1>0, <1>2, <1>4, <1>5, <1>6 DEF Sound

LEMMA PersistNextSound == ASSUME Sound, NEW t \in Tasks, PersistNext(t) PROVE Sound'
<1>0. /\ TypeInv' /\ UNCHANGED <<proc, mem, worker, row, file, promised, stored, call>>
      /\ proc # "off"
      /\ io' = io \/ (mem[t].present /\ io' = [io EXCEPT ![Main] = Persist(t)])
  BY LifecycleType DEF Sound, Lifecycle, PersistNext, memVars, history
<1>1. \A u \in Tasks : Kept(u)
  BY <1>0 DEF Kept
<1>2. Onward
  BY <1>0 DEF Onward, Doomed
<1>3. \A u \in Tasks : WorkerSound(u)' /\ PromiseSound(u)'
  BY <1>0, <1>1, KeptSound DEF Sound
<1>4. \A w \in Writers : WriterSound(w)'
  <2> TAKE w \in Writers
  <2>1. CASE io'[w] = io[w]
    BY <1>2, <2>1, WriterStays
  <2>2. CASE io'[w] # io[w]
    <3>1. io \in [Writers -> IOState]
      BY DEF Sound, TypeInv, TypeOK
    <3>2. io'[w] = Persist(t) /\ mem[t].present
      BY <1>0, <2>2, <3>1
    <3>3. io'[w].st = "read" /\ io'[w].t = t /\ worker'[t] # "none"
      BY <1>0, <3>2, PresentIsBorn, IOValues
    <3> QED
      BY <1>0, <3>3 DEF WriterSound, Busy
  <2> QED
    BY <2>1, <2>2
<1>5. \A c \in Callers : CallSound(c)'
  <2> TAKE c \in Callers
  <2>1. io'[c] = io[c] /\ call'[c] = call[c]
    BY <1>0, WriterNames, CallerFacts
  <2> QED
    BY <1>1, <1>2, <2>1, KeptSpared, CallStays
<1>6. Owned'
  BY <1>0 DEF Sound, Owned, Owns
<1> QED
  BY <1>0, <1>3, <1>4, <1>5, <1>6 DEF Sound

\* Nothing is under way in a process that is not there or only being started.
LEMMA Quiescent ==
  ASSUME \A c \in Callers : call'[c] = Idle
  PROVE  Owned' /\ \A c \in Callers : CallSound(c)'
<1>1. \A c \in Callers : call'[c].op = "idle"
  BY CallValues
<1> QED
  BY <1>1 DEF Owned, Owns, CallSound

LEMMA UnbornFields == ~Unborn.present /\ Unborn.status = "pending"
BY DEF Unborn

LEMMA RestoredFields ==
  ASSUME NEW s, NEW x, NEW k, NEW m, s = [present |-> TRUE, status |-> x, ckpt |-> k, mode |-> m]
  PROVE  s.present /\ s.status = x
<1>1. s.present = TRUE
  OBVIOUS
<1>2. s.status = x
  OBVIOUS
<1> QED
  BY <1>1, <1>2

LEMMA ExitSound == ASSUME Sound, Exit PROVE Sound'
<1>0. /\ TypeInv' /\ UNCHANGED <<row, file, promised, stored>> /\ proc' = "off"
      /\ \A t \in Tasks : mem'[t] = Unborn
      /\ \A t \in Tasks : worker'[t] = IF worker[t] = "none" THEN "none" ELSE "ended"
      /\ \A w \in Writers : io'[w] = NoIO
      /\ \A c \in Callers : call'[c] = Idle
  BY LifecycleType DEF Sound, Lifecycle, Exit, history
<1>1. \A t \in Tasks : WorkerSound(t)' /\ PromiseSound(t)'
  <2> TAKE t \in Tasks
  <2>0. WorkerSound(t) /\ PromiseSound(t)
    BY DEF Sound
  <2>1. ~mem'[t].present /\ mem'[t].status = "pending"
    BY <1>0, UnbornFields
  <2>2. worker'[t] = "none" <=> worker[t] = "none"
    BY <1>0
  <2>3. worker'[t] \in {"none", "ended"}
    BY <1>0
  <2>4. WorkerSound(t)'
    BY <1>0, <2>0, <2>1, <2>2, <2>3 DEF WorkerSound
  <2>5. PromiseSound(t)'
    BY <1>0, <2>0 DEF PromiseSound
  <2> QED
    BY <2>4, <2>5
<1>2. \A w \in Writers : WriterSound(w)'
  BY <1>0, IOValues DEF WriterSound, Busy
<1> QED
  BY <1>0, <1>1, <1>2, Quiescent DEF Sound

LEMMA RestoreSound == ASSUME Sound, Restore PROVE Sound'
<1>0. /\ TypeInv' /\ UNCHANGED <<worker, row, file, promised, stored, io, call>>
      /\ proc = "off" /\ proc' = "starting"
  BY LifecycleType DEF Sound, Lifecycle, Restore, history
<1>1. /\ \A c \in Callers : call'[c] = Idle
      /\ \A w \in Writers : io'[w] = NoIO
  BY <1>0 DEF Sound, CallSound, WriterSound
<1>2. ASSUME NEW t \in Tasks
      PROVE  /\ row[t] = NoRow => ~mem'[t].present
             /\ mem'[t].status # "running"
             /\ "list" \notin Failing /\ row[t] # NoRow => mem'[t].present
  <2>0. WorkerSound(t)
    BY DEF Sound
  <2>a. ~mem[t].present /\ mem[t].status # "running"
    BY <1>0, <2>0 DEF WorkerSound
  <2>1. CASE row[t] = NoRow
    <3>1. mem'[t] = Unborn \/ mem'[t] = mem[t]
      BY <2>1 DEF Restore
    <3> QED
      BY <2>1, <2>a, <3>1, UnbornFields
  <2>2. CASE row[t] # NoRow
    <3>1. RestoredStatus(t) # "running"
      BY DEF RestoredStatus
    <3>2. \/ mem'[t] = [present |-> TRUE, status |-> RestoredStatus(t), ckpt |-> row[t].ckpt,
                        mode |-> ""]
          \/ "list" \in Failing /\ mem'[t] = mem[t]
      BY <2>2 DEF Restore
    <3> QED
      <4>1. CASE "list" \in Failing /\ mem'[t] = mem[t]
        BY <2>2, <2>a, <4>1
      <4>2. CASE mem'[t] = [present |-> TRUE, status |-> RestoredStatus(t), ckpt |-> row[t].ckpt,
                            mode |-> ""]
        <5>1. mem'[t].present /\ mem'[t].status = RestoredStatus(t)
          BY <4>2, RestoredFields
        <5> QED
          BY <2>2, <3>1, <5>1
      <4> QED
        BY <3>2, <4>1, <4>2
  <2> QED
    BY <2>1, <2>2
<1>3. \A t \in Tasks : WorkerSound(t)' /\ PromiseSound(t)'
  BY <1>0, <1>2 DEF Sound, WorkerSound, PromiseSound
<1>4. \A w \in Writers : WriterSound(w)'
  BY <1>0, <1>1, IOValues DEF WriterSound, Busy
<1> QED
  BY <1>0, <1>1, <1>3, <1>4, Quiescent DEF Sound

LEMMA StartedSound == ASSUME Sound, Started PROVE Sound'
<1>0. /\ TypeInv' /\ UNCHANGED <<mem, row, promised, stored, io, call>>
      /\ proc = "starting" /\ proc' = "up"
      /\ worker' = [t \in Tasks |-> IF mem[t].present /\ mem[t].status = "pending"
                                    THEN "start" ELSE worker[t]]
      /\ \A t \in file : t \in Tasks /\ mem[t].present => t \in file'
  BY LifecycleType DEF Sound, Lifecycle, Started, ActiveTempPaths, history
<1>1. \A c \in Callers : call'[c] = Idle
  BY <1>0 DEF Sound, CallSound
<1>2. ASSUME NEW t \in Tasks PROVE WorkerSound(t)' /\ PromiseSound(t)'
  <2>0. WorkerSound(t) /\ PromiseSound(t)
    BY DEF Sound
  <2>1. WorkerSound(t)'
    BY <1>0, <2>0 DEF WorkerSound, Active
  <2>2. PromiseSound(t)'
    BY <1>0, <2>0 DEF PromiseSound
  <2> QED
    BY <2>1, <2>2
<1>3. ASSUME NEW w \in Writers PROVE WriterSound(w)'
  <2>1. \A t \in Tasks : worker[t] # "none" => worker'[t] # "none"
    BY <1>0
  <2>2. WriterSound(w) /\ (Busy(w) => io[w].t \in Tasks)
    BY SoundTypes DEF Sound
  <2>3. io[w].st = "delete" => Busy(w)
    BY DEF Busy
  <2> QED
    BY <1>0, <2>1, <2>2, <2>3 DEF WriterSound, Busy, Doomed
<1> QED
  BY <1>0, <1>1, <1>2, <1>3, Quiescent DEF Sound

LEMMA SoundNext == Sound /\ [Next]_vars => Sound'
<1> SUFFICES ASSUME Sound, [Next]_vars PROVE Sound'
  OBVIOUS
<1>1. CASE UNCHANGED vars
  <2>1. UNCHANGED <<proc, boots, todo, mem, file, worker, armed, row, io, call,
                    promised, stored, deleted, refused>>
    BY <1>1 DEF vars, procVars, memVars, history
  <2>2. TypeInv' /\ Owned'
    BY <1>1, <2>1, TypeNext DEF Sound, Owned, Owns
  <2>3. \A t \in Tasks : WorkerSound(t)' /\ PromiseSound(t)'
    BY <2>1 DEF Sound, WorkerSound, PromiseSound
  <2>4. \A w \in Writers : WriterSound(w)'
    BY <2>1 DEF Sound, WriterSound, Busy, Doomed
  <2>5. \A c \in Callers : CallSound(c)'
    BY <2>1 DEF Sound, CallSound, Doomed, Written
  <2> QED
    BY <2>2, <2>3, <2>4, <2>5 DEF Sound
<1>2. CASE Lifecycle
  BY <1>2, ShutdownSound, PersistNextSound, ExitSound, RestoreSound, StartedSound DEF Lifecycle
<1> QED
  BY <1>1, <1>2, DatabaseSound, WorkerStep, HandlerStep DEF Next

LEMMA SoundAlways == Spec => []Sound
BY SoundInit, SoundNext, PTL DEF Spec

-----------------------------------------------------------------------------
\* An active task of a running manager always has a worker, or a call that is about
\* to start one, whatever was paused, resumed, deleted, written or lost before.
THEOREM ActiveTasksRun == Spec => []ActiveHasWorker
<1>1. Sound => ActiveHasWorker
  BY SoundTypes DEF Sound, WorkerSound, ActiveHasWorker, WorkerPCs, HoldingCancel
<1> QED
  BY <1>1, SoundAlways, PTL

\* A task whose creation was acknowledged keeps its row until it is deleted, wherever
\* the process dies and whichever writes of later persists fail, and is in memory
\* again after every restart unless the table could not be read.
THEOREM AcknowledgedSurvives == Spec => []AckedSurvives
<1>1. TypeOK /\ Sound => AckedSurvives
  BY DEF Sound, PromiseSound, AckedSurvives, TypeOK
<1> QED
  BY <1>1, SoundAlways, TypesPersist, PTL

\* Where the table can be read at every restart, neither an acknowledged task nor the
\* local file it would be uploaded from is lost before it is stored.
THEOREM PromisesKept == ASSUME "list" \notin Failing PROVE Spec => []PromisesAreKept
<1>1. TypeOK /\ Sound => PromisesAreKept
  BY DEF Sound, PromiseSound, PromisesAreKept, AckedSurvives, SourceKept, TypeOK
<1> QED
  BY <1>1, SoundAlways, TypesPersist, PTL

-----------------------------------------------------------------------------
(***************************************************************************)
(* Rows that are given up.  A persist that is under way when its task is    *)
(* popped writes the row after it was deleted; what follows shows that only *)
(* other callers and the timers of checkpoints can be that late.            *)
(***************************************************************************)
\* One caller at a time, no checkpoints to save, deletions of rows that work.
Alone == \A c, d \in Callers : c = d
Undisturbed == Alone /\ MaxCkpt = 0 /\ "delete" \notin Failing

\* No worker can come to life for t any more, and none is writing.
Gone(t) == ~mem[t].present /\ worker[t] \notin HoldingCancel /\ worker[t] # "none"

\* stopTaskForDelete found, or waited until, t has no transfer.
Settled(t) ==
  \/ worker[t] \in {"owed", "start"} /\ mem[t].status \notin Active
  \/ worker[t] \in {"ended", "lost", "none"}

Writes(w) == io[w].st \in {"read", "upsert"}

\* A worker persists its own task, while it runs or before it ends.
WorkerQuiet(t) ==
  /\ io[WorkerOf(t)] # NoIO =>
       Writes(WorkerOf(t)) /\ io[WorkerOf(t)].t = t /\ worker[t] \in {"up", "exit"}
  /\ io[TimerOf(t)] = NoIO

\* Start-up corrects rows of restored tasks before anything else runs.
MainQuiet ==
  /\ armed = {}
  /\ proc # "starting" => todo = {} /\ io[Main] = NoIO
  /\ io[Main] # NoIO => Writes(Main) /\ mem[io[Main].t].present

\* Of the batch of caller c only the rows that are written and not yet undone exist.
Standing(c, k) ==
  \/ k < call[c].i
  \/ k = call[c].i /\ IF call[c].op = "create" THEN io[c] = NoIO ELSE io[c].st = "delete"
OnlyStanding(c) ==
  \A j \in DOMAIN call[c].b : row[call[c].b[j]] # NoRow =>
    \E k \in DOMAIN call[c].b : call[c].b[k] = call[c].b[j] /\ Standing(c, k)

CallerQuiet(c) ==
  /\ Writes(c) => mem[io[c].t].present
  /\ call[c].op = "pop" => io[c] = NoIO /\ Settled(call[c].t)
  /\ call[c].op = "clean" =>
       /\ Gone(call[c].t)
       /\ \/ io[c].st = "delete" /\ io[c].t = call[c].t
          \/ io[c] = NoIO /\ row[call[c].t] = NoRow
  /\ call[c].op = "create" => \A t \in Tasks : In(call[c].b, t) => mem[t].present
  /\ call[c].op \in {"create", "undo"} => OnlyStanding(c)
  /\ call[c].op = "undo" =>
       /\ \A t \in Tasks : In(call[c].b, t) => Gone(t)
       /\ io[c] = NoIO \/ (io[c].st = "delete" /\ io[c].t = call[c].b[call[c].i])

Buried == \A t \in deleted \cup refused : Gone(t) /\ row[t] = NoRow

Quieted ==
  /\ Sound /\ MainQuiet /\ Buried
  /\ \A t \in Tasks : WorkerQuiet(t)
  /\ \A c \in Callers : CallerQuiet(c)

LEMMA QuietedInit == Init => Quieted
<1> SUFFICES ASSUME Init PROVE Quieted
  OBVIOUS
<1>1. /\ Sound /\ \A w \in Writers : io[w] = NoIO /\ io[w].st = "none"
      /\ \A c \in Callers : call[c].op = "idle"
  BY SoundInit, IOValues, CallValues DEF Init
<1>2. MainQuiet /\ Buried
  BY <1>1, WriterNames DEF Init, MainQuiet, Buried
<1>3. \A t \in Tasks : WorkerQuiet(t)
  BY <1>1, WriterNames DEF WorkerQuiet
<1>4. \A c \in Callers : CallerQuiet(c)
  BY <1>1, WriterNames DEF CallerQuiet, Writes
<1> QED
  BY <1>1, <1>2, <1>3, <1>4 DEF Quieted

LEMMA QuietTypes ==
  ASSUME Quieted
  PROVE  /\ io \in [Writers -> IOState] /\ row \in [Tasks -> Record \cup {NoRow}]
         /\ call \in [Callers -> CallState] /\ worker \in [Tasks -> WorkerPCs]
         /\ deleted \subseteq Tasks /\ refused \subseteq Tasks /\ todo \subseteq Tasks
         /\ \A w \in Writers : io[w] \in IOState
BY DEF Quieted, Sound, TypeInv, TypeOK

\* A writer that is not a caller writes a row of a task in the map, never one of a
\* call that creates or undoes its batch.
LEMMA OthersWrite ==
  ASSUME Quieted, NEW w \in Writers, w \notin Callers, io[w] # NoIO
  PROVE  /\ Writes(w) /\ io[w].t \in Tasks
         /\ \/ w = Main /\ proc = "starting"
            \/ \E t \in Tasks : w = WorkerOf(t) /\ io[w].t = t /\ worker[t] \in {"up", "exit"}
         /\ ~Gone(io[w].t)
         /\ \A c \in Callers : call[c].op \in {"create", "undo"} => ~In(call[c].b, io[w].t)
<1>1. \/ w = Main
      \/ \E t \in Tasks : w = WorkerOf(t) \/ w = TimerOf(t)
  BY DEF Writers, WorkerOf, TimerOf
<1>2. \/ w = Main /\ proc = "starting" /\ Writes(w) /\ mem[io[w].t].present
      \/ \E t \in Tasks : /\ w = WorkerOf(t) /\ Writes(w)
                          /\ io[w].t = t /\ worker[t] \in {"up", "exit"}
  BY <1>1 DEF Quieted, MainQuiet, WorkerQuiet
<1>3. io[w].t \in Tasks
  BY <1>2, QuietTypes, IOFields DEF Writes
<1>4. ~Gone(io[w].t)
  BY <1>2 DEF Gone, HoldingCancel
<1>5. ASSUME NEW c \in Callers, call[c].op \in {"create", "undo"} PROVE ~In(call[c].b, io[w].t)
  <2>1. call[c] # Idle /\ proc # "starting"
    BY <1>5, CallValues DEF Quieted, Sound, CallSound
  <2>2. worker[io[w].t] \in {"up", "exit"}
    BY <1>2, <2>1
  <2>3. CASE call[c].op = "create"
    BY <1>3, <2>2, <2>3 DEF Quieted, Sound, Owned, Owns
  <2>4. CASE call[c].op = "undo"
    BY <1>3, <1>4, <2>4 DEF Quieted, CallerQuiet
  <2> QED
    BY <1>5, <2>3, <2>4
<1> QED
  BY <1>2, <1>3, <1>4, <1>5

LEMMA DatabaseQuiet ==
  ASSUME Undisturbed, Quieted, NEW w \in Writers, Database(w)
  PROVE  Quieted'
<1>0. /\ Sound /\ Sound'
      /\ UNCHANGED <<proc, mem, worker, call, armed, todo, deleted, refused>>
      /\ Busy(w) /\ io[w].t \in Tasks /\ io[w] # NoIO
      /\ \A v \in Writers : v # w => io'[v] = io[v]
      /\ \A t \in Tasks : t # io[w].t => row'[t] = row[t]
  BY DatabaseSound, DatabaseRow DEF Quieted, Database, ReadRecord, Upsert, DeletePersisted,
     memVars, procVars, history
<1>1. /\ Writes(w) => io'[w] = NoIO \/ (io'[w].st = "upsert" /\ io'[w].t = io[w].t)
                      \/ (io'[w] = Failed /\ w \in Callers /\ call[w].op = "create")
      /\ io[w].st = "delete" => io'[w] = NoIO
  BY <1>0, DatabaseIO DEF Writes, AfterFailure
<1>2. io[w].st = "delete" => row'[io[w].t] = NoRow
  BY <1>0, QuietTypes DEF Database, ReadRecord, Upsert, DeletePersisted, Undisturbed
<1>3. io[w].st # "upsert" \/ io'[w] # NoIO => row'[io[w].t] = row[io[w].t] \/ io[w].st = "delete"
  BY QuietTypes DEF Database, ReadRecord, Upsert, DeletePersisted
<1>4. \A t \in Tasks : Gone(t)' <=> Gone(t)
  BY <1>0 DEF Gone
<1>5. \A t \in Tasks : WorkerQuiet(t)'
  <2> TAKE t \in Tasks
  <2>1. TimerOf(t) \in Writers /\ TimerOf(t) # w
    BY <1>0, WriterNames DEF Quieted, WorkerQuiet
  <2>2. CASE w = WorkerOf(t)
    <3>1. w \notin Callers /\ Writes(w)
      BY <1>0, <2>2, WriterNames, OthersWrite
    <3> QED
      BY <1>0, <1>1, <2>1, <2>2, <3>1 DEF Quieted, WorkerQuiet, Writes
  <2>3. CASE w # WorkerOf(t)
    BY <1>0, <2>1, <2>3, WriterNames DEF Quieted, WorkerQuiet, Writes
  <2> QED
    BY <2>2, <2>3
<1>6. MainQuiet'
  <2>1. CASE w = Main
    <3>1. w \notin Callers /\ Writes(w)
      BY <1>0, <2>1, WriterNames, OthersWrite
    <3> QED
      BY <1>0, <1>1, <2>1, <3>1 DEF Quieted, MainQuiet, Writes
  <2>2. CASE w # Main
    BY <1>0, <2>2, WriterNames DEF Quieted, MainQuiet, Writes
  <2> QED
    BY <2>1, <2>2
<1>7. Buried'
  <2> SUFFICES ASSUME NEW t \in deleted \cup refused PROVE Gone(t)' /\ row'[t] = NoRow
    BY <1>0 DEF Buried
  <2>1. t \in Tasks /\ Gone(t) /\ row[t] = NoRow
    BY QuietTypes DEF Quieted, Buried
  <2>2. CASE t # io[w].t
    BY <1>0, <1>4, <2>1, <2>2
  <2>3. CASE t = io[w].t
    <3>1. w \in Callers /\ ~Writes(w)
      BY <1>0, <2>1, <2>3, OthersWrite DEF Quieted, CallerQuiet, Gone
    <3> QED
      BY <1>0, <1>2, <1>4, <2>1, <2>3, <3>1 DEF Busy, Writes
  <2> QED
    BY <2>2, <2>3
<1>8. ASSUME NEW c \in Callers, w # c PROVE CallerQuiet(c)'
  <2>0. /\ w \notin Callers /\ io'[c] = io[c] /\ call'[c] = call[c] /\ CallerQuiet(c)
        /\ call[c] \in CallState
    BY <1>0, <1>8, WriterNames, QuietTypes DEF Undisturbed, Alone, Quieted
  <2>1. ~Gone(io[w].t)
        /\ (call[c].op \in {"create", "undo"} => ~In(call[c].b, io[w].t))
    BY <1>0, <2>0, OthersWrite
  <2>2. call[c].op = "clean" => call[c].t \in Tasks /\ row'[call[c].t] = row[call[c].t]
    BY <1>0, <2>0, <2>1, CallFields DEF CallerQuiet
  <2>3. call[c].op \in {"pop", "clean"} => call[c].t \in Tasks
    BY <2>0, CallFields
  <2>4. call[c].op \in {"create", "undo"} => OnlyStanding(c)'
    <3> SUFFICES ASSUME call[c].op \in {"create", "undo"} PROVE OnlyStanding(c)'
      OBVIOUS
    <3>1. \A j \in DOMAIN call[c].b : call[c].b[j] \in Tasks /\ call[c].b[j] # io[w].t
      BY <1>0, <2>1, CallerFacts
    <3>2. \A k : Standing(c, k)' <=> Standing(c, k)
      BY <2>0 DEF Standing
    <3> QED
      BY <1>0, <2>0, <3>1, <3>2 DEF CallerQuiet, OnlyStanding
  <2> QED
    BY <1>0, <1>4, <2>0, <2>2, <2>3, <2>4 DEF CallerQuiet, Settled, Writes
<1>9. ASSUME NEW c \in Callers, w = c PROVE CallerQuiet(c)'
  <2>0. call'[c] = call[c] /\ CallerQuiet(c) /\ call[c] \in CallState
    BY <1>0, QuietTypes DEF Quieted
  <2>1. Writes(c)' => mem'[io'[c].t].present
    BY <1>0, <1>1, <1>9, <2>0, IOValues DEF CallerQuiet, Writes, Busy
  <2>2. call[c].op # "pop"
    BY <1>0, <1>9, <2>0 DEF CallerQuiet
  <2>3. call[c].op = "clean" => Gone(call[c].t)' /\ io'[c] = NoIO /\ row'[call[c].t] = NoRow
    BY <1>0, <1>1, <1>2, <1>4, <1>9, <2>0 DEF CallerQuiet
  <2>4. call[c].op = "undo" => /\ \A t \in Tasks : In(call[c].b, t) => Gone(t)'
                               /\ io'[c] = NoIO
    BY <1>0, <1>1, <1>4, <1>9, <2>0 DEF CallerQuiet
  <2>5. CASE call[c].op = "create"
    <3>1. /\ io[c].t = call[c].b[call[c].i] /\ Writes(c) /\ io[c].st # "delete"
          /\ call[c].i \in DOMAIN call[c].b
          /\ \A j \in DOMAIN call[c].b : call[c].b[j] \in Tasks
      BY <1>0, <1>9, <2>5, CallerFacts DEF CallSound, Busy, Writes
    <3>2. OnlyStanding(c)
      BY <2>0, <2>5 DEF CallerQuiet
    <3>3. ASSUME NEW j \in DOMAIN call[c].b, row'[call[c].b[j]] # NoRow
          PROVE  \E k \in DOMAIN call[c].b : call[c].b[k] = call[c].b[j] /\ Standing(c, k)'
      <4>1. CASE row[call[c].b[j]] # NoRow
        <5>1. PICK k \in DOMAIN call[c].b : call[c].b[k] = call[c].b[j] /\ Standing(c, k)
          BY <3>2, <4>1 DEF OnlyStanding
        <5>2. k < call[c].i
          BY <1>0, <1>9, <2>5, <5>1 DEF Standing
        <5> QED
          BY <2>0, <5>1, <5>2 DEF Standing
      <4>2. CASE row[call[c].b[j]] = NoRow
        <5>1. call[c].b[j] = io[c].t /\ io'[c] = NoIO
          BY <1>0, <1>3, <1>9, <3>1, <3>3, <4>2
        <5>2. \A k : k = call[c].i => Standing(c, k)'
          BY <2>0, <2>5, <5>1 DEF Standing
        <5> QED
          BY <3>1, <5>1, <5>2
      <4> QED
        BY <4>1, <4>2
    <3>4. OnlyStanding(c)'
      BY <2>0, <3>3 DEF OnlyStanding
    <3> QED
      BY <1>0, <2>0, <2>1, <2>5, <3>4 DEF CallerQuiet
  <2>6. CASE call[c].op = "undo"
    <3>1. /\ io[c].st = "delete" /\ io[c].t = call[c].b[call[c].i]
          /\ \A j \in DOMAIN call[c].b : call[c].b[j] \in Tasks
      BY <1>0, <1>9, <2>0, <2>6, CallerFacts DEF CallerQuiet
    <3>2. OnlyStanding(c)
      BY <2>0, <2>6 DEF CallerQuiet
    <3>3. ASSUME NEW j \in DOMAIN call[c].b, row'[call[c].b[j]] # NoRow
          PROVE  \E k \in DOMAIN call[c].b : call[c].b[k] = call[c].b[j] /\ Standing(c, k)'
      <4>1. call[c].b[j] # io[c].t /\ row[call[c].b[j]] # NoRow
        BY <1>0, <1>2, <1>9, <3>1, <3>3
      <4>2. PICK k \in DOMAIN call[c].b : call[c].b[k] = call[c].b[j] /\ Standing(c, k)
        BY <3>2, <4>1 DEF OnlyStanding
      <4>3. k < call[c].i
        BY <3>1, <4>1, <4>2 DEF Standing
      <4> QED
        BY <2>0, <4>2, <4>3 DEF Standing
    <3>4. OnlyStanding(c)'
      BY <2>0, <3>3 DEF OnlyStanding
    <3> QED
      BY <2>0, <2>1, <2>4, <2>6, <3>4 DEF CallerQuiet
  <2>7. CASE call[c].op \notin {"create", "undo"}
    BY <2>0, <2>1, <2>2, <2>3, <2>7 DEF CallerQuiet
  <2> QED
    BY <2>5, <2>6, <2>7
<1> QED
  BY <1>0, <1>5, <1>6, <1>7, <1>8, <1>9 DEF Quieted

LEMMA WorkerQuietStep ==
  ASSUME Undisturbed, Quieted, NEW t \in Tasks, Worker(t)
  PROVE  Quieted'
<1>0. /\ Sound /\ Sound' /\ UNCHANGED <<proc, row, call, todo, deleted, refused>>
      /\ \A u \in Tasks : u # t => mem'[u] = mem[u] /\ worker'[u] = worker[u]
      /\ \A u \in Tasks : mem'[u].present <=> mem[u].present
      /\ worker[t] = "owed" => worker'[t] = "owed" /\ mem'[t] = mem[t]
      /\ worker'[t] = "none" <=> worker[t] = "none"
  BY WorkerStep, WorkerFrame DEF Quieted, Worker, WorkerStart, Checkpoint, Progress, UploadFails,
     UploadSucceeds, CleanupSource, FinishUpload, WorkerExit, TimerFires, procVars, history
<1>1. ~Checkpoint(t) /\ ~TimerFires(t)
  <2>1. mem[t].ckpt \in 0..MaxCkpt /\ MaxCkpt = 0
    BY <1>0, SoundTypes, Constants DEF Undisturbed, TaskState
  <2> QED
    BY <2>1 DEF Checkpoint, TimerFires, Quieted, MainQuiet
<1>2. /\ armed' = armed /\ worker[t] # "none"
      /\ worker' = [worker EXCEPT ![t] = worker'[t]]
      /\ \/ io' = io
         \/ io' = [io EXCEPT ![WorkerOf(t)] = Persist(t)] /\ mem[t].present
            /\ worker'[t] \in {"up", "exit"}
  BY <1>1, QuietTypes DEF Worker, WorkerStart, Progress, UploadFails,
     UploadSucceeds, CleanupSource, FinishUpload, WorkerExit, Patch, WorkerGoes, memVars
<1>3. io[WorkerOf(t)] # NoIO => worker'[t] \in {"up", "exit"} \/ io'[WorkerOf(t)] = NoIO
  BY <1>1, QuietTypes DEF Quieted, WorkerQuiet, Worker, WorkerStart, Progress, UploadFails, Quiet,
     UploadSucceeds, CleanupSource, FinishUpload, WorkerExit, Patch, WorkerGoes, memVars
<1>4. \A w \in Writers : w # WorkerOf(t) => io'[w] = io[w]
  BY <1>2, QuietTypes
<1>5. \A u \in Tasks : Gone(u) => Gone(u)'
  <2> TAKE u \in Tasks
  <2>1. CASE u # t
    BY <1>0, <2>1 DEF Gone
  <2>2. CASE u = t
    BY <1>0, <1>1, <2>2, QuietTypes DEF Gone, HoldingCancel, Worker, WorkerStart, Progress, UploadFails,
       UploadSucceeds, CleanupSource, FinishUpload, WorkerExit, WorkerGoes
  <2> QED
    BY <2>1, <2>2
<1>6. \A u \in Tasks : Settled(u) => Settled(u)'
  <2> TAKE u \in Tasks
  <2>1. CASE u # t
    BY <1>0, <2>1 DEF Settled
  <2>2. CASE u = t
    BY <1>0, <1>1, <2>2, QuietTypes DEF Settled, Active, Worker, WorkerStart, Progress, UploadFails,
       UploadSucceeds, CleanupSource, FinishUpload, WorkerExit, WorkerGoes
  <2> QED
    BY <2>1, <2>2
<1>7. \A u \in Tasks : WorkerQuiet(u)'
  <2> TAKE u \in Tasks
  <2>1. CASE u # t
    <3>1. io'[WorkerOf(u)] = io[WorkerOf(u)] /\ io'[TimerOf(u)] = io[TimerOf(u)]
      BY <1>4, <2>1, WriterNames
    <3> QED
      BY <1>0, <2>1, <3>1 DEF Quieted, WorkerQuiet, Writes
  <2>2. CASE u = t
    <3>1. io'[TimerOf(t)] = NoIO
      BY <1>4, WriterNames DEF Quieted, WorkerQuiet
    <3>2. CASE io' = io
      BY <1>3, <2>2, <3>1, <3>2 DEF Quieted, WorkerQuiet, Writes
    <3>3. CASE io'[WorkerOf(t)] = Persist(t) /\ worker'[t] \in {"up", "exit"}
      BY <2>2, <3>1, <3>3, IOValues DEF WorkerQuiet, Writes
    <3> QED
      BY <1>2, <3>2, <3>3, QuietTypes, WriterNames
  <2> QED
    BY <2>1, <2>2
<1>8. MainQuiet'
  <2>1. io'[Main] = io[Main] /\ (Writes(Main) => io[Main].t \in Tasks)
    BY <1>4, WriterNames, QuietTypes, IOFields DEF Writes
  <2> QED
    BY <1>0, <1>2, <2>1 DEF Quieted, MainQuiet, Writes
<1>9. Buried'
  BY <1>0, <1>5, QuietTypes DEF Quieted, Buried
<1>10. ASSUME NEW c \in Callers PROVE CallerQuiet(c)'
  <2>1. io'[c] = io[c] /\ CallerQuiet(c) /\ call[c] \in CallState
    BY <1>4, WriterNames, QuietTypes DEF Quieted
  <2>2. /\ Writes(c) => io[c].t \in Tasks
        /\ call[c].op \in {"pop", "clean"} => call[c].t \in Tasks
    BY <2>1, WriterNames, QuietTypes, IOFields, CallFields DEF Writes
  <2>3. OnlyStanding(c) => OnlyStanding(c)'
    BY <1>0, <2>1 DEF OnlyStanding, Standing
  <2> QED
    BY <1>0, <1>5, <1>6, <2>1, <2>2, <2>3 DEF CallerQuiet, Writes
<1> QED
  BY <1>0, <1>7, <1>8, <1>9, <1>10 DEF Quieted

LEMMA LifecycleQuiet == ASSUME Undisturbed, Quieted, Lifecycle PROVE Quieted'
<1> USE QuietTypes, WriterNames
<1>0. Sound /\ Sound' /\ UNCHANGED <<row, deleted, refused>>
  BY SoundNext DEF Quieted, Next, Lifecycle, Stop, Flush, Flushed, Exit, Restore, Started,
     PersistNext, memVars, history
<1>1. CASE Stop \/ Flush \/ Flushed
  <2>0. /\ UNCHANGED <<worker, io, call>> /\ armed' = {} /\ todo' = {}
        /\ proc # "starting" /\ proc' # "starting"
    BY <1>1 DEF Quieted, MainQuiet, Stop, Flush, Flushed, memVars
  <2>1. \A t \in Tasks : (mem'[t].present <=> mem[t].present) /\ mem'[t].status = mem[t].status
    <3>1. CASE Stop
      <4> TAKE t \in Tasks
      <4>1. mem'[t] = mem[t] \/ mem'[t] = [mem[t] EXCEPT !.mode = "pause"]
        BY <3>1 DEF Stop
      <4>2. mem[t] \in TaskState
        BY <1>0, SoundTypes
      <4> QED
        BY <4>1, <4>2 DEF TaskState
    <3>2. CASE Flush \/ Flushed
      BY <3>2 DEF Flush, Flushed, memVars
    <3> QED
      BY <1>1, <3>1, <3>2
  <2>2. \A t \in Tasks : (Gone(t)' <=> Gone(t)) /\ (Settled(t)' <=> Settled(t))
    BY <2>0, <2>1 DEF Gone, Settled
  <2>3. MainQuiet' /\ Buried'
    BY <1>0, <2>0, <2>2 DEF Quieted, MainQuiet, Buried
  <2>4. \A t \in Tasks : WorkerQuiet(t)'
    BY <2>0 DEF Quieted, WorkerQuiet, Writes
  <2>5. ASSUME NEW c \in Callers PROVE CallerQuiet(c)'
    <3>1. /\ CallerQuiet(c) /\ (Writes(c) => io[c].t \in Tasks)
          /\ call[c].op \in {"pop", "clean"} => call[c].t \in Tasks
      BY IOFields, CallFields DEF Quieted, Writes
    <3>2. OnlyStanding(c) => OnlyStanding(c)'
      BY <1>0, <2>0 DEF OnlyStanding, Standing
    <3> QED
      BY <1>0, <2>0, <2>1, <2>2, <3>1, <3>2 DEF CallerQuiet, Writes
  <2> QED
    BY <1>0, <2>3, <2>4, <2>5 DEF Quieted
<1>2. ASSUME Exit \/ Restore \/ Started \/ \E t \in Tasks : PersistNext(t)
      PROVE  Quieted'
  <2>1. \A c \in Callers : call'[c].op = "idle"
    BY <1>0, <1>2, CallValues
       DEF Exit, Restore, Started, PersistNext, Sound, CallSound, Quieted, MainQuiet
  <2>2. \A t \in Tasks : worker'[t] = "none" <=> worker[t] = "none"
    <3>1. CASE Started
      <4> TAKE t \in Tasks
      <4>1. mem[t].present => worker[t] # "none"
        BY <1>0, PresentIsBorn
      <4> QED
        BY <3>1, <4>1 DEF Started
    <3>2. CASE ~Started
      BY <1>2, <3>2 DEF Exit, Restore, PersistNext, memVars
    <3> QED
      BY <3>1, <3>2
  <2>3. \A t \in Tasks : Gone(t) /\ row[t] = NoRow => Gone(t)'
    <3> TAKE t \in Tasks
    <3>1. CASE Exit
      BY <2>2, <3>1, UnbornFields DEF Exit, Gone, HoldingCancel
    <3>2. CASE Restore
      <4>1. worker' = worker /\ (row[t] = NoRow => mem'[t] = Unborn \/ mem'[t] = mem[t])
        BY <3>2 DEF Restore
      <4> QED
        BY <4>1, UnbornFields DEF Gone
    <3>3. CASE Started
      BY <3>3 DEF Started, Gone
    <3>4. CASE \E u \in Tasks : PersistNext(u)
      BY <3>4 DEF PersistNext, Gone, memVars
    <3> QED
      BY <1>2, <3>1, <3>2, <3>3, <3>4
  <2>4. Buried'
    BY <1>0, <2>3 DEF Quieted, Buried
  <2>5. CASE Exit
    <3>1. /\ proc' = "off" /\ todo' = {} /\ armed' = {}
          /\ \A w \in Writers : io'[w] = NoIO /\ ~Writes(w)'
      BY <2>5, IOValues DEF Exit, Writes
    <3> QED
      BY <1>0, <2>1, <2>4, <3>1 DEF Quieted, MainQuiet, WorkerQuiet, CallerQuiet
  <2>6. CASE Restore
    <3>1. /\ proc' = "starting" /\ armed' = {}
          /\ \A w \in Writers : io'[w] = NoIO /\ ~Writes(w)'
      BY <1>0, <2>6, IOValues DEF Restore, Writes, Quieted, MainQuiet, Sound, WriterSound
    <3> QED
      BY <1>0, <2>1, <2>4, <3>1 DEF Quieted, MainQuiet, WorkerQuiet, CallerQuiet
  <2>7. CASE Started
    <3>1. /\ proc = "starting" /\ proc' = "up" /\ armed' = {} /\ todo' = {}
          /\ UNCHANGED <<mem, io>> /\ io[Main] = NoIO
      BY <2>7 DEF Started, Quiet, Quieted, MainQuiet
    <3>2. \A t \in Tasks : WorkerQuiet(t)'
      <4> TAKE t \in Tasks
      <4>1. worker[t] \in {"none", "ended"}
        BY <1>0, <3>1 DEF Sound, WorkerSound
      <4> QED
        BY <3>1, <4>1 DEF Quieted, WorkerQuiet
    <3>3. \A c \in Callers : CallerQuiet(c)'
      BY <2>1, <3>1 DEF Quieted, CallerQuiet, Writes
    <3> QED
      BY <1>0, <2>4, <3>1, <3>2, <3>3 DEF Quieted, MainQuiet
  <2>8. ASSUME NEW t \in Tasks, PersistNext(t) PROVE Quieted'
    <3>1. /\ UNCHANGED <<proc, mem, worker, armed, call>> /\ proc = "starting"
          /\ io' = io \/ (mem[t].present /\ io' = [io EXCEPT ![Main] = Persist(t)])
      BY <2>8 DEF PersistNext, Quieted, MainQuiet, memVars
    <3>2. MainQuiet'
      BY <3>1, IOValues DEF Quieted, MainQuiet, Writes
    <3>3. \A u \in Tasks : WorkerQuiet(u)'
      BY <3>1 DEF Quieted, WorkerQuiet, Writes
    <3>4. ASSUME NEW c \in Callers PROVE CallerQuiet(c)'
      <4>1. io'[c] = io[c]
        BY <3>1
      <4> QED
        BY <2>1, <3>1, <4>1 DEF Quieted, CallerQuiet, Writes
    <3> QED
      BY <1>0, <2>4, <3>2, <3>3, <3>4 DEF Quieted
  <2> QED
    BY <1>2, <2>5, <2>6, <2>7, <2>8
<1> QED
  BY <1>1, <1>2 DEF Lifecycle

LEMMA HandlerFrame ==
  ASSUME Quieted, NEW c \in Callers, Handler(c)
  PROVE  /\ Sound /\ UNCHANGED <<proc, row, armed, todo>> /\ proc # "starting"
         /\ \A w \in Writers : w # c => io'[w] = io[w]
         /\ \A t \in Tasks : worker'[t] = worker[t] \/ (worker[t] \notin HoldingCancel /\
                               worker'[t] \in {"owed", "start", "lost"})
         /\ \A t \in Tasks : Gone(t) => Gone(t)'
<1>1. UNCHANGED <<proc, row, armed, todo>> /\ Sound
  BY DEF Quieted, Handler, Create, CreateNext, CreateReturns, CreateFails, Undo, Pause, RenameTask,
     Resume, Delete, ResumeGoes, DeleteWaited, DeletePop, DeleteReturns, memVars, procVars, history
<1>2. proc # "starting"
  <2>1. call[c] = Idle => proc = "up"
    BY CallValues DEF Handler, Create, CreateNext, CreateReturns, CreateFails, Undo, Pause,
       RenameTask, Resume, Delete, ResumeGoes, DeleteWaited, DeletePop, DeleteReturns, MayCall, Serving
  <2> QED
    BY <1>1, <2>1 DEF Sound, CallSound
<1>3. \A w \in Writers : w # c => io'[w] = io[w]
  BY QuietTypes DEF Handler, Create, CreateNext, CreateReturns, CreateFails, Undo, Pause, RenameTask,
     Resume, Delete, ResumeGoes, DeleteWaited, DeletePop, DeleteReturns, memVars, procVars, history
<1>4. \A t \in Tasks : Owns(c, t) => worker[t] = "owed"
  BY <1>1 DEF Sound, Owned
<1>5. \A t \in Tasks : worker'[t] = worker[t] \/ (worker[t] \notin HoldingCancel /\
                         worker'[t] \in {"owed", "start", "lost"})
  <2> TAKE t \in Tasks
  <2>1. CASE \E b \in Batches : Create(c, b)
    BY <2>1 DEF Create, HoldingCancel
  <2>2. CASE CreateReturns(c) \/ CreateFails(c)
    <3>1. worker'[t] = worker[t] \/ (In(call[c].b, t) /\ worker'[t] \in {"start", "lost"})
      BY <2>2 DEF CreateReturns, CreateFails
    <3>2. In(call[c].b, t) => Owns(c, t)
      BY <2>2 DEF Owns, CreateReturns, CreateFails
    <3> QED
      BY <1>4, <3>1, <3>2 DEF HoldingCancel
  <2>3. CASE ResumeGoes(c)
    <3>1. worker'[t] = worker[t] \/ (t = call[c].t /\ worker'[t] = "start")
      BY <2>3, QuietTypes DEF ResumeGoes, WorkerGoes
    <3>2. t = call[c].t => Owns(c, t)
      BY <2>3 DEF Owns, ResumeGoes
    <3> QED
      BY <1>4, <3>1, <3>2 DEF HoldingCancel
  <2>4. CASE \E u \in Tasks : Resume(c, u)
    BY <2>4, QuietTypes DEF Resume, WorkerGoes, HoldingCancel
  <2>5. CASE \/ CreateNext(c) \/ Undo(c) \/ DeleteWaited(c) \/ DeletePop(c) \/ DeleteReturns(c)
             \/ \E u \in Tasks : Pause(c, u) \/ RenameTask(c, u) \/ Delete(c, u)
    BY <2>5 DEF CreateNext, Undo, DeleteWaited, DeletePop, DeleteReturns, Pause, RenameTask, Delete,
       memVars
  <2> QED
    BY <2>1, <2>2, <2>3, <2>4, <2>5 DEF Handler
<1>6. ASSUME NEW t \in Tasks, ~mem[t].present, worker[t] # "none" PROVE ~mem'[t].present
  <2>1. mem[t] \in TaskState /\ mem \in [Tasks -> TaskState]
    BY <1>1, SoundTypes DEF Sound, TypeInv, TypeOK
  <2>2. CASE \E b \in Batches : Create(c, b)
    BY <1>6, <2>2 DEF Create
  <2>3. CASE CreateFails(c)
    BY <1>6, <2>1, <2>3 DEF CreateFails, TaskState
  <2>4. CASE \E u \in Tasks : Pause(c, u) \/ RenameTask(c, u) \/ Resume(c, u) \/ Delete(c, u)
    BY <1>6, <2>1, <2>4 DEF Pause, RenameTask, Resume, Delete, memVars
  <2>5. CASE DeletePop(c)
    BY <1>6, <2>1, <2>5 DEF DeletePop
  <2>6. CASE \/ CreateNext(c) \/ CreateReturns(c) \/ Undo(c) \/ ResumeGoes(c)
             \/ DeleteWaited(c) \/ DeleteReturns(c)
    BY <1>6, <2>6 DEF CreateNext, CreateReturns, Undo, ResumeGoes, DeleteWaited, DeleteReturns,
       memVars
  <2> QED
    BY <2>2, <2>3, <2>4, <2>5, <2>6 DEF Handler
<1>7. \A t \in Tasks : Gone(t) => Gone(t)'
  BY <1>5, <1>6 DEF Gone, HoldingCancel
<1> QED
  BY <1>1, <1>2, <1>3, <1>5, <1>7

LEMMA HandlerQuiet ==
  ASSUME Alone, Quieted, NEW c \in Callers, Handler(c), CallerQuiet(c)',
         \A t \in (deleted' \cup refused') \ (deleted \cup refused) : Gone(t)' /\ row'[t] = NoRow
  PROVE  Quieted'
<1>0. /\ UNCHANGED <<proc, row, armed, todo>> /\ proc # "starting"
      /\ \A w \in Writers : w # c => io'[w] = io[w]
      /\ \A t \in Tasks : worker'[t] = worker[t] \/ worker[t] \notin HoldingCancel
      /\ \A t \in Tasks : Gone(t) => Gone(t)'
  BY HandlerFrame
<1>1. Sound'
  BY HandlerStep DEF Quieted
<1>2. MainQuiet'
  <2>1. io[Main] = NoIO /\ io'[Main] = NoIO
    BY <1>0, WriterNames DEF Quieted, MainQuiet
  <2> QED
    BY <1>0, <2>1 DEF Quieted, MainQuiet
<1>3. Buried'
  <2> SUFFICES ASSUME NEW t \in deleted' \cup refused' PROVE Gone(t)' /\ row'[t] = NoRow
    BY DEF Buried
  <2>1. CASE t \in deleted \cup refused
    BY <1>0, <2>1, QuietTypes DEF Quieted, Buried
  <2> QED
    BY <2>1
<1>4. \A t \in Tasks : WorkerQuiet(t)'
  <2> TAKE t \in Tasks
  <2>1. io'[WorkerOf(t)] = io[WorkerOf(t)] /\ io'[TimerOf(t)] = io[TimerOf(t)]
    BY <1>0, WriterNames
  <2> QED
    BY <1>0, <2>1 DEF Quieted, WorkerQuiet, Writes, HoldingCancel
<1> QED
  BY <1>1, <1>2, <1>3, <1>4 DEF Quieted, Alone

\* A call that goes back to idle, or that has yet to do something to a row.
LEMMA CallerFree ==
  ASSUME NEW c \in Callers, call'[c].op \in {"idle", "go", "wait"},
         Writes(c)' => mem'[io'[c].t].present
  PROVE  CallerQuiet(c)'
BY DEF CallerQuiet

LEMMA CreateQuiet ==
  ASSUME Alone, Quieted, NEW c \in Callers,
         \/ \E b \in Batches : Create(c, b)
         \/ CreateNext(c) \/ CreateReturns(c) \/ CreateFails(c) \/ Undo(c)
  PROVE  Quieted'
<1>0. Handler(c) /\ Sound /\ CallerQuiet(c) /\ row' = row
  BY DEF Handler, Quieted, Create, CreateNext, CreateReturns, CreateFails, Undo
<1> USE <1>0, CallerFacts
<1>1. ASSUME NEW b \in Batches, Create(c, b) PROVE Quieted'
  <2>1. /\ call'[c].op = "create" /\ call'[c].b = b /\ call'[c].i = 1
        /\ io'[c] = Persist(b[1]) /\ deleted' = deleted /\ refused' = refused
        /\ \A t \in Tasks : In(b, t) =>
             worker[t] = "none" /\ mem'[t] = [Unborn EXCEPT !.present = TRUE]
    BY <1>1 DEF Create, history
  <2>2. b[1] \in Tasks /\ In(b, b[1]) /\ \A j \in DOMAIN b : b[j] \in Tasks /\ In(b, b[j])
    BY Constants DEF In
  <2>3. \A t \in Tasks : In(b, t) => mem'[t].present
    BY <2>1, UnbornType DEF Unborn
  <2>4. \A j \in DOMAIN b : row[b[j]] = NoRow
    BY <2>1, <2>2 DEF WorkerSound
  <2>5. OnlyStanding(c)'
    BY <2>1, <2>4 DEF OnlyStanding
  <2>6. io'[c].st = "read" /\ io'[c].t = b[1]
    <3>1. \A t \in Tasks : Persist(t).st = "read" /\ Persist(t).t = t
      BY IOValues
    <3> QED
      BY ONLY <2>1, <2>2, <3>1
  <2>7. CallerQuiet(c)'
    BY <2>1, <2>2, <2>3, <2>5, <2>6 DEF CallerQuiet, Writes
  <2> QED
    BY <2>1, <2>7, HandlerQuiet
<1>2. CASE CreateNext(c)
  <2> DEFINE b == call[c].b
             i == call[c].i
  <2>1. /\ call[c].op = "create" /\ io[c] = NoIO /\ i < Len(b) /\ mem' = mem
        /\ io'[c] = Persist(b[i + 1]) /\ deleted' = deleted /\ refused' = refused
    BY <1>2 DEF CreateNext, Quiet, memVars, history
  <2>2. call'[c].op = "create" /\ call'[c].b = b /\ call'[c].i = i + 1
    BY <1>2, <2>1, CallUpdates DEF CreateNext
  <2>3. b[i + 1] \in Tasks /\ In(b, b[i + 1]) /\ i \in Nat
    BY <2>1
  <2>4. io'[c].st = "read" /\ io'[c].t = b[i + 1] /\ mem[b[i + 1]].present
    BY <2>1, <2>3, IOValues DEF CallerQuiet
  <2>5. \A k \in DOMAIN b : Standing(c, k) => Standing(c, k)'
    BY <2>1, <2>2 DEF Standing
  <2>6. OnlyStanding(c)'
    BY <2>1, <2>2, <2>5 DEF CallerQuiet, OnlyStanding
  <2>7. CallerQuiet(c)'
    BY <2>1, <2>2, <2>4, <2>6 DEF CallerQuiet, Writes
  <2> QED
    BY <2>1, <2>7, HandlerQuiet
<1>3. CASE CreateReturns(c)
  <2>1. call'[c] = Idle /\ io'[c] = NoIO /\ deleted' = deleted /\ refused' = refused
    BY <1>3 DEF CreateReturns, Quiet
  <2>2. CallerQuiet(c)'
    BY <2>1, CallerFree, CallValues, IOValues DEF Writes
  <2> QED
    BY <2>1, <2>2, HandlerQuiet
<1>4. CASE CreateFails(c)
  <2>1. /\ call[c].op = "create" /\ io[c] = Failed /\ io'[c] = NoIO
        /\ call'[c].op = "undo" /\ call'[c].b = call[c].b /\ call'[c].i = call[c].i
        /\ deleted' = deleted /\ refused' = refused
    BY <1>4 DEF CreateFails, history
  <2>2. \A t \in Tasks : In(call[c].b, t) => Gone(t)'
    <3> SUFFICES ASSUME NEW t \in Tasks, In(call[c].b, t) PROVE Gone(t)'
      OBVIOUS
    <3>1. worker'[t] = "lost" /\ mem'[t] = [mem[t] EXCEPT !.present = FALSE]
      BY <1>4 DEF CreateFails
    <3>2. ~mem'[t].present
      BY <3>1, RecordChanges
    <3> QED
      BY <3>1, <3>2 DEF Gone, HoldingCancel
  <2>3. \A k \in DOMAIN call[c].b : Standing(c, k) => Standing(c, k)'
    <3>1. Failed # NoIO
      BY IOValues
    <3> QED
      BY <2>1, <3>1 DEF Standing
  <2>4. OnlyStanding(c)'
    BY <2>1, <2>3 DEF CallerQuiet, OnlyStanding
  <2>5. CallerQuiet(c)'
    BY <2>1, <2>2, <2>4, IOValues DEF CallerQuiet, Writes
  <2> QED
    BY <2>1, <2>5, HandlerQuiet
<1>5. CASE Undo(c)
  <2> DEFINE b == call[c].b
             i == call[c].i
  <2>1. /\ call[c].op = "undo" /\ io[c] = NoIO /\ mem' = mem /\ deleted' = deleted
        /\ worker' = worker
    BY <1>5 DEF Undo, Quiet, memVars
  <2>2. \A k \in DOMAIN b : Standing(c, k) => k < i
    BY <2>1, IOValues DEF Standing
  <2>3. OnlyStanding(c) /\ \A t \in Tasks : In(b, t) => Gone(t)
    BY <2>1 DEF CallerQuiet
  <2>4. CASE AllUndone(c)
    <3>1. call'[c] = Idle /\ io' = io /\ refused' = refused \cup {t \in Tasks : In(b, t)}
      BY <1>5, <2>4 DEF Undo
    <3>2. \A j \in DOMAIN b : row[b[j]] = NoRow
      <4>1. \A k \in DOMAIN b : ~Standing(c, k)
        BY <2>1, <2>2, <2>4 DEF AllUndone
      <4> QED
        BY <2>3, <4>1 DEF OnlyStanding
    <3>3. \A t \in Tasks : In(b, t) => row[t] = NoRow /\ Gone(t)'
      BY <2>1, <2>3, <3>2 DEF In, Gone
    <3>4. CallerQuiet(c)'
      BY <2>1, <3>1, CallerFree, CallValues, IOValues DEF Writes
    <3> QED
      BY <2>1, <3>1, <3>3, <3>4, HandlerQuiet
  <2>5. CASE ~AllUndone(c)
    <3>1. /\ call' = [call EXCEPT ![c] = [call[c] EXCEPT !.i = i - 1]]
          /\ io'[c] = [st |-> "delete", t |-> b[i - 1]] /\ refused' = refused
      BY <1>5, <2>5 DEF Undo
    <3>2. call'[c].op = "undo" /\ call'[c].b = b /\ call'[c].i = i - 1
      BY <2>1, <3>1, CallUpdates
    <3>3. \A k \in DOMAIN b : Standing(c, k) => Standing(c, k)'
      <4>1. DOMAIN b = 1..Len(b) /\ Len(b) \in Nat /\ i \in 1..Len(b)
        BY <2>1
      <4>2. \A k \in DOMAIN b : k < i => k < i - 1 \/ k = i - 1
        BY <4>1
      <4> QED
        BY <2>2, <3>1, <3>2, <4>2 DEF Standing
    <3>4. OnlyStanding(c)'
      BY <2>1, <2>3, <3>2, <3>3 DEF OnlyStanding
    <3>5. \A t \in Tasks : In(b, t) => Gone(t)'
      BY <2>1, <2>3 DEF Gone
    <3>6. CallerQuiet(c)'
      BY <3>1, <3>2, <3>4, <3>5 DEF CallerQuiet, Writes
    <3> QED
      BY <2>1, <3>1, <3>6, HandlerQuiet
  <2> QED
    BY <2>4, <2>5
<1> QED
  BY <1>1, <1>2, <1>3, <1>4, <1>5

LEMMA CommandQuiet ==
  ASSUME Alone, Quieted, NEW c \in Callers,
         \/ \E t \in Tasks : Pause(c, t) \/ RenameTask(c, t) \/ Resume(c, t) \/ Delete(c, t)
         \/ ResumeGoes(c) \/ DeleteWaited(c)
  PROVE  Quieted'
<1>0. Handler(c) /\ Sound /\ CallerQuiet(c) /\ UNCHANGED <<row, deleted, refused>>
  BY DEF Handler, Quieted, Pause, RenameTask, Resume, Delete, ResumeGoes, DeleteWaited, history
<1> USE <1>0, CallerFacts
<1> SUFFICES CallerQuiet(c)'
  BY HandlerQuiet
<1>1. ASSUME NEW t \in Tasks, Pause(c, t) \/ RenameTask(c, t) \/ Resume(c, t) PROVE CallerQuiet(c)'
  <2>1. /\ mem[t].present /\ io'[c] = Persist(t)
        /\ call'[c] = Idle \/ call'[c] = [op |-> "go", t |-> t]
    BY <1>1 DEF Pause, RenameTask, Resume, MayCall
  <2>3. mem'[t].present
    <3>1. CASE mem' = mem
      BY <2>1, <3>1
    <3>2. CASE mem' = [mem EXCEPT ![t] = [mem[t] EXCEPT !.status = "paused", !.mode = "pause"]]
      BY <2>1, <3>2, RecordChanges
    <3>3. CASE mem' = [mem EXCEPT ![t] = [mem[t] EXCEPT !.status = "pending", !.mode = ""]]
      BY <2>1, <3>3, RecordChanges
    <3>4. CASE mem' = [mem EXCEPT ![t] = [mem[t] EXCEPT !.status = "failed"]]
      BY <2>1, <3>4, RecordChanges
    <3> QED
      BY <1>1, <3>1, <3>2, <3>3, <3>4 DEF Pause, RenameTask, Resume, memVars
  <2>4. call'[c].op \in {"idle", "go"}
    BY <2>1, CallValues
  <2> QED
    BY <2>1, <2>3, <2>4, IOValues, CallerFree DEF Writes
<1>2. ASSUME NEW t \in Tasks, Delete(c, t) PROVE CallerQuiet(c)'
  <2>0. mem[t].present /\ io[c] = NoIO /\ WorkerSound(t)
    BY <1>2 DEF Delete, MayCall, Quiet
  <2>1. CASE NothingToStop(t)
    <3>a. /\ call' = [call EXCEPT ![c] = [op |-> "pop", t |-> t]]
          /\ mem' = mem /\ io' = io /\ worker' = worker
      BY <1>2, <2>1 DEF Delete
    <3>1. call'[c].op = "pop" /\ call'[c].t = t /\ mem' = mem /\ io' = io /\ worker' = worker
      BY <3>a
    <3>2. Settled(t)'
      BY <2>0, <2>1, <3>1 DEF NothingToStop, Settled, WorkerSound, HoldingCancel, WorkerPCs
    <3> QED
      BY <2>0, <3>1, <3>2, IOValues DEF CallerQuiet, Writes
  <2>2. CASE ~NothingToStop(t)
    <3>a. /\ call' = [call EXCEPT ![c] = [op |-> "wait", t |-> t]]
          /\ io' = io \/ io' = [io EXCEPT ![c] = Persist(t)]
      BY <1>2, <2>2 DEF Delete
    <3>1. call'[c].op = "wait" /\ (io'[c] = NoIO \/ io'[c] = Persist(t))
      BY <2>0, <3>a
    <3> DEFINE x == IF mem[t].status \in Active THEN "canceled" ELSE mem[t].status
    <3>2. mem'[t] = [mem[t] EXCEPT !.mode = "delete", !.status = x]
      BY <1>2, <2>2 DEF Delete
    <3> HIDE DEF x
    <3>3. mem'[t].present
      BY <2>0, <3>2, RecordChanges
    <3> QED
      BY <3>1, <3>3, IOValues, CallerFree DEF Writes
  <2> QED
    BY <2>1, <2>2
<1>3. CASE ResumeGoes(c)
  <2>1. call'[c] = Idle /\ io'[c] = NoIO
    BY <1>3 DEF ResumeGoes, Quiet
  <2> QED
    BY <2>1, CallValues, IOValues, CallerFree DEF Writes
<1>4. CASE DeleteWaited(c)
  <2>1. /\ call[c].op = "wait" /\ io'[c] = NoIO /\ UNCHANGED <<mem, worker>>
        /\ \/ worker[call[c].t] = "ended" /\ call' = [call EXCEPT ![c] = [call[c] EXCEPT !.op = "pop"]]
           \/ call'[c] = Idle
    BY <1>4 DEF DeleteWaited, Quiet, memVars
  <2>2. [call[c] EXCEPT !.op = "pop"] = [op |-> "pop", t |-> call[c].t]
    BY <2>1, CallUpdates
  <2>3. ASSUME call' = [call EXCEPT ![c] = [op |-> "pop", t |-> call[c].t]], worker[call[c].t] = "ended"
        PROVE  CallerQuiet(c)'
    <3>1. call'[c].op = "pop" /\ call'[c].t = call[c].t
      BY <2>3
    <3>2. \A t : t = call[c].t => Settled(t)'
      BY <2>1, <2>3 DEF Settled
    <3> QED
      BY <2>1, <3>1, <3>2, IOValues DEF CallerQuiet, Writes
  <2> QED
    BY <2>1, <2>2, <2>3, CallValues, IOValues, CallerFree DEF Writes
<1> QED
  BY <1>1, <1>2, <1>3, <1>4

LEMMA DeleteQuiet ==
  ASSUME Alone, Quieted, NEW c \in Callers, DeletePop(c) \/ DeleteReturns(c)
  PROVE  Quieted'
<1>0. Handler(c) /\ Sound /\ CallerQuiet(c) /\ row' = row
  BY DEF Handler, Quieted, DeletePop, DeleteReturns
<1> USE <1>0, CallerFacts
<1>t. PICK t \in Tasks : t = call[c].t
  BY DEF DeletePop, DeleteReturns
<1>1. CASE DeletePop(c)
  <2>1. /\ call[c].op = "pop" /\ io[c] = NoIO /\ Settled(t) /\ worker' = worker
        /\ deleted' = deleted /\ refused' = refused
    BY <1>t, <1>1 DEF DeletePop, CallerQuiet
  <2>2. CASE mem[t].present
    <3>1. /\ call' = [call EXCEPT ![c] = [call[c] EXCEPT !.op = "clean"]]
          /\ io'[c] = [st |-> "delete", t |-> t]
          /\ mem'[t] = [mem[t] EXCEPT !.present = FALSE]
      BY <1>t, <1>1, <2>2 DEF DeletePop
    <3>2. call'[c].op = "clean" /\ call'[c].t = t
      <4>1. [call[c] EXCEPT !.op = "clean"] = [op |-> "clean", t |-> t]
        BY <1>t, <2>1, CallUpdates
      <4> QED
        BY <3>1, <4>1
    <3>3. ~mem'[t].present
      BY <3>1, RecordChanges
    <3>4. Gone(t)'
      BY <2>1, <2>2, <3>3, PresentIsBorn DEF Gone, Settled, HoldingCancel
    <3>5. CallerQuiet(c)'
      BY <3>1, <3>2, <3>4 DEF CallerQuiet, Writes
    <3> QED
      BY <2>1, <3>5, HandlerQuiet
  <2>3. CASE ~mem[t].present
    <3>1. call'[c] = Idle /\ io'[c] = NoIO
      BY <1>t, <1>1, <2>1, <2>3 DEF DeletePop
    <3>2. CallerQuiet(c)'
      BY <3>1, CallValues, IOValues, CallerFree DEF Writes
    <3> QED
      BY <2>1, <3>2, HandlerQuiet
  <2> QED
    BY <2>2, <2>3
<1>2. CASE DeleteReturns(c)
  <2>1. /\ call[c].op = "clean" /\ io[c] = NoIO /\ UNCHANGED <<mem, worker, io, refused>>
        /\ call'[c] = Idle /\ deleted' = deleted \cup {t}
    BY <1>t, <1>2 DEF DeleteReturns, Quiet
  <2>2. Gone(t) /\ row[t] = NoRow
    BY <1>t, <2>1, IOValues DEF CallerQuiet
  <2>3. Gone(t)'
    BY <2>1, <2>2 DEF Gone
  <2>4. CallerQuiet(c)'
    BY <2>1, CallValues, IOValues, CallerFree DEF Writes
  <2> QED
    BY <2>1, <2>2, <2>3, <2>4, HandlerQuiet
<1> QED
  BY <1>1, <1>2

LEMMA QuietedNext == ASSUME Undisturbed PROVE Quieted /\ [Next]_vars => Quieted'
<1> SUFFICES ASSUME Quieted, [Next]_vars PROVE Quieted'
  OBVIOUS
<1>1. CASE UNCHANGED vars
  <2>1. /\ UNCHANGED <<proc, todo, mem, worker, armed, row, io, call, deleted, refused>>
        /\ Sound'
    BY <1>1, SoundNext DEF Quieted, vars, procVars, memVars, history
  <2>2. MainQuiet' /\ Buried' /\ \A t \in Tasks : WorkerQuiet(t)'
    BY <2>1 DEF Quieted, MainQuiet, Buried, WorkerQuiet, Writes, Gone
  <2>3. \A c \in Callers : CallerQuiet(c)'
    BY <2>1 DEF Quieted, CallerQuiet, Writes, Gone, Settled, OnlyStanding, Standing
  <2> QED
    BY <2>1, <2>2, <2>3 DEF Quieted
<1>2. CASE \E c \in Callers : Handler(c)
  BY <1>2, CreateQuiet, CommandQuiet, DeleteQuiet DEF Handler, Undisturbed
<1> QED
  BY <1>1, <1>2, DatabaseQuiet, WorkerQuietStep, LifecycleQuiet DEF Next

\* Where one caller acts at a time, no checkpoints are saved and rows can be deleted,
\* nothing brings back a row that was given up, by a deletion or with its batch: not
\* the persists under way, not a failed write, not the rollback, not a crash, and not
\* the restart after it.
THEOREM RowsStayGone == ASSUME Undisturbed PROVE Spec => []NoRowComesBack
<1>1. Quieted => NoRowComesBack
  BY QuietTypes DEF Quieted, Buried, Gone, NoRowComesBack, DeletedStaysDeleted, RefusedLeavesNothing
<1>2. Quieted /\ [Next]_vars => Quieted'
  BY QuietedNext
<1> QED
  BY <1>1, <1>2, QuietedInit, PTL DEF Spec

=============================================================================

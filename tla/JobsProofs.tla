----------------------------- MODULE JobsProofs -----------------------------
(***************************************************************************)
(* Proofs about the task services of MCJobs, for any tasks, rules, callers *)
(* and bounds: an organising task has one runner and carries a plan out    *)
(* once; the files of an STRM task have one owner, no mark outlives its    *)
(* run and no pause is undone by the end of a scan; the runs of rules are  *)
(* queued as AutomationProofs shows.                                       *)
(***************************************************************************)
EXTENDS MCJobs, FiniteSetTheorems, TLAPS

(***************************************************************************)
(* OrganizeTasks                                                           *)
(***************************************************************************)
RunnerSteps == {"none", "begin", "build", "save", "finish", "settle", "rest", "enter", "apply",
                "discard", "result", "unplan", "unmark"}
RunnerRecords == [at : RunnerSteps, kind : {"plan", "apply", "run"},
                  row : Organize!Rows, plan : Organize!Plans]
CallSteps == {"idle", "check", "prepare", "start", "request", "store", "unplan", "discard", "erase"}
CallRecords == [at : CallSteps, op : Organize!Ops, row : Organize!Rows, plan : Organize!Plans]

Runs(g) == organizeRunner[g].at # "none"

\* What a handler is about to do fits what it was called for, and a runner has the
\* mark: startRunner takes it in the section that starts the goroutine.
OrganizeShape ==
  /\ \A c \in OrganizeCallers :
       /\ organizeCall[c].at = "check" => organizeCall[c].op # "update"
       /\ organizeCall[c].at \in {"prepare", "start"} => organizeCall[c].op \in {"plan", "apply", "run"}
       /\ organizeCall[c].at = "store" => organizeCall[c].op \in {"stop", "update"}
  /\ \A g \in Organize!Goroutines :
       /\ Runs(g) => organizeMarked
       /\ ~Runs(g) => organizeRunner[g] = Organize!NoRunner
       /\ \A h \in Organize!Goroutines : Runs(g) /\ Runs(h) => g = h

\* A plan file that is there holds a plan, and what is applied is one.
OrganizeReal ==
  /\ organizeFile = Organize!NoPlan \/ organizeFile.id # 0
  /\ \A c \in OrganizeCallers :
       organizeCall[c].at \in {"prepare", "start"} /\ organizeCall[c].op = "apply" =>
         organizeCall[c].plan.id # 0
  /\ \A g \in Organize!Goroutines : organizeRunner[g].at = "enter" => organizeRunner[g].plan.id # 0

OrganizeTyped == Organize!TypeOK /\ OrganizeShape

LEMMA OrganizeRecords ==
  /\ Organize!NoRow \in Organize!Rows /\ Organize!NoPlan \in Organize!Plans
  /\ Organize!Idle \in CallRecords /\ Organize!NoRunner \in RunnerRecords
  /\ Organize!Idle.at = "idle" /\ Organize!NoRunner.at = "none"
BY JobsAssumption DEF Organize!NoRow, Organize!Rows, Organize!Status, Organize!NoPlan,
   Organize!Plans, Organize!Idle, CallRecords, CallSteps, Organize!Ops, Organize!NoRunner,
   RunnerRecords, RunnerSteps

LEMMA OrganizeTypes ==
  Organize!TypeOK <=>
    /\ organizeRow \in Organize!Rows /\ organizeFile \in Organize!Plans
    /\ organizeMarked \in BOOLEAN /\ organizeStop \in BOOLEAN /\ organizeProgress \in BOOLEAN
    /\ organizeRunner \in [Organize!Goroutines -> RunnerRecords]
    /\ organizeCall \in [OrganizeCallers -> CallRecords]
    /\ organizePlans \in 0..MaxPlans /\ organizeEdits \in 0..MaxEdits
    /\ organizeApplied \subseteq 1..MaxPlans /\ organizeAgain \in BOOLEAN
BY DEF Organize!TypeOK, RunnerRecords, RunnerSteps, CallRecords, CallSteps

LEMMA OrganizeInit == Organize!Init => OrganizeTyped
<1> SUFFICES ASSUME Organize!Init PROVE OrganizeTyped
  OBVIOUS
<1>1. [status |-> "idle", cfg |-> 0] \in Organize!Rows
  BY JobsAssumption DEF Organize!Rows, Organize!Status
<1>2. /\ organizePlans \in 0..MaxPlans /\ organizeEdits \in 0..MaxEdits
      /\ organizeApplied \subseteq 1..MaxPlans
  BY JobsAssumption DEF Organize!Init
<1>6. /\ organizeMarked \in BOOLEAN /\ organizeStop \in BOOLEAN
      /\ organizeProgress \in BOOLEAN /\ organizeAgain \in BOOLEAN
  BY DEF Organize!Init
<1>3. /\ organizeRow \in Organize!Rows /\ organizeFile \in Organize!Plans
      /\ organizeRunner \in [Organize!Goroutines -> RunnerRecords]
      /\ organizeCall \in [OrganizeCallers -> CallRecords]
  BY OrganizeRecords, <1>1 DEF Organize!Init
<1>4. Organize!TypeOK
  BY OrganizeTypes, <1>2, <1>3, <1>6
<1>5. OrganizeShape
  BY OrganizeRecords DEF Organize!Init, OrganizeShape, Runs
<1> QED
  BY <1>4, <1>5 DEF OrganizeTyped

\* A handler goes to its next step, and nothing but the calls, the row, the plan
\* file and flags changes.
LEMMA OrganizeGoto ==
  ASSUME OrganizeTyped, NEW c \in OrganizeCallers, NEW at \in CallSteps,
         organizeCall' = [organizeCall EXCEPT ![c].at = at],
         at = "check" => organizeCall[c].op # "update",
         at \in {"prepare", "start"} => organizeCall[c].op \in {"plan", "apply", "run"},
         at = "store" => organizeCall[c].op \in {"stop", "update"},
         UNCHANGED <<organizeRunner, organizeMarked>>
  PROVE  organizeCall' \in [OrganizeCallers -> CallRecords] /\ OrganizeShape'
<1>1. organizeCall \in [OrganizeCallers -> CallRecords]
  BY OrganizeTypes DEF OrganizeTyped
<1>2. organizeCall[c] \in CallRecords
  BY <1>1
<1> DEFINE r == [organizeCall[c] EXCEPT !.at = at]
<1>3. r \in CallRecords /\ r.at = at /\ r.op = organizeCall[c].op
  BY <1>2 DEF CallRecords
<1>4. organizeCall' = [organizeCall EXCEPT ![c] = r]
  OBVIOUS
<1> HIDE DEF r
<1>5. organizeCall' \in [OrganizeCallers -> CallRecords]
  BY <1>1, <1>3, <1>4
<1>6. \A d \in OrganizeCallers : organizeCall'[d] = IF d = c THEN r ELSE organizeCall[d]
  BY <1>1, <1>4
<1> QED
  BY <1>3, <1>5, <1>6 DEF OrganizeTyped, OrganizeShape, Runs

LEMMA OrganizeReturn ==
  ASSUME OrganizeTyped, NEW c \in OrganizeCallers,
         organizeCall' = [organizeCall EXCEPT ![c] = Organize!Idle]
  PROVE  /\ organizeCall' \in [OrganizeCallers -> CallRecords]
         /\ UNCHANGED <<organizeRunner, organizeMarked>> => OrganizeShape'
<1>1. organizeCall \in [OrganizeCallers -> CallRecords]
  BY OrganizeTypes DEF OrganizeTyped
<1>2. organizeCall' \in [OrganizeCallers -> CallRecords]
  BY <1>1, OrganizeRecords
<1>3. \A d \in OrganizeCallers : organizeCall'[d] = IF d = c THEN Organize!Idle ELSE organizeCall[d]
  BY <1>1
<1> QED
  BY <1>2, <1>3, OrganizeRecords DEF OrganizeTyped, OrganizeShape, Runs

\* A runner goes to its next step and keeps what it has read.
LEMMA OrganizeTo ==
  ASSUME OrganizeTyped, NEW g \in Organize!Goroutines, Runs(g), NEW at \in RunnerSteps \ {"none"},
         Organize!To(g, at), UNCHANGED <<organizeCall, organizeMarked>>
  PROVE  organizeRunner' \in [Organize!Goroutines -> RunnerRecords] /\ OrganizeShape'
<1>1. organizeRunner \in [Organize!Goroutines -> RunnerRecords]
  BY OrganizeTypes DEF OrganizeTyped
<1>2. organizeRunner[g] \in RunnerRecords
  BY <1>1
<1> DEFINE r == [organizeRunner[g] EXCEPT !.at = at]
<1>3. r \in RunnerRecords /\ r.at = at
  BY <1>2 DEF RunnerRecords
<1>4. organizeRunner' = [organizeRunner EXCEPT ![g] = r]
  BY DEF Organize!To
<1> HIDE DEF r
<1>5. organizeRunner' \in [Organize!Goroutines -> RunnerRecords]
  BY <1>1, <1>3, <1>4
<1>6. \A h \in Organize!Goroutines : organizeRunner'[h] = IF h = g THEN r ELSE organizeRunner[h]
  BY <1>1, <1>4
<1> QED
  BY <1>3, <1>5, <1>6 DEF OrganizeTyped, OrganizeShape, Runs

LEMMA OrganizeRows ==
  ASSUME NEW r \in Organize!Rows
  PROVE  /\ \A status \in Organize!Status : [r EXCEPT !.status = status] \in Organize!Rows
         /\ [r EXCEPT !.status = "gone"] \in Organize!Rows
         /\ \A cfg \in 0..MaxEdits : [r EXCEPT !.cfg = cfg] \in Organize!Rows
BY DEF Organize!Rows

\* The fields of a handler and of a runner.
LEMMA OrganizeFields ==
  ASSUME OrganizeTyped
  PROVE  /\ \A c \in OrganizeCallers :
              /\ organizeCall[c] \in CallRecords /\ organizeCall[c].op \in Organize!Ops
              /\ organizeCall[c].row \in Organize!Rows /\ organizeCall[c].plan \in Organize!Plans
         /\ \A g \in Organize!Goroutines :
              /\ organizeRunner[g] \in RunnerRecords
              /\ organizeRunner[g].row \in Organize!Rows /\ organizeRunner[g].plan \in Organize!Plans
<1>1. /\ organizeCall \in [OrganizeCallers -> CallRecords]
      /\ organizeRunner \in [Organize!Goroutines -> RunnerRecords]
  BY OrganizeTypes DEF OrganizeTyped
<1>2. \A c \in OrganizeCallers : organizeCall[c] \in CallRecords
  BY <1>1
<1>3. \A g \in Organize!Goroutines : organizeRunner[g] \in RunnerRecords
  BY <1>1
<1> QED
  BY <1>2, <1>3 DEF CallRecords, RunnerRecords

\* A handler reads the task.
LEMMA OrganizeGet ==
  ASSUME OrganizeTyped, NEW c \in OrganizeCallers, NEW op \in Organize!Ops, Organize!Get(c, op)
  PROVE  OrganizeTyped'
<1> DEFINE r == [at |-> IF op = "update" THEN "store" ELSE "check",
                 op |-> op, row |-> organizeRow, plan |-> Organize!NoPlan]
<1>1. /\ organizeCall' = [organizeCall EXCEPT ![c] = r]
      /\ UNCHANGED <<organizeRow, organizeFile, organizeMarked, organizeStop, organizeProgress,
                     organizeRunner, organizePlans, organizeEdits, organizeApplied, organizeAgain>>
  BY DEF Organize!Get, Organize!ownVars, Organize!bounds
<1>2. /\ r \in CallRecords /\ r.at = IF op = "update" THEN "store" ELSE "check"
      /\ r.op = op
  BY OrganizeTypes, OrganizeRecords DEF CallRecords, CallSteps, OrganizeTyped
<1> HIDE DEF r
<1>3. organizeCall \in [OrganizeCallers -> CallRecords]
  BY OrganizeTypes DEF OrganizeTyped
<1>4. organizeCall' \in [OrganizeCallers -> CallRecords]
  BY <1>1, <1>2, <1>3
<1>5. \A d \in OrganizeCallers : organizeCall'[d] = IF d = c THEN r ELSE organizeCall[d]
  BY <1>1, <1>3
<1>6. OrganizeShape'
  BY <1>1, <1>2, <1>5 DEF OrganizeTyped, OrganizeShape, Runs
<1>7. Organize!TypeOK'
  BY <1>1, <1>4 DEF OrganizeTyped, Organize!TypeOK, CallRecords, CallSteps
<1> QED
  BY <1>6, <1>7 DEF OrganizeTyped

\* A handler looks at the mark, the progress and the plan.
LEMMA OrganizeCheck ==
  ASSUME OrganizeTyped, NEW c \in OrganizeCallers, Organize!Check(c)
  PROVE  OrganizeTyped'
<1> DEFINE op == organizeCall[c].op
           plan == [organizeCall[c] EXCEPT !.at = "prepare", !.plan = organizeFile]
<1>1. /\ organizeCall[c].at = "check" /\ op \in Organize!Ops /\ op # "update"
      /\ UNCHANGED <<organizeRow, organizeFile, organizeMarked, organizeStop, organizeProgress,
                     organizeRunner, organizePlans, organizeEdits, organizeApplied, organizeAgain>>
  BY OrganizeFields DEF Organize!Check, Organize!ownVars, Organize!bounds, OrganizeTyped, OrganizeShape
<1>2. \/ Organize!Return(c)
      \/ op \in {"plan", "run"} /\ Organize!Goto(c, "prepare")
      \/ op = "apply" /\ organizeCall' = [organizeCall EXCEPT ![c] = plan]
      \/ op \in {"stop", "delete"} /\ Organize!Goto(c, "request")
      \/ op = "delete" /\ Organize!Goto(c, "unplan")
  <2>1. op \in {"plan", "run"} => Organize!Return(c) \/ Organize!Goto(c, "prepare")
    BY DEF Organize!Check
  <2>2. op = "apply" => Organize!Return(c) \/ organizeCall' = [organizeCall EXCEPT ![c] = plan]
    BY DEF Organize!Check
  <2>3. op = "stop" => Organize!Return(c) \/ Organize!Goto(c, "request")
    BY DEF Organize!Check
  <2>4. op = "delete" => Organize!Goto(c, "request") \/ Organize!Goto(c, "unplan")
    BY DEF Organize!Check
  <2> QED
    BY <1>1, <2>1, <2>2, <2>3, <2>4 DEF Organize!Ops
<1>3. organizeCall' \in [OrganizeCallers -> CallRecords] /\ OrganizeShape'
  <2>1. CASE Organize!Return(c)
    BY <1>1, <2>1, OrganizeReturn DEF Organize!Return
  <2>2. CASE op \in {"plan", "run"} /\ Organize!Goto(c, "prepare")
    BY <1>1, <2>2, OrganizeGoto DEF Organize!Goto, CallSteps
  <2>3. CASE op \in {"stop", "delete"} /\ Organize!Goto(c, "request")
    BY <1>1, <2>3, OrganizeGoto DEF Organize!Goto, CallSteps
  <2>4. CASE op = "delete" /\ Organize!Goto(c, "unplan")
    BY <1>1, <2>4, OrganizeGoto DEF Organize!Goto, CallSteps
  <2>5. CASE op = "apply" /\ organizeCall' = [organizeCall EXCEPT ![c] = plan]
    <3>1. plan \in CallRecords /\ plan.at = "prepare" /\ plan.op = op
      BY OrganizeFields, OrganizeTypes DEF OrganizeTyped, CallRecords, CallSteps
    <3> HIDE DEF plan
    <3>2. organizeCall \in [OrganizeCallers -> CallRecords]
      BY OrganizeTypes DEF OrganizeTyped
    <3>3. organizeCall' \in [OrganizeCallers -> CallRecords]
      BY <2>5, <3>1, <3>2
    <3>4. \A d \in OrganizeCallers : organizeCall'[d] = IF d = c THEN plan ELSE organizeCall[d]
      BY <2>5, <3>2
    <3>5. OrganizeShape'
      BY <1>1, <2>5, <3>1, <3>4 DEF OrganizeTyped, OrganizeShape, Runs
    <3> QED
      BY <3>3, <3>5
  <2> QED
    BY <1>2, <2>1, <2>2, <2>3, <2>4, <2>5
<1>4. Organize!TypeOK'
  BY <1>1, <1>3 DEF OrganizeTyped, Organize!TypeOK, CallRecords, CallSteps
<1> QED
  BY <1>3, <1>4 DEF OrganizeTyped

\* startRunner, with the mark free and with the mark taken.
LEMMA OrganizeStart ==
  ASSUME OrganizeTyped, NEW c \in OrganizeCallers, Organize!StartRunner(c)
  PROVE  OrganizeTyped'
<1> DEFINE r == [at |-> IF organizeCall[c].op = "apply" THEN "enter" ELSE "begin",
                 kind |-> organizeCall[c].op, row |-> organizeCall[c].row,
                 plan |-> organizeCall[c].plan]
<1>1. /\ organizeCall[c].at = "start" /\ organizeCall' = [organizeCall EXCEPT ![c] = Organize!Idle]
      /\ UNCHANGED <<organizeRow, organizeFile, organizeStop, organizeProgress,
                     organizePlans, organizeEdits, organizeApplied, organizeAgain>>
  BY DEF Organize!StartRunner, Organize!Return, Organize!bounds
<1>2. \/ UNCHANGED <<organizeMarked, organizeRunner>>
      \/ /\ ~organizeMarked /\ organizeMarked'
         /\ \E g \in Organize!Goroutines : organizeRunner' = [organizeRunner EXCEPT ![g] = r]
  BY DEF Organize!StartRunner
<1>3. /\ organizeCall' \in [OrganizeCallers -> CallRecords]
      /\ UNCHANGED <<organizeRunner, organizeMarked>> => OrganizeShape'
  BY <1>1, OrganizeReturn
<1>4. CASE UNCHANGED <<organizeMarked, organizeRunner>>
  <2>1. Organize!TypeOK'
    BY <1>1, <1>3, <1>4 DEF OrganizeTyped, Organize!TypeOK, CallRecords, CallSteps
  <2> QED
    BY <1>3, <1>4, <2>1 DEF OrganizeTyped
<1>5. CASE /\ ~organizeMarked /\ organizeMarked'
           /\ \E g \in Organize!Goroutines : organizeRunner' = [organizeRunner EXCEPT ![g] = r]
  <2>1. PICK g \in Organize!Goroutines : organizeRunner' = [organizeRunner EXCEPT ![g] = r]
    BY <1>5
  <2>2. organizeCall[c].op \in {"plan", "apply", "run"}
    BY <1>1 DEF OrganizeTyped, OrganizeShape
  <2>3. r \in RunnerRecords /\ r.at # "none"
    BY <2>2, OrganizeFields DEF RunnerRecords, RunnerSteps
  <2> HIDE DEF r
  <2>4. organizeRunner \in [Organize!Goroutines -> RunnerRecords]
    BY OrganizeTypes DEF OrganizeTyped
  <2>5. organizeRunner' \in [Organize!Goroutines -> RunnerRecords]
    BY <2>1, <2>3, <2>4
  <2>6. \A h \in Organize!Goroutines : organizeRunner'[h] = IF h = g THEN r ELSE organizeRunner[h]
    BY <2>1, <2>4
  <2>7. organizeMarked' \in BOOLEAN
    BY OrganizeTypes, <1>5 DEF Organize!StartRunner, OrganizeTyped
  <2>8. Organize!TypeOK'
    BY <1>1, <1>3, <2>5, <2>7
    DEF OrganizeTyped, Organize!TypeOK, CallRecords, CallSteps, RunnerRecords, RunnerSteps
  <2>9. \A d \in OrganizeCallers : organizeCall'[d] = IF d = c THEN Organize!Idle ELSE organizeCall[d]
    BY <1>1, OrganizeTypes DEF OrganizeTyped
  <2>10. OrganizeShape'
    BY <1>5, <2>3, <2>6, <2>9, OrganizeRecords DEF OrganizeTyped, OrganizeShape, Runs
  <2> QED
    BY <2>8, <2>10 DEF OrganizeTyped
<1> QED
  BY <1>2, <1>4, <1>5

\* The other steps of a handler.
LEMMA OrganizeHandles ==
  ASSUME OrganizeTyped, NEW c \in OrganizeCallers, Organize!Handles(c)
  PROVE  OrganizeTyped'
<1> USE DEF CallSteps
<1>1. CASE Organize!Check(c)
  BY <1>1, OrganizeCheck
<1>2. CASE Organize!StartRunner(c)
  BY <1>2, OrganizeStart
<1>3. CASE Organize!Prepare(c)
  <2>1. /\ organizeCall[c].at = "prepare" /\ organizeCall' = [organizeCall EXCEPT ![c].at = "start"]
        /\ UNCHANGED <<organizeRow, organizeFile, organizeMarked, organizeRunner,
                       organizePlans, organizeEdits, organizeApplied, organizeAgain>>
    BY <1>3 DEF Organize!Prepare, Organize!Goto, Organize!bounds
  <2>2. organizeStop' \in BOOLEAN /\ organizeProgress' \in BOOLEAN
    BY <1>3 DEF Organize!Prepare
  <2>3. organizeCall[c].op \in {"plan", "apply", "run"}
    BY <2>1 DEF OrganizeTyped, OrganizeShape
  <2>4. organizeCall' \in [OrganizeCallers -> CallRecords] /\ OrganizeShape'
    BY <2>1, <2>3, OrganizeGoto
  <2>5. Organize!TypeOK'
    BY <2>1, <2>2, <2>4 DEF OrganizeTyped, Organize!TypeOK, CallRecords
  <2> QED
    BY <2>4, <2>5 DEF OrganizeTyped
<1>4. CASE Organize!RequestStop(c)
  <2>1. /\ organizeCall[c].at = "request"
        /\ organizeCall' = [organizeCall EXCEPT ![c].at = IF organizeCall[c].op = "stop"
                                                          THEN "store" ELSE "unplan"]
        /\ UNCHANGED <<organizeRow, organizeFile, organizeMarked, organizeProgress, organizeRunner,
                       organizePlans, organizeEdits, organizeApplied, organizeAgain>>
    BY <1>4 DEF Organize!RequestStop, Organize!Goto, Organize!bounds
  <2>2. organizeStop' \in BOOLEAN
    BY <1>4 DEF Organize!RequestStop
  <2>3. organizeCall' \in [OrganizeCallers -> CallRecords] /\ OrganizeShape'
    <3>1. CASE organizeCall[c].op = "stop"
      BY <2>1, <3>1, OrganizeGoto
    <3>2. CASE organizeCall[c].op # "stop"
      BY <2>1, <3>2, OrganizeGoto
    <3> QED BY <3>1, <3>2
  <2>4. Organize!TypeOK'
    BY <2>1, <2>2, <2>3 DEF OrganizeTyped, Organize!TypeOK, CallRecords
  <2> QED
    BY <2>3, <2>4 DEF OrganizeTyped
<1>5. CASE Organize!UpdateTask(c)
  <2>1. /\ organizeCall[c].at = "store"
        /\ \/ organizeCall' = [organizeCall EXCEPT ![c].at = "unplan"]
           \/ organizeCall' = [organizeCall EXCEPT ![c] = Organize!Idle]
        /\ UNCHANGED <<organizeFile, organizeMarked, organizeStop, organizeProgress, organizeRunner,
                       organizePlans, organizeApplied, organizeAgain>>
    BY <1>5 DEF Organize!UpdateTask, Organize!Goto, Organize!Return, Organize!ownVars
  <2>2. organizeCall[c].row \in Organize!Rows /\ organizeRow \in Organize!Rows
        /\ organizeEdits \in 0..MaxEdits
    BY OrganizeFields, OrganizeTypes DEF OrganizeTyped
  <2>3. organizeRow' \in Organize!Rows /\ organizeEdits' \in 0..MaxEdits
    <3>0. CASE organizeRow.status = "gone"
      BY <1>5, <2>2, <3>0 DEF Organize!UpdateTask
    <3>1. CASE organizeRow.status # "gone" /\ organizeCall[c].op = "stop"
      <4>1. [organizeCall[c].row EXCEPT !.status = "stopping"] \in Organize!Rows
        BY <2>2, OrganizeRows DEF Organize!Status
      <4> QED
        BY <1>5, <2>2, <3>1, <4>1 DEF Organize!UpdateTask
    <3>2. CASE organizeRow.status # "gone" /\ organizeCall[c].op # "stop"
      <4>1. organizeEdits < MaxEdits /\ organizeEdits' = organizeEdits + 1
        BY <1>5, <3>2 DEF Organize!UpdateTask
      <4>2. organizeEdits + 1 \in 0..MaxEdits
        BY <2>2, <4>1, JobsAssumption
      <4>3. [organizeCall[c].row EXCEPT !.cfg = organizeEdits + 1] \in Organize!Rows
        BY <2>2, <4>2, OrganizeRows
      <4> QED
        BY <1>5, <2>2, <3>2, <4>1, <4>2, <4>3 DEF Organize!UpdateTask
    <3> QED BY <3>0, <3>1, <3>2
  <2>4. organizeCall' \in [OrganizeCallers -> CallRecords] /\ OrganizeShape'
    BY <2>1, OrganizeGoto, OrganizeReturn
  <2>5. Organize!TypeOK'
    BY <2>1, <2>3, <2>4 DEF OrganizeTyped, Organize!TypeOK, CallRecords
  <2> QED
    BY <2>4, <2>5 DEF OrganizeTyped
<1>6. CASE Organize!DeletePlanFile(c)
  <2>1. /\ organizeFile' = Organize!NoPlan
        /\ UNCHANGED <<organizeRow, organizeMarked, organizeStop, organizeProgress, organizeRunner,
                       organizePlans, organizeEdits, organizeApplied, organizeAgain>>
    BY <1>6 DEF Organize!DeletePlanFile, Organize!ownVars, Organize!bounds
  <2>2. organizeCall' \in [OrganizeCallers -> CallRecords] /\ OrganizeShape'
    <3>1. CASE organizeCall[c].op = "delete"
      BY <1>6, <2>1, <3>1, OrganizeGoto DEF Organize!DeletePlanFile, Organize!Goto
    <3>2. CASE organizeCall[c].op # "delete"
      BY <1>6, <2>1, <3>2, OrganizeReturn DEF Organize!DeletePlanFile, Organize!Return
    <3> QED BY <3>1, <3>2
  <2>3. Organize!TypeOK'
    BY <2>1, <2>2, OrganizeRecords DEF OrganizeTyped, Organize!TypeOK, CallRecords
  <2> QED
    BY <2>2, <2>3 DEF OrganizeTyped
<1>7. CASE Organize!DiscardStop(c)
  <2>1. /\ organizeStop' = FALSE /\ organizeCall' = [organizeCall EXCEPT ![c].at = "erase"]
        /\ UNCHANGED <<organizeRow, organizeFile, organizeMarked, organizeProgress, organizeRunner,
                       organizePlans, organizeEdits, organizeApplied, organizeAgain>>
    BY <1>7 DEF Organize!DiscardStop, Organize!Goto, Organize!bounds
  <2>2. organizeCall' \in [OrganizeCallers -> CallRecords] /\ OrganizeShape'
    BY <2>1, OrganizeGoto
  <2>3. organizeStop' \in BOOLEAN
    BY <2>1
  <2>4. Organize!TypeOK'
    BY <2>1, <2>2, <2>3 DEF OrganizeTyped, Organize!TypeOK, CallRecords
  <2> QED
    BY <2>2, <2>4 DEF OrganizeTyped
<1>8. CASE Organize!Erase(c)
  <2>1. /\ organizeRow' = [organizeRow EXCEPT !.status = "gone"]
        /\ organizeCall' = [organizeCall EXCEPT ![c] = Organize!Idle]
        /\ UNCHANGED <<organizeFile, organizeMarked, organizeStop, organizeProgress, organizeRunner,
                       organizePlans, organizeEdits, organizeApplied, organizeAgain>>
    BY <1>8 DEF Organize!Erase, Organize!Return, Organize!ownVars, Organize!bounds
  <2>2. organizeCall' \in [OrganizeCallers -> CallRecords] /\ OrganizeShape'
    BY <2>1, OrganizeReturn
  <2>3. organizeRow' \in Organize!Rows
    BY <2>1, OrganizeRows, OrganizeTypes DEF OrganizeTyped
  <2>4. Organize!TypeOK'
    BY <2>1, <2>2, <2>3 DEF OrganizeTyped, Organize!TypeOK, CallRecords
  <2> QED
    BY <2>2, <2>4 DEF OrganizeTyped
<1> QED
  BY <1>1, <1>2, <1>3, <1>4, <1>5, <1>6, <1>7, <1>8 DEF Organize!Handles

\* Steps of a runner that store the row it has read, or change a flag or the file.
LEMMA OrganizeMoves ==
  ASSUME OrganizeTyped, NEW g \in Organize!Goroutines, Runs(g), NEW at \in RunnerSteps \ {"none"},
         Organize!To(g, at),
         \/ UNCHANGED organizeRow \/ \E status \in Organize!Status : Organize!Mine(g, status),
         organizeFile' \in {organizeFile, Organize!NoPlan},
         organizeStop' \in BOOLEAN, organizeProgress' \in BOOLEAN,
         UNCHANGED <<organizeCall, organizeMarked, organizePlans, organizeEdits>>,
         organizeApplied' \subseteq 1..MaxPlans, organizeAgain' \in BOOLEAN
  PROVE  OrganizeTyped'
<1>1. organizeRunner' \in [Organize!Goroutines -> RunnerRecords] /\ OrganizeShape'
  BY OrganizeTo
<1>2. organizeRow' \in Organize!Rows
  <2>1. organizeRow \in Organize!Rows /\ organizeRunner[g].row \in Organize!Rows
    BY OrganizeTypes, OrganizeFields DEF OrganizeTyped
  <2>2. \A status \in Organize!Status : [organizeRunner[g].row EXCEPT !.status = status] \in Organize!Rows
    BY <2>1, OrganizeRows
  <2> QED
    BY <2>1, <2>2 DEF Organize!Mine, Organize!Store
<1>3. organizeFile' \in Organize!Plans
  BY OrganizeTypes, OrganizeRecords DEF OrganizeTyped
<1>4. Organize!TypeOK'
  BY <1>1, <1>2, <1>3 DEF OrganizeTyped, Organize!TypeOK, RunnerRecords, RunnerSteps
<1> QED
  BY <1>1, <1>4 DEF OrganizeTyped

LEMMA OrganizeSaves ==
  ASSUME OrganizeTyped, NEW g \in Organize!Goroutines, Organize!SavePlan(g)
  PROVE  OrganizeTyped'
<1> DEFINE plan == [id |-> organizePlans + 1, cfg |-> organizeRunner[g].row.cfg]
           at == IF organizeRunner[g].kind = "plan" THEN "finish" ELSE "enter"
           r == [organizeRunner[g] EXCEPT !.plan = plan, !.at = at]
<1>1. /\ organizeRunner[g].at = "save" /\ organizePlans < MaxPlans
      /\ organizeFile' = plan /\ organizePlans' = organizePlans + 1
      /\ organizeRunner' = [organizeRunner EXCEPT ![g] = r]
      /\ UNCHANGED <<organizeRow, organizeMarked, organizeStop, organizeProgress, organizeCall,
                     organizeEdits, organizeApplied, organizeAgain>>
  BY DEF Organize!SavePlan, Organize!ownVars
<1>2. /\ organizeRunner[g] \in RunnerRecords /\ organizeRunner[g].row.cfg \in 0..MaxEdits
      /\ organizePlans \in 0..MaxPlans /\ organizeRunner \in [Organize!Goroutines -> RunnerRecords]
  BY OrganizeFields, OrganizeTypes DEF OrganizeTyped, Organize!Rows
<1>3. organizePlans + 1 \in 0..MaxPlans
  BY <1>1, <1>2, JobsAssumption
<1>4. plan \in Organize!Plans
  BY <1>2, <1>3 DEF Organize!Plans
<1> HIDE DEF plan
<1>5. r \in RunnerRecords /\ r.at # "none"
  BY <1>2, <1>4 DEF RunnerRecords, RunnerSteps
<1> HIDE DEF r
<1>6. organizeRunner' \in [Organize!Goroutines -> RunnerRecords]
  BY <1>1, <1>2, <1>5
<1>7. \A h \in Organize!Goroutines : organizeRunner'[h] = IF h = g THEN r ELSE organizeRunner[h]
  BY <1>1, <1>2
<1>8. OrganizeShape'
  BY <1>1, <1>5, <1>7 DEF OrganizeTyped, OrganizeShape, Runs
<1>9. Organize!TypeOK'
  BY <1>1, <1>3, <1>4, <1>6 DEF OrganizeTyped, Organize!TypeOK, RunnerRecords, RunnerSteps
<1> QED
  BY <1>8, <1>9 DEF OrganizeTyped

LEMMA OrganizeUnmarks ==
  ASSUME OrganizeTyped, NEW g \in Organize!Goroutines, Organize!Unmark(g)
  PROVE  OrganizeTyped'
<1>1. /\ organizeRunner[g].at = "unmark" /\ organizeMarked' = FALSE
      /\ organizeRunner' = [organizeRunner EXCEPT ![g] = Organize!NoRunner]
      /\ UNCHANGED <<organizeRow, organizeFile, organizeStop, organizeProgress, organizeCall,
                     organizePlans, organizeEdits, organizeApplied, organizeAgain>>
  BY DEF Organize!Unmark, Organize!bounds
<1>2. organizeRunner \in [Organize!Goroutines -> RunnerRecords]
  BY OrganizeTypes DEF OrganizeTyped
<1>3. organizeRunner' \in [Organize!Goroutines -> RunnerRecords]
  BY <1>1, <1>2, OrganizeRecords
<1>4. \A h \in Organize!Goroutines :
        organizeRunner'[h] = IF h = g THEN Organize!NoRunner ELSE organizeRunner[h]
  BY <1>1, <1>2
<1>5. OrganizeShape'
  BY <1>1, <1>4, OrganizeRecords DEF OrganizeTyped, OrganizeShape, Runs
<1>6. organizeMarked' \in BOOLEAN
  BY <1>1
<1>7. Organize!TypeOK'
  BY <1>1, <1>3, <1>6 DEF OrganizeTyped, Organize!TypeOK, RunnerRecords, RunnerSteps
<1> QED
  BY <1>5, <1>7 DEF OrganizeTyped

LEMMA OrganizeRuns ==
  ASSUME OrganizeTyped, OrganizeReal, NEW g \in Organize!Goroutines, Organize!RunnerStep(g)
  PROVE  OrganizeTyped'
<1> USE DEF RunnerSteps, Organize!ownVars, Organize!bounds, Organize!Status
<1>0. /\ organizeApplied \subseteq 1..MaxPlans /\ organizeAgain \in BOOLEAN
      /\ organizeStop \in BOOLEAN /\ organizeProgress \in BOOLEAN
  BY OrganizeTypes DEF OrganizeTyped
<1>1. CASE Organize!Begin(g)
  BY <1>0, <1>1, OrganizeMoves DEF Organize!Begin, Runs
<1>2. CASE Organize!Build(g)
  BY <1>0, <1>2, OrganizeMoves DEF Organize!Build, Runs
<1>3. CASE Organize!SavePlan(g)
  BY <1>3, OrganizeSaves
<1>4. CASE Organize!Finish(g)
  BY <1>0, <1>4, OrganizeMoves DEF Organize!Finish, Runs
<1>5. CASE Organize!Settle(g)
  BY <1>0, <1>5, OrganizeMoves DEF Organize!Settle, Runs
<1>6. CASE Organize!Rest(g)
  BY <1>0, <1>6, OrganizeMoves DEF Organize!Rest, Runs
<1>7. CASE Organize!Enter(g)
  <2>1. organizeRunner[g].plan.id \in 1..MaxPlans
    BY <1>7, OrganizeFields, JobsAssumption DEF Organize!Enter, OrganizeReal, Organize!Plans
  <2>2. organizeApplied' \subseteq 1..MaxPlans
    BY <1>0, <1>7, <2>1 DEF Organize!Enter
  <2>3. organizeAgain' \in BOOLEAN
    BY <1>0, <1>7 DEF Organize!Enter
  <2> QED
    BY <1>0, <1>7, <2>2, <2>3, OrganizeMoves DEF Organize!Enter, Runs
<1>8. CASE Organize!Apply(g)
  BY <1>0, <1>8, OrganizeMoves DEF Organize!Apply, Runs
<1>9. CASE Organize!Discard(g)
  BY <1>0, <1>9, OrganizeMoves DEF Organize!Discard, Runs
<1>10. CASE Organize!Result(g)
  BY <1>0, <1>10, OrganizeMoves DEF Organize!Result, Runs
<1>11. CASE Organize!Unplan(g)
  BY <1>0, <1>11, OrganizeMoves DEF Organize!Unplan, Runs
<1>12. CASE Organize!Unmark(g)
  BY <1>12, OrganizeUnmarks
<1> QED
  BY <1>1, <1>2, <1>3, <1>4, <1>5, <1>6, <1>7, <1>8, <1>9, <1>10, <1>11, <1>12
  DEF Organize!RunnerStep

-----------------------------------------------------------------------------
\* c has read the plan and found no runner.
AppliesPlan(c) ==
  organizeCall[c].at \in {"prepare", "start"} /\ organizeCall[c].op = "apply"

\* What a step of a handler does to plans and runners: it takes the plan from the
\* file while nobody runs, and starts a runner while nobody runs.
TakesPlan(c) ==
  AppliesPlan(c)' =>
    /\ UNCHANGED <<organizeRunner, organizeMarked, organizeFile>>
    /\ \/ AppliesPlan(c) /\ organizeCall'[c].plan = organizeCall[c].plan
       \/ ~organizeMarked /\ organizeCall'[c].plan = organizeFile /\ organizeFile # Organize!NoPlan
StartsWith(c, g) ==
  /\ ~organizeMarked /\ organizeFile' = organizeFile
  /\ organizeRunner'[g].at \in {"begin", "enter"}
  /\ organizeRunner'[g].at = "enter" =>
       AppliesPlan(c) /\ organizeRunner'[g].plan = organizeCall[c].plan
HandlerEffect(c) ==
  /\ UNCHANGED <<organizePlans, organizeApplied, organizeAgain>>
  /\ \A d \in OrganizeCallers \ {c} : organizeCall'[d] = organizeCall[d]
  /\ organizeFile' \in {organizeFile, Organize!NoPlan}
  /\ TakesPlan(c)
  /\ \/ UNCHANGED <<organizeRunner, organizeMarked>>
     \/ \A g \in Organize!Goroutines : organizeRunner'[g] = organizeRunner[g] \/ StartsWith(c, g)

LEMMA OrganizeHandlerEffect ==
  ASSUME OrganizeTyped, NEW c \in OrganizeCallers,
         Organize!Handles(c) \/ \E op \in Organize!Ops : Organize!Get(c, op)
  PROVE  HandlerEffect(c)
<1> USE DEF HandlerEffect, TakesPlan, AppliesPlan, Organize!ownVars, Organize!bounds
<1>0. organizeCall \in [OrganizeCallers -> CallRecords] /\ organizeCall[c] \in CallRecords
      /\ organizeRunner \in [Organize!Goroutines -> RunnerRecords]
  BY OrganizeTypes, OrganizeFields DEF OrganizeTyped
\* steps after which c is neither about to prepare nor about to start
<1>1. ASSUME NEW r, organizeCall' = [organizeCall EXCEPT ![c] = r],
             r.at \notin {"prepare", "start"},
             UNCHANGED <<organizePlans, organizeApplied, organizeAgain, organizeRunner, organizeMarked>>,
             organizeFile' \in {organizeFile, Organize!NoPlan}
      PROVE  HandlerEffect(c)
  <2>1. organizeCall'[c] = r /\ \A d \in OrganizeCallers \ {c} : organizeCall'[d] = organizeCall[d]
    BY <1>0, <1>1
  <2> QED
    BY <1>1, <2>1
<1>2. ASSUME NEW at, organizeCall' = [organizeCall EXCEPT ![c].at = at],
             at \notin {"prepare", "start"},
             UNCHANGED <<organizePlans, organizeApplied, organizeAgain, organizeRunner, organizeMarked>>,
             organizeFile' \in {organizeFile, Organize!NoPlan}
      PROVE  HandlerEffect(c)
  <2>1. [organizeCall[c] EXCEPT !.at = at].at = at
    BY <1>0 DEF CallRecords
  <2> QED
    BY <1>1, <1>2, <2>1
\* steps that only lead to the next step on the way to a runner
<1>3. ASSUME NEW at, organizeCall' = [organizeCall EXCEPT ![c].at = at],
             organizeCall[c].op # "apply" \/ organizeCall[c].at = "prepare",
             UNCHANGED <<organizePlans, organizeApplied, organizeAgain, organizeRunner, organizeMarked,
                         organizeFile>>
      PROVE  HandlerEffect(c)
  <2> DEFINE r == [organizeCall[c] EXCEPT !.at = at]
  <2>1. r.op = organizeCall[c].op /\ r.plan = organizeCall[c].plan
    BY <1>0 DEF CallRecords
  <2>2. organizeCall' = [organizeCall EXCEPT ![c] = r]
    BY <1>3
  <2> HIDE DEF r
  <2>3. organizeCall'[c] = r /\ \A d \in OrganizeCallers \ {c} : organizeCall'[d] = organizeCall[d]
    BY <1>0, <2>2
  <2> QED
    BY <1>3, <2>1, <2>3
<1>4. CASE \E op \in Organize!Ops : Organize!Get(c, op)
  <2>1. PICK op \in Organize!Ops : Organize!Get(c, op)
    BY <1>4
  <2> DEFINE r == [at |-> IF op = "update" THEN "store" ELSE "check",
                   op |-> op, row |-> organizeRow, plan |-> Organize!NoPlan]
  <2>2. organizeCall' = [organizeCall EXCEPT ![c] = r] /\ r.at \notin {"prepare", "start"}
        /\ UNCHANGED <<organizePlans, organizeApplied, organizeAgain, organizeRunner, organizeMarked,
                       organizeFile>>
    BY <2>1 DEF Organize!Get
  <2> HIDE DEF r
  <2> QED
    BY <1>1, <2>2
<1>5. CASE Organize!Check(c)
  <2> DEFINE op == organizeCall[c].op
             r == [organizeCall[c] EXCEPT !.at = "prepare", !.plan = organizeFile]
  <2>1. UNCHANGED <<organizePlans, organizeApplied, organizeAgain, organizeRunner, organizeMarked,
                    organizeFile>>
    BY <1>5 DEF Organize!Check
  <2>2. op \in Organize!Ops /\ op # "update"
    BY <1>5, OrganizeFields DEF Organize!Check, OrganizeTyped, OrganizeShape
  <2>3. CASE Organize!Return(c)
    BY <1>1, <2>1, <2>3, OrganizeRecords DEF Organize!Return
  <2>4. CASE \E at \in {"request", "unplan"} : Organize!Goto(c, at)
    BY <1>2, <2>1, <2>4 DEF Organize!Goto
  <2>5. CASE op # "apply" /\ Organize!Goto(c, "prepare")
    BY <1>3, <2>1, <2>5 DEF Organize!Goto
  <2>6. CASE /\ organizeCall' = [organizeCall EXCEPT ![c] = r]
             /\ ~organizeMarked /\ organizeFile # Organize!NoPlan
    <3>1. r.plan = organizeFile
      BY <1>0 DEF CallRecords
    <3> HIDE DEF r
    <3>2. organizeCall'[c] = r /\ \A d \in OrganizeCallers \ {c} : organizeCall'[d] = organizeCall[d]
      BY <1>0, <2>6
    <3> QED
      BY <2>1, <2>6, <3>1, <3>2
  <2>7. op \in {"plan", "run"} => Organize!Return(c) \/ Organize!Goto(c, "prepare")
    BY <1>5 DEF Organize!Check
  <2>8. op = "apply" => \/ Organize!Return(c)
                        \/ /\ organizeCall' = [organizeCall EXCEPT ![c] = r]
                           /\ ~organizeMarked /\ organizeFile # Organize!NoPlan
    BY <1>5 DEF Organize!Check, Organize!Busy
  <2>9. op \in {"stop", "delete"} => Organize!Return(c) \/ Organize!Goto(c, "request")
                                     \/ Organize!Goto(c, "unplan")
    BY <1>5 DEF Organize!Check
  <2> HIDE DEF r
  <2> QED
    BY <2>2, <2>3, <2>4, <2>5, <2>6, <2>7, <2>8, <2>9 DEF Organize!Ops
<1>6. CASE Organize!Prepare(c)
  BY <1>3, <1>6 DEF Organize!Prepare, Organize!Goto
<1>7. CASE Organize!StartRunner(c)
  <2> DEFINE r == [at |-> IF organizeCall[c].op = "apply" THEN "enter" ELSE "begin",
                   kind |-> organizeCall[c].op, row |-> organizeCall[c].row,
                   plan |-> organizeCall[c].plan]
  <2>1. /\ organizeCall[c].at = "start" /\ organizeCall' = [organizeCall EXCEPT ![c] = Organize!Idle]
        /\ UNCHANGED <<organizeFile, organizePlans, organizeApplied, organizeAgain>>
    BY <1>7 DEF Organize!StartRunner, Organize!Return
  <2>2. \/ UNCHANGED <<organizeMarked, organizeRunner>>
        \/ ~organizeMarked /\ \E g \in Organize!Goroutines : organizeRunner' = [organizeRunner EXCEPT ![g] = r]
    BY <1>7 DEF Organize!StartRunner
  <2>3. CASE UNCHANGED <<organizeMarked, organizeRunner>>
    BY <1>1, <2>1, <2>3, OrganizeRecords
  <2>4. CASE ~organizeMarked
             /\ \E g \in Organize!Goroutines : organizeRunner' = [organizeRunner EXCEPT ![g] = r]
    <3>1. PICK g \in Organize!Goroutines : organizeRunner' = [organizeRunner EXCEPT ![g] = r]
      BY <2>4
    <3>2. /\ r.at = IF organizeCall[c].op = "apply" THEN "enter" ELSE "begin"
          /\ r.plan = organizeCall[c].plan
      OBVIOUS
    <3> HIDE DEF r
    <3>3. \A h \in Organize!Goroutines : organizeRunner'[h] = IF h = g THEN r ELSE organizeRunner[h]
      BY <1>0, <3>1
    <3>4. \A h \in Organize!Goroutines : organizeRunner'[h] = organizeRunner[h] \/ StartsWith(c, h)
      BY <2>1, <2>4, <3>2, <3>3 DEF StartsWith
    <3>5. organizeCall'[c].at = "idle" /\ \A d \in OrganizeCallers \ {c} : organizeCall'[d] = organizeCall[d]
      BY <1>0, <2>1, OrganizeRecords
    <3> QED
      BY <2>1, <3>4, <3>5
  <2> QED
    BY <2>2, <2>3, <2>4
<1>8. CASE Organize!RequestStop(c) \/ Organize!UpdateTask(c) \/ Organize!DiscardStop(c)
  <2>1. CASE Organize!UpdateTask(c) /\ organizeRow.status = "gone"
    BY <1>1, <2>1, OrganizeRecords DEF Organize!UpdateTask, Organize!Return
  <2>2. CASE ~(Organize!UpdateTask(c) /\ organizeRow.status = "gone")
    BY <1>2, <1>8, <2>2
    DEF Organize!RequestStop, Organize!UpdateTask, Organize!DiscardStop, Organize!Goto
  <2> QED BY <2>1, <2>2
<1>9. CASE Organize!DeletePlanFile(c)
  <2>1. CASE organizeCall[c].op = "delete"
    BY <1>2, <1>9, <2>1 DEF Organize!DeletePlanFile, Organize!Goto
  <2>2. CASE organizeCall[c].op # "delete"
    BY <1>1, <1>9, <2>2, OrganizeRecords DEF Organize!DeletePlanFile, Organize!Return
  <2> QED BY <2>1, <2>2
<1>10. CASE Organize!Erase(c)
  BY <1>1, <1>10, OrganizeRecords DEF Organize!Erase, Organize!Return
<1> QED
  BY <1>4, <1>5, <1>6, <1>7, <1>8, <1>9, <1>10 DEF Organize!Handles

\* What a step of a runner does to plans: it saves one with a new number, begins or
\* goes on carrying one out, removes the file afterwards, or none of these.
Applying == {"apply", "discard", "result", "unplan"}
Saves(g) ==
  /\ organizePlans' = organizePlans + 1 /\ organizeFile'.id = organizePlans + 1
  /\ organizeRunner'[g].at \in {"finish", "enter"} /\ organizeRunner'[g].plan = organizeFile'
  /\ UNCHANGED <<organizeApplied, organizeAgain>>
Begins(g) ==
  /\ organizeRunner[g].at = "enter" /\ organizeRunner'[g].at = "apply"
  /\ organizeApplied' = organizeApplied \cup {organizeRunner[g].plan.id}
  /\ organizeAgain' = (organizeAgain \/ organizeRunner[g].plan.id \in organizeApplied)
  /\ UNCHANGED <<organizeFile, organizePlans>>
GoesOn(g) ==
  /\ organizeRunner'[g].at \in Applying
  /\ UNCHANGED <<organizeFile, organizePlans, organizeApplied, organizeAgain>>
Removes(g) ==
  /\ organizeRunner'[g].at = "unmark" /\ organizeFile' = Organize!NoPlan
  /\ UNCHANGED <<organizePlans, organizeApplied, organizeAgain>>
Otherwise(g) ==
  /\ organizeRunner[g].at \notin Applying /\ organizeRunner'[g].at # "enter"
  /\ UNCHANGED <<organizeFile, organizePlans, organizeApplied, organizeAgain>>
RunnerEffect(g) ==
  /\ organizeMarked /\ UNCHANGED organizeCall
  /\ \A h \in Organize!Goroutines \ {g} : organizeRunner'[h] = organizeRunner[h]
  /\ Saves(g) \/ Begins(g) \/ GoesOn(g) \/ Removes(g) \/ Otherwise(g)

LEMMA OrganizeRunnerEffect ==
  ASSUME OrganizeTyped, NEW g \in Organize!Goroutines, Organize!RunnerStep(g)
  PROVE  RunnerEffect(g)
<1> USE DEF Organize!ownVars, Organize!bounds
<1>0. organizeRunner \in [Organize!Goroutines -> RunnerRecords] /\ organizeRunner[g] \in RunnerRecords
  BY OrganizeTypes, OrganizeFields DEF OrganizeTyped
<1>1. organizeMarked /\ UNCHANGED organizeCall
  <2>1. Runs(g)
    BY DEF Organize!RunnerStep, Organize!Begin, Organize!Build, Organize!SavePlan,
       Organize!Finish, Organize!Settle, Organize!Rest, Organize!Enter, Organize!Apply,
       Organize!Discard, Organize!Result, Organize!Unplan, Organize!Unmark, Runs
  <2>2. UNCHANGED organizeCall
    BY DEF Organize!RunnerStep, Organize!Begin, Organize!Build, Organize!SavePlan,
       Organize!Finish, Organize!Settle, Organize!Rest, Organize!Enter, Organize!Apply,
       Organize!Discard, Organize!Result, Organize!Unplan, Organize!Unmark
  <2> QED
    BY <2>1, <2>2 DEF OrganizeTyped, OrganizeShape
<1>2. ASSUME NEW at, Organize!To(g, at)
      PROVE  /\ organizeRunner'[g].at = at
             /\ \A h \in Organize!Goroutines \ {g} : organizeRunner'[h] = organizeRunner[h]
  <2> DEFINE r == [organizeRunner[g] EXCEPT !.at = at]
  <2>1. r.at = at
    BY <1>0 DEF RunnerRecords
  <2>2. organizeRunner' = [organizeRunner EXCEPT ![g] = r]
    BY <1>2 DEF Organize!To
  <2> HIDE DEF r
  <2> QED
    BY <1>0, <2>1, <2>2
\* steps that neither make nor carry out a plan
<1>3. ASSUME organizeRunner[g].at \notin Applying, NEW at, at # "enter", Organize!To(g, at),
             UNCHANGED <<organizeFile, organizePlans, organizeApplied, organizeAgain>>
      PROVE  RunnerEffect(g)
  BY <1>1, <1>2, <1>3 DEF RunnerEffect, Otherwise
<1>4. CASE Organize!Begin(g) \/ Organize!Build(g) \/ Organize!Finish(g) \/ Organize!Settle(g)
           \/ Organize!Rest(g)
  BY <1>3, <1>4 DEF Organize!Begin, Organize!Build, Organize!Finish, Organize!Settle,
     Organize!Rest, Applying
<1>5. CASE Organize!SavePlan(g)
  <2> DEFINE plan == [id |-> organizePlans + 1, cfg |-> organizeRunner[g].row.cfg]
             at == IF organizeRunner[g].kind = "plan" THEN "finish" ELSE "enter"
             r == [organizeRunner[g] EXCEPT !.plan = plan, !.at = at]
  <2>1. /\ organizeFile' = plan /\ organizePlans' = organizePlans + 1
        /\ organizeRunner' = [organizeRunner EXCEPT ![g] = r]
        /\ UNCHANGED <<organizeApplied, organizeAgain>>
    BY <1>5 DEF Organize!SavePlan
  <2>2. r.plan = plan /\ r.at \in {"finish", "enter"} /\ plan.id = organizePlans + 1
    BY <1>0 DEF RunnerRecords
  <2> HIDE DEF plan, r
  <2>3. organizeRunner'[g] = r
        /\ \A h \in Organize!Goroutines \ {g} : organizeRunner'[h] = organizeRunner[h]
    BY <1>0, <2>1
  <2> QED
    BY <1>1, <2>1, <2>2, <2>3 DEF RunnerEffect, Saves
<1>6. CASE Organize!Enter(g)
  BY <1>1, <1>2, <1>6 DEF Organize!Enter, RunnerEffect, Begins
<1>7. CASE Organize!Apply(g) \/ Organize!Discard(g) \/ Organize!Result(g)
  BY <1>1, <1>2, <1>7 DEF Organize!Apply, Organize!Discard, Organize!Result, RunnerEffect, GoesOn,
     Applying
<1>8. CASE Organize!Unplan(g)
  BY <1>1, <1>2, <1>8 DEF Organize!Unplan, RunnerEffect, Removes
<1>9. CASE Organize!Unmark(g)
  <2>1. organizeRunner'[g] = Organize!NoRunner
        /\ \A h \in Organize!Goroutines \ {g} : organizeRunner'[h] = organizeRunner[h]
    BY <1>0, <1>9 DEF Organize!Unmark
  <2> QED
    BY <1>1, <1>9, <2>1, OrganizeRecords DEF Organize!Unmark, RunnerEffect, Otherwise, Applying
<1> QED
  BY <1>4, <1>5, <1>6, <1>7, <1>8, <1>9 DEF Organize!RunnerStep

-----------------------------------------------------------------------------
OrganizeInv == OrganizeTyped /\ OrganizeReal

LEMMA OrganizeInvInit == Organize!Init => OrganizeInv
<1> SUFFICES ASSUME Organize!Init PROVE OrganizeInv
  OBVIOUS
<1>1. OrganizeReal
  BY OrganizeRecords DEF OrganizeReal, Organize!Init
<1> QED
  BY <1>1, OrganizeInit DEF OrganizeInv

LEMMA OrganizeInvNext == OrganizeInv /\ [Organize!Next]_organizeVars => OrganizeInv'
<1> SUFFICES ASSUME OrganizeInv, [Organize!Next]_organizeVars PROVE OrganizeInv'
  OBVIOUS
<1> USE DEF OrganizeInv
<1>1. ASSUME NEW c \in OrganizeCallers,
             Organize!Handles(c) \/ \E op \in Organize!Ops : Organize!Get(c, op)
      PROVE  OrganizeInv'
  <2>1. OrganizeTyped'
    BY <1>1, OrganizeHandles, OrganizeGet
  <2>2. HandlerEffect(c)
    BY <1>1, OrganizeHandlerEffect
  <2>3. \A d \in OrganizeCallers : AppliesPlan(d)' => organizeCall'[d].plan.id # 0
    BY <2>2 DEF HandlerEffect, TakesPlan, AppliesPlan, OrganizeReal
  <2>4. \A g \in Organize!Goroutines :
          organizeRunner'[g].at = "enter" => organizeRunner'[g].plan.id # 0
    BY <2>2 DEF HandlerEffect, StartsWith, AppliesPlan, OrganizeReal
  <2>5. OrganizeReal'
    BY <2>2, <2>3, <2>4 DEF HandlerEffect, AppliesPlan, OrganizeReal
  <2> QED
    BY <2>1, <2>5
<1>2. ASSUME NEW g \in Organize!Goroutines, Organize!RunnerStep(g)
      PROVE  OrganizeInv'
  <2>1. OrganizeTyped'
    BY <1>2, OrganizeRuns
  <2>2. RunnerEffect(g)
    BY <1>2, OrganizeRunnerEffect
  <2>3. organizePlans + 1 # 0
    BY OrganizeTypes DEF OrganizeTyped
  <2>4. organizeFile' = Organize!NoPlan \/ organizeFile'.id # 0
    BY <2>2, <2>3 DEF RunnerEffect, Saves, Begins, GoesOn, Removes, Otherwise, OrganizeReal
  <2>5. organizeRunner'[g].at = "enter" => organizeRunner'[g].plan.id # 0
    BY <2>2, <2>3 DEF RunnerEffect, Saves, Begins, GoesOn, Removes, Otherwise, Applying
  <2>6. OrganizeReal'
    BY <2>2, <2>4, <2>5 DEF RunnerEffect, OrganizeReal
  <2> QED
    BY <2>1, <2>6
<1>3. CASE UNCHANGED organizeVars
  BY <1>3 DEF organizeVars, OrganizeTyped, OrganizeReal, OrganizeShape, Runs, Organize!TypeOK
<1> QED
  BY <1>1, <1>2, <1>3 DEF Organize!Next

\* Plans are numbered in the order in which they are saved.
OrganizeNumbered ==
  /\ organizeApplied \subseteq 1..organizePlans
  /\ organizeFile = Organize!NoPlan \/ organizeFile.id \in 1..organizePlans

\* The plan that somebody is about to carry out has not been carried out: the file
\* of one that has been is removed by the runner that did, and a caller that has
\* read the file and found no runner is the only one who could start one.
OrganizeFresh ==
  /\ organizeFile.id \in organizeApplied =>
       \E g \in Organize!Goroutines : organizeRunner[g].at \in Applying
  /\ \A g \in Organize!Goroutines :
       organizeRunner[g].at = "enter" =>
          organizeRunner[g].plan.id \in 1..organizePlans \ organizeApplied
  /\ \A c \in OrganizeCallers :
       AppliesPlan(c) => /\ ~organizeMarked /\ organizeCall[c].plan = organizeFile
                         /\ organizeFile # Organize!NoPlan
  /\ ~organizeAgain

PlansInv == OrganizeInv /\ OrganizeNumbered /\ OrganizeFresh

\* One caller at a time: nobody starts a runner between another one's look at the
\* plan and its start.
OneOrganizer == \A c, d \in OrganizeCallers : c = d

LEMMA PlansInit == Organize!Init => PlansInv
<1> SUFFICES ASSUME Organize!Init PROVE PlansInv
  OBVIOUS
<1>1. OrganizeNumbered
  BY DEF OrganizeNumbered, Organize!Init
<1>2. OrganizeFresh
  BY OrganizeRecords DEF OrganizeFresh, Organize!Init, AppliesPlan
<1> QED
  BY <1>1, <1>2, OrganizeInvInit DEF PlansInv

LEMMA PlansHandler ==
  ASSUME OneOrganizer, PlansInv, OrganizeInv', NEW c \in OrganizeCallers, HandlerEffect(c)
  PROVE  OrganizeNumbered' /\ OrganizeFresh'
<1>1. /\ UNCHANGED <<organizePlans, organizeApplied, organizeAgain>>
      /\ organizeFile' \in {organizeFile, Organize!NoPlan} /\ TakesPlan(c)
      /\ \/ UNCHANGED <<organizeRunner, organizeMarked>>
         \/ \A g \in Organize!Goroutines : organizeRunner'[g] = organizeRunner[g] \/ StartsWith(c, g)
  BY DEF HandlerEffect
<1>2. OrganizeNumbered'
  BY <1>1 DEF PlansInv, OrganizeNumbered
<1>3. Organize!NoPlan.id = 0 /\ 0 \notin organizeApplied
  BY DEF PlansInv, OrganizeNumbered, Organize!NoPlan
<1>4. \A g \in Organize!Goroutines : Runs(g) => organizeMarked
  BY DEF PlansInv, OrganizeInv, OrganizeTyped, OrganizeShape
\* A runner that is there goes on.
<1>5. \A g \in Organize!Goroutines : Runs(g) => organizeRunner'[g] = organizeRunner[g]
  BY <1>1, <1>4 DEF StartsWith
<1>6. organizeFile'.id \in organizeApplied' =>
        \E g \in Organize!Goroutines : organizeRunner'[g].at \in Applying
  <2> SUFFICES ASSUME organizeFile'.id \in organizeApplied'
               PROVE  \E g \in Organize!Goroutines : organizeRunner'[g].at \in Applying
    OBVIOUS
  <2>1. organizeFile' = organizeFile /\ organizeFile.id \in organizeApplied
    BY <1>1, <1>3
  <2>2. PICK g \in Organize!Goroutines : organizeRunner[g].at \in Applying
    BY <2>1 DEF PlansInv, OrganizeFresh
  <2> QED
    BY <1>5, <2>2 DEF Applying, Runs
<1>7. ASSUME NEW g \in Organize!Goroutines, organizeRunner'[g].at = "enter"
      PROVE  organizeRunner'[g].plan.id \in 1..organizePlans' \ organizeApplied'
  <2>1. CASE organizeRunner'[g] = organizeRunner[g]
    BY <1>1, <1>7, <2>1 DEF PlansInv, OrganizeFresh
  <2>2. CASE StartsWith(c, g)
    <3>1. AppliesPlan(c) /\ organizeRunner'[g].plan = organizeFile /\ organizeFile # Organize!NoPlan
      BY <1>7, <2>2 DEF StartsWith, PlansInv, OrganizeFresh
    <3>2. \A h \in Organize!Goroutines : organizeRunner[h].at \notin Applying
      BY <1>4, <2>2 DEF StartsWith, Runs, Applying
    <3>3. organizeFile.id \in 1..organizePlans \ organizeApplied
      BY <3>1, <3>2 DEF PlansInv, OrganizeFresh, OrganizeNumbered
    <3> QED
      BY <1>1, <3>1, <3>3
  <2> QED
    BY <1>1, <2>1, <2>2
<1>8. ASSUME NEW d \in OrganizeCallers, AppliesPlan(d)'
      PROVE  /\ ~organizeMarked' /\ organizeCall'[d].plan = organizeFile'
             /\ organizeFile' # Organize!NoPlan
  <2>1. AppliesPlan(c)' /\ d = c
    BY <1>8 DEF OneOrganizer
  <2>2. /\ UNCHANGED <<organizeMarked, organizeFile>>
        /\ \/ AppliesPlan(c) /\ organizeCall'[c].plan = organizeCall[c].plan
           \/ ~organizeMarked /\ organizeCall'[c].plan = organizeFile /\ organizeFile # Organize!NoPlan
    BY <1>1, <2>1 DEF TakesPlan
  <2> QED
    BY <2>1, <2>2 DEF PlansInv, OrganizeFresh
<1>9. ~organizeAgain'
  BY <1>1 DEF PlansInv, OrganizeFresh
<1> QED
  BY <1>2, <1>6, <1>7, <1>8, <1>9 DEF OrganizeFresh

LEMMA PlansRunner ==
  ASSUME PlansInv, OrganizeInv', NEW g \in Organize!Goroutines, Runs(g), RunnerEffect(g)
  PROVE  OrganizeNumbered' /\ OrganizeFresh'
<1>0. organizePlans \in Nat /\ organizeApplied \subseteq 1..organizePlans
  BY OrganizeTypes DEF PlansInv, OrganizeInv, OrganizeTyped, OrganizeNumbered
<1>1. /\ organizeMarked /\ UNCHANGED organizeCall
      /\ Saves(g) \/ Begins(g) \/ GoesOn(g) \/ Removes(g) \/ Otherwise(g)
  BY DEF RunnerEffect
<1>2. \A c \in OrganizeCallers : ~AppliesPlan(c)
  BY <1>1 DEF PlansInv, OrganizeFresh
<1>3. \A c \in OrganizeCallers : ~AppliesPlan(c)'
  BY <1>1, <1>2 DEF AppliesPlan
\* Nobody else runs.
<1>4. \A h \in Organize!Goroutines \ {g} : organizeRunner'[h] = organizeRunner[h] /\ ~Runs(h)
  BY DEF RunnerEffect, PlansInv, OrganizeInv, OrganizeTyped, OrganizeShape
<1>5. \A h \in Organize!Goroutines \ {g} : organizeRunner'[h].at = "none"
  BY <1>4 DEF Runs
<1>6. organizeFile.id \in organizeApplied => organizeRunner[g].at \in Applying
  <2>1. \A h \in Organize!Goroutines \ {g} : organizeRunner[h].at \notin Applying
    BY <1>4 DEF Runs, Applying
  <2> QED
    BY <2>1 DEF PlansInv, OrganizeFresh
<1>7. SUFFICES /\ OrganizeNumbered' /\ ~organizeAgain'
               /\ organizeFile'.id \in organizeApplied' => organizeRunner'[g].at \in Applying
               /\ organizeRunner'[g].at = "enter" =>
                    organizeRunner'[g].plan.id \in 1..organizePlans' \ organizeApplied'
  BY <1>3, <1>5 DEF OrganizeFresh
<1>8. Organize!NoPlan.id = 0
  BY DEF Organize!NoPlan
<1>9. CASE Saves(g)
  <2>1. organizePlans + 1 \notin organizeApplied /\ organizePlans + 1 \in 1..(organizePlans + 1)
    BY <1>0
  <2>2. organizeApplied \subseteq 1..(organizePlans + 1)
    BY <1>0
  <2> QED
    BY <1>9, <2>1, <2>2 DEF Saves, OrganizeNumbered, PlansInv, OrganizeFresh
<1>10. CASE Begins(g)
  <2>1. organizeRunner[g].plan.id \in 1..organizePlans \ organizeApplied
    BY <1>10 DEF Begins, PlansInv, OrganizeFresh
  <2>2. OrganizeNumbered'
    BY <1>10, <2>1 DEF Begins, PlansInv, OrganizeNumbered
  <2> QED
    BY <1>10, <2>1, <2>2 DEF Begins, PlansInv, OrganizeFresh, Applying
<1>11. CASE GoesOn(g)
  BY <1>11 DEF GoesOn, PlansInv, OrganizeNumbered, OrganizeFresh, Applying
<1>12. CASE Removes(g)
  BY <1>0, <1>8, <1>12 DEF Removes, PlansInv, OrganizeNumbered, OrganizeFresh
<1>13. CASE Otherwise(g)
  BY <1>6, <1>13 DEF Otherwise, PlansInv, OrganizeNumbered, OrganizeFresh
<1> QED
  BY <1>1, <1>9, <1>10, <1>11, <1>12, <1>13

LEMMA PlansNext ==
  ASSUME OneOrganizer PROVE PlansInv /\ [Organize!Next]_organizeVars => PlansInv'
<1> SUFFICES ASSUME PlansInv, [Organize!Next]_organizeVars PROVE PlansInv'
  OBVIOUS
<1>0. OrganizeInv' /\ OrganizeTyped
  BY OrganizeInvNext DEF PlansInv, OrganizeInv
<1>1. ASSUME NEW c \in OrganizeCallers,
             Organize!Handles(c) \/ \E op \in Organize!Ops : Organize!Get(c, op)
      PROVE  PlansInv'
  BY <1>0, <1>1, OrganizeHandlerEffect, PlansHandler DEF PlansInv
<1>2. ASSUME NEW g \in Organize!Goroutines, Organize!RunnerStep(g)
      PROVE  PlansInv'
  <2>1. Runs(g)
    BY <1>2 DEF Organize!RunnerStep, Organize!Begin, Organize!Build, Organize!SavePlan,
       Organize!Finish, Organize!Settle, Organize!Rest, Organize!Enter, Organize!Apply,
       Organize!Discard, Organize!Result, Organize!Unplan, Organize!Unmark, Runs
  <2> QED
    BY <1>0, <1>2, <2>1, OrganizeRunnerEffect, PlansRunner DEF PlansInv
<1>3. CASE UNCHANGED organizeVars
  BY <1>0, <1>3 DEF organizeVars, PlansInv, OrganizeNumbered, OrganizeFresh, AppliesPlan
<1> QED
  BY <1>1, <1>2, <1>3 DEF Organize!Next

\* The other components leave the organising task alone.
LEMMA OrganizeFocus ==
  /\ SumInit => Organize!Init
  /\ [SumNext]_sumVars => [Organize!Next]_organizeVars
BY DEF SumInit, SumNext, sumVars, organizeVars

\* However handlers and runners meet, an organising task has one runner: two would
\* move the same files (startRunner).
THEOREM OneOrganizeRunner == SumSpec => [](Organize!TypeOK /\ Organize!OneRunner)
<1>1. OrganizeInv => Organize!TypeOK /\ Organize!OneRunner
  <2> SUFFICES ASSUME OrganizeInv PROVE Organize!OneRunner
    BY DEF OrganizeInv, OrganizeTyped
  <2> DEFINE S == {g \in Organize!Goroutines : organizeRunner[g] # Organize!NoRunner}
  <2>1. \A g, h \in S : g = h
    BY DEF OrganizeInv, OrganizeTyped, OrganizeShape
  <2>2. S = {} \/ \E g : S = {g}
    BY <2>1
  <2> HIDE DEF S
  <2>3. Cardinality(S) = 0 \/ Cardinality(S) = 1
    BY <2>2, FS_EmptySet, FS_Singleton
  <2>4. Cardinality(S) = Organize!Cardinality(S)
    BY DEF Cardinality, Organize!Cardinality
  <2>5. Organize!Cardinality(S) <= 1
    BY <2>3, <2>4
  <2> QED
    BY <2>5 DEF Organize!OneRunner, S
<1> QED
  BY <1>1, OrganizeInvInit, OrganizeInvNext, OrganizeFocus, PTL DEF SumSpec

\* With one caller at a time a plan is carried out once (applyPlanRunner removes the
\* file before its runner gives the mark back).
THEOREM PlansAreCarriedOutOnce == ASSUME OneOrganizer PROVE SumSpec => []OnePlanOneRunner
<1>1. PlansInv => Organize!PlanAppliedOnce
  BY DEF PlansInv, OrganizeFresh, Organize!PlanAppliedOnce
<1>2. Organize!TypeOK /\ Organize!OneRunner /\ Organize!PlanAppliedOnce => OnePlanOneRunner
  BY DEF OnePlanOneRunner
<1> QED
  BY <1>1, <1>2, OneOrganizeRunner, PlansInit, PlansNext, OrganizeFocus, PTL DEF SumSpec

-----------------------------------------------------------------------------
(***************************************************************************)
(* StrmTasks                                                               *)
(***************************************************************************)
RunRecords == [at : Strm!Working, task : StrmIds, canceled : BOOLEAN, read : Strm!Status,
               owed : BOOLEAN]
Processes == StrmCallers \cup {Strm!Scheduler}
PendingCalls == [at : {"get", "put", "peek", "drop", "erase", "wipe", "start", "mark"},
                 op : StrmOps \cup {"tick"}, task : StrmIds, value : Strm!Status,
                 cancel : 0..StrmRuns]

Alive(i) == strmRun[i].at # "none"
On(i, t) == Alive(i) /\ strmRun[i].task = t
Waits(c) == strmCall[c].at # "idle"

\* c has taken the file lock of t: UpdateTask, or runTaskAsync before its marks.
Locks(c, t) ==
  Waits(c) /\ strmCall[c].task = t /\ (strmCall[c].op = "update" \/ strmCall[c].at = "mark")

\* What a handler is about to do fits what it was called for, and the cancel function
\* it holds is that of a goroutine that is there.
CallShape ==
  \A c \in Processes : Waits(c) =>
    /\ strmCall[c].op = "update" => strmCall[c].at \in {"get", "put"}
    /\ strmCall[c].at \in {"start", "mark"} => strmCall[c].op \in {"run", "tick"}
    /\ strmCall[c].at = "get" =>
         strmCall[c].op \in {"pause", "resume", "toggle", "update", "delete", "run"}
    /\ strmCall[c].cancel # 0 => strmRun[strmCall[c].cancel].at # "none"

\* The file lock of a task has one owner.
OneOwner ==
  \A t \in StrmIds :
    /\ \A i \in Strm!Slots : On(i, t) => t \in strmFiles
    /\ \A c \in Processes : Locks(c, t) => t \in strmFiles
    /\ \A i, j \in Strm!Slots : On(i, t) /\ On(j, t) => i = j
    /\ \A c, d \in Processes : Locks(c, t) /\ Locks(d, t) => c = d
    /\ \A i \in Strm!Slots, c \in Processes : ~(On(i, t) /\ Locks(c, t))

\* The marks of a task and of an account are those of a run that has not cleared them.
MarkedRuns ==
  /\ \A t \in strmMarks.running : \E i \in Strm!Slots : On(i, t) /\ strmRun[i].at \in Strm!Marked
  /\ \A a \in strmMarks.accounts :
       \E i \in Strm!Slots : strmRun[i].at \in Strm!Marked /\ StrmAccount[strmRun[i].task] = a
  /\ \A t \in StrmIds :
       LET i == strmMarks.cancel[t]
       IN  i # 0 => strmRun[i].at \in Strm!Marked /\ strmRun[i].task = t

StrmInv == Strm!TypeOK /\ CallShape /\ OneOwner /\ MarkedRuns

LEMMA StrmNone ==
  /\ Strm!Runs = RunRecords \cup {Strm!NoRun} /\ Strm!NoRun.at = "none"
  /\ Strm!Calls = PendingCalls \cup {Strm!Idle} /\ Strm!Idle.at = "idle"
  /\ "none" \notin Strm!Working /\ Strm!Marked \subseteq Strm!Working
<1>2. Strm!NoRun.at = "none" /\ Strm!Idle.at = "idle"
  BY DEF Strm!NoRun, Strm!Idle
<1>3. "none" \notin Strm!Working /\ Strm!Marked \subseteq Strm!Working
  BY DEF Strm!Working, Strm!Marked
<1>4. Strm!Runs = RunRecords \cup {Strm!NoRun}
  BY DEF Strm!Runs, RunRecords
<1>5. Strm!Calls = PendingCalls \cup {Strm!Idle}
  BY DEF Strm!Calls, PendingCalls
<1> QED
  BY <1>2, <1>3, <1>4, <1>5

\* What the types say of the goroutines and of the calls.
LEMMA StrmRecords ==
  ASSUME Strm!TypeOK
  PROVE  /\ strmRun \in [Strm!Slots -> Strm!Runs] /\ strmCall \in [Processes -> Strm!Calls]
         /\ \A i \in Strm!Slots :
              /\ Alive(i) => /\ strmRun[i] \in RunRecords /\ strmRun[i].task \in StrmIds
                             /\ strmRun[i].at \in Strm!Working
              /\ ~Alive(i) => strmRun[i] = Strm!NoRun
              /\ strmRun[i].at \in Strm!Marked => Alive(i)
         /\ \A c \in Processes :
              /\ Waits(c) => /\ strmCall[c] \in PendingCalls /\ strmCall[c].task \in StrmIds
                             /\ strmCall[c].value \in Strm!Status /\ strmCall[c].cancel \in 0..StrmRuns
              /\ ~Waits(c) => strmCall[c] = Strm!Idle
<1>1. strmRun \in [Strm!Slots -> Strm!Runs] /\ strmCall \in [Processes -> Strm!Calls]
  BY DEF Strm!TypeOK, Processes
<1>2. \A i \in Strm!Slots : strmRun[i] \in RunRecords \cup {Strm!NoRun}
  BY <1>1, StrmNone
<1>3. \A c \in Processes : strmCall[c] \in PendingCalls \cup {Strm!Idle}
  BY <1>1, StrmNone
<1>4. \A r \in RunRecords : r.at # "none" /\ r.task \in StrmIds /\ r.at \in Strm!Working
  BY StrmNone DEF RunRecords
<1>5. \A a \in PendingCalls : /\ a.at # "idle" /\ a.task \in StrmIds /\ a.value \in Strm!Status
                              /\ a.cancel \in 0..StrmRuns
  BY DEF PendingCalls
<1>6. "none" \notin Strm!Marked
  BY StrmNone
<1> QED
  BY <1>1, <1>2, <1>3, <1>4, <1>5, <1>6, StrmNone DEF Alive, Waits

-----------------------------------------------------------------------------
\* The goroutines go on, each with its task.
GoOn ==
  /\ strmRun' \in [Strm!Slots -> Strm!Runs]
  /\ \A i \in Strm!Slots : Alive(i)' <=> Alive(i)
  /\ \A i \in Strm!Slots : Alive(i) => strmRun'[i].task = strmRun[i].task

LEMMA RunGoesTo ==
  ASSUME Strm!TypeOK, NEW i \in Strm!Slots, Alive(i), NEW r \in RunRecords,
         r.task = strmRun[i].task, strmRun' = [strmRun EXCEPT ![i] = r]
  PROVE  GoOn /\ \A j \in Strm!Slots : strmRun'[j] = IF j = i THEN r ELSE strmRun[j]
<1>1. strmRun \in [Strm!Slots -> Strm!Runs] /\ r \in Strm!Runs /\ r.at # "none"
  BY StrmRecords, StrmNone DEF RunRecords
<1>2. strmRun' \in [Strm!Slots -> Strm!Runs]
  BY <1>1
<1>3. \A j \in Strm!Slots : strmRun'[j] = IF j = i THEN r ELSE strmRun[j]
  BY <1>1
<1> QED
  BY <1>1, <1>2, <1>3 DEF GoOn, Alive

LEMMA RunChangesAt ==
  ASSUME Strm!TypeOK, NEW i \in Strm!Slots, Alive(i), NEW at \in Strm!Working,
         Strm!To(i, at)
  PROVE  /\ GoOn /\ strmRun'[i].at = at
         /\ \A j \in Strm!Slots \ {i} : strmRun'[j] = strmRun[j]
<1> DEFINE r == [strmRun[i] EXCEPT !.at = at]
<1>1. strmRun[i] \in RunRecords
  BY StrmRecords
<1>2. r \in RunRecords /\ r.at = at /\ r.task = strmRun[i].task
  BY <1>1 DEF RunRecords
<1>3. strmRun' = [strmRun EXCEPT ![i] = r]
  BY DEF Strm!To
<1> HIDE DEF r
<1>4. GoOn /\ \A j \in Strm!Slots : strmRun'[j] = IF j = i THEN r ELSE strmRun[j]
  BY <1>2, <1>3, RunGoesTo
<1> QED
  BY <1>2, <1>4

\* A call goes to its next step.
FitsCall(a) ==
  a.at # "idle" =>
    /\ a \in PendingCalls
    /\ a.op = "update" => a.at \in {"get", "put"}
    /\ a.at \in {"start", "mark"} => a.op \in {"run", "tick"}
    /\ a.at = "get" => a.op \in {"pause", "resume", "toggle", "update", "delete", "run"}
    /\ a.cancel # 0 => strmRun[a.cancel].at # "none"

LEMMA CallGoesTo ==
  ASSUME StrmInv, NEW c \in Processes, NEW a \in Strm!Calls, FitsCall(a),
         Strm!Call(c, a), GoOn \/ UNCHANGED strmRun
  PROVE  /\ strmCall' \in [Processes -> Strm!Calls] /\ CallShape'
         /\ \A d \in Processes : strmCall'[d] = IF d = c THEN a ELSE strmCall[d]
<1>1. strmCall \in [Processes -> Strm!Calls] /\ strmCall' = [strmCall EXCEPT ![c] = a]
  BY StrmRecords DEF StrmInv, Strm!Call
<1>2. strmCall' \in [Processes -> Strm!Calls]
  BY <1>1
<1>3. \A d \in Processes : strmCall'[d] = IF d = c THEN a ELSE strmCall[d]
  BY <1>1
<1>4. \A n \in 0..StrmRuns : n # 0 /\ strmRun[n].at # "none" => strmRun'[n].at # "none"
  BY JobsAssumption DEF GoOn, Alive, Strm!Slots
<1>5. a.at # "idle" => a.cancel \in 0..StrmRuns
  BY DEF FitsCall, PendingCalls
<1>6. \A d \in Processes : Waits(d) => strmCall[d].cancel \in 0..StrmRuns
  BY StrmRecords DEF StrmInv
<1>7. ASSUME NEW d \in Processes, Waits(d)'
      PROVE  /\ strmCall'[d].op = "update" => strmCall'[d].at \in {"get", "put"}
             /\ strmCall'[d].at \in {"start", "mark"} => strmCall'[d].op \in {"run", "tick"}
             /\ strmCall'[d].at = "get" =>
                  strmCall'[d].op \in {"pause", "resume", "toggle", "update", "delete", "run"}
             /\ strmCall'[d].cancel # 0 => strmRun'[strmCall'[d].cancel].at # "none"
  <2>1. CASE d = c
    BY <1>3, <1>4, <1>5, <1>7, <2>1 DEF FitsCall, Waits, Alive
  <2>2. CASE d # c
    BY <1>3, <1>4, <1>6, <1>7, <2>2 DEF StrmInv, CallShape, Waits, Alive
  <2> QED BY <2>1, <2>2
<1> QED
  BY <1>2, <1>3, <1>7 DEF CallShape

LEMMA CallsKept ==
  ASSUME StrmInv, UNCHANGED strmCall, GoOn \/ UNCHANGED strmRun
  PROVE  CallShape' /\ strmCall' \in [Processes -> Strm!Calls]
<1>1. \A n \in 0..StrmRuns : n # 0 /\ strmRun[n].at # "none" => strmRun'[n].at # "none"
  BY JobsAssumption DEF GoOn, Alive, Strm!Slots
<1>2. \A d \in Processes : Waits(d) => strmCall[d].cancel \in 0..StrmRuns
  BY StrmRecords DEF StrmInv
<1>3. strmCall \in [Processes -> Strm!Calls]
  BY StrmRecords DEF StrmInv
<1> QED
  BY <1>1, <1>2, <1>3 DEF StrmInv, CallShape, Waits, Alive

\* Owners go, and give up the lock only then.
LEMMA OwnersLeave ==
  ASSUME OneOwner,
         \A t \in StrmIds, i \in Strm!Slots : On(i, t)' => On(i, t),
         \A t \in StrmIds, c \in Processes : Locks(c, t)' => Locks(c, t),
         \A t \in StrmIds : t \in strmFiles \ strmFiles' =>
           /\ \A i \in Strm!Slots : ~On(i, t)'
           /\ \A c \in Processes : ~Locks(c, t)'
  PROVE  OneOwner'
BY DEF OneOwner

\* A caller takes a lock that is free.
LEMMA OwnerComes ==
  ASSUME OneOwner, NEW t0 \in StrmIds, NEW c0 \in Processes, t0 \notin strmFiles,
         strmFiles' = strmFiles \cup {t0},
         \A t \in StrmIds, i \in Strm!Slots : On(i, t)' => On(i, t),
         \A t \in StrmIds, c \in Processes : Locks(c, t)' => Locks(c, t) \/ (c = c0 /\ t = t0)
  PROVE  OneOwner'
BY DEF OneOwner

\* runTaskAsync hands its lock over to the run.
LEMMA OwnerHandsOver ==
  ASSUME OneOwner, NEW t0 \in StrmIds, NEW c0 \in Processes, NEW i0 \in Strm!Slots,
         Locks(c0, t0), UNCHANGED strmFiles,
         \A t \in StrmIds, i \in Strm!Slots : On(i, t)' => On(i, t) \/ (i = i0 /\ t = t0),
         \A t \in StrmIds, c \in Processes : Locks(c, t)' => Locks(c, t) /\ c # c0
  PROVE  OneOwner'
BY DEF OneOwner

\* Marks go, and the goroutines that clear theirs have none left.
LEMMA MarksGo ==
  ASSUME StrmInv,
         strmMarks'.running \subseteq strmMarks.running,
         strmMarks'.accounts \subseteq strmMarks.accounts,
         \A t \in StrmIds : strmMarks'.cancel[t] \in {0, strmMarks.cancel[t]},
         \A i \in Strm!Slots : strmRun[i].at \in Strm!Marked =>
           \/ strmRun'[i].at \in Strm!Marked /\ strmRun'[i].task = strmRun[i].task
           \/ /\ strmRun[i].task \notin strmMarks'.running
              /\ StrmAccount[strmRun[i].task] \notin strmMarks'.accounts
              /\ strmMarks'.cancel[strmRun[i].task] = 0
  PROVE  MarkedRuns'
<1>0. MarkedRuns /\ \A i \in Strm!Slots : Alive(i) => strmRun[i].task \in StrmIds
  BY StrmRecords DEF StrmInv
<1>1. "none" \notin Strm!Marked
  BY StrmNone
<1>2. ASSUME NEW t \in strmMarks'.running
      PROVE  \E i \in Strm!Slots : On(i, t)' /\ strmRun'[i].at \in Strm!Marked
  <2>1. PICK i \in Strm!Slots : On(i, t) /\ strmRun[i].at \in Strm!Marked
    BY <1>0, <1>2 DEF MarkedRuns
  <2> QED
    BY <1>1, <1>2, <2>1 DEF On, Alive
<1>3. ASSUME NEW a \in strmMarks'.accounts
      PROVE  \E i \in Strm!Slots : strmRun'[i].at \in Strm!Marked /\ StrmAccount[strmRun'[i].task] = a
  <2>1. PICK i \in Strm!Slots : strmRun[i].at \in Strm!Marked /\ StrmAccount[strmRun[i].task] = a
    BY <1>0, <1>3 DEF MarkedRuns
  <2> QED
    BY <1>3, <2>1
<1>4. ASSUME NEW t \in StrmIds, strmMarks'.cancel[t] # 0
      PROVE  LET i == strmMarks'.cancel[t]
             IN  strmRun'[i].at \in Strm!Marked /\ strmRun'[i].task = t
  <2> DEFINE i == strmMarks.cancel[t]
  <2>1. strmMarks'.cancel[t] = i /\ i # 0 /\ strmRun[i].task = t /\ strmRun[i].at \in Strm!Marked
    BY <1>0, <1>4 DEF MarkedRuns
  <2>2. i \in 0..StrmRuns
    BY DEF StrmInv, Strm!TypeOK
  <2>3. i \in Strm!Slots
    BY <2>1, <2>2, JobsAssumption DEF Strm!Slots
  <2>4. strmRun'[i].at \in Strm!Marked /\ strmRun'[i].task = t
    BY <1>4, <2>1, <2>3
  <2> QED
    BY <2>1, <2>4
<1> QED
  BY <1>2, <1>3, <1>4 DEF MarkedRuns

LEMMA OwnersStay ==
  ASSUME OneOwner, GoOn \/ UNCHANGED strmRun, UNCHANGED <<strmCall, strmFiles>>
  PROVE  OneOwner'
<1>1. \A t \in StrmIds, i \in Strm!Slots : On(i, t)' => On(i, t)
  BY DEF GoOn, On, Alive
<1>2. \A t \in StrmIds, c \in Processes : Locks(c, t)' => Locks(c, t)
  BY DEF Locks, Waits
<1> QED
  BY <1>1, <1>2, OwnersLeave

\* Steps that leave goroutines, calls, marks and locks alone.
LEMMA StrmQuiet ==
  ASSUME StrmInv, UNCHANGED <<strmRun, strmCall, strmMarks, strmFiles>>, Strm!TypeOK'
  PROVE  StrmInv'
<1>1. OneOwner'
  BY OwnersStay DEF StrmInv
<1>2. CallShape'
  BY CallsKept
<1>3. MarkedRuns'
  BY DEF StrmInv, MarkedRuns, On, Alive
<1> QED
  BY <1>1, <1>2, <1>3 DEF StrmInv

LEMMA StrmInit == Strm!Init => StrmInv
<1> SUFFICES ASSUME Strm!Init PROVE StrmInv
  OBVIOUS
<1>1. strmMarks \in [running : SUBSET StrmIds, accounts : SUBSET Strm!Accounts,
                     cancel : [StrmIds -> 0..StrmRuns]]
  BY JobsAssumption DEF Strm!Init, Strm!NoMarks
<1>2. Strm!TypeOK
  <2>1. strmRow \in [StrmIds -> Strm!Status]
    BY DEF Strm!Init, Strm!Status
  <2>2. strmReady \in BOOLEAN
    BY DEF Strm!Init
  <2>3. strmRestarts \in 0..StrmRestarts
    BY JobsAssumption DEF Strm!Init
  <2>4. /\ strmRun \in [Strm!Slots -> Strm!Runs]
        /\ strmCall \in [StrmCallers \cup {Strm!Scheduler} -> Strm!Calls]
    BY StrmNone DEF Strm!Init
  <2> QED
    BY <1>1, <2>1, <2>2, <2>3, <2>4 DEF Strm!TypeOK, Strm!Init
<1>3. /\ \A c \in Processes : ~Waits(c)
      /\ \A i \in Strm!Slots : ~Alive(i)
  BY StrmNone DEF Strm!Init, Waits, Alive, Processes
<1>4. CallShape /\ OneOwner
  BY <1>3 DEF CallShape, OneOwner, Locks, On
<1>5. MarkedRuns
  BY DEF Strm!Init, Strm!NoMarks, MarkedRuns
<1> QED
  BY <1>2, <1>4, <1>5 DEF StrmInv

LEMMA StrmStored ==
  ASSUME Strm!TypeOK, NEW t \in StrmIds, NEW s \in Strm!Status, Strm!Store(t, s)
  PROVE  strmRow' \in [StrmIds -> Strm!Status]
BY DEF Strm!Store, Strm!TypeOK

\* The start of the program, rows and marks of changed accounts.
LEMMA StrmElsewhere ==
  ASSUME StrmInv,
         \/ Strm!Tick \/ Strm!Ready
         \/ \E t \in StrmIds : Strm!Create(t) \/ Strm!NoticeStale(t)
         \/ \E a \in Strm!Accounts : Strm!OnFileMutated(a)
         \/ UNCHANGED strmVars
  PROVE  StrmInv'
<1> USE DEF Strm!ownVars, Strm!envVars
<1>0. Strm!TypeOK
  BY DEF StrmInv
<1>1. CASE Strm!Tick
  <2>1. Strm!TypeOK'
    BY <1>0, <1>1 DEF Strm!Tick, Strm!TypeOK
  <2> QED
    BY <1>1, <2>1, StrmQuiet DEF Strm!Tick
<1>2. CASE Strm!Ready
  <2>1. strmReady' \in BOOLEAN
    BY <1>2 DEF Strm!Ready
  <2>2. Strm!TypeOK'
    BY <1>0, <1>2, <2>1 DEF Strm!Ready, Strm!TypeOK
  <2> QED
    BY <1>2, <2>2, StrmQuiet DEF Strm!Ready
<1>3. ASSUME NEW t \in StrmIds, Strm!Create(t) \/ Strm!NoticeStale(t)
      PROVE  StrmInv'
  <2>1. CASE Strm!Create(t)
    <3>1. strmRow' \in [StrmIds -> Strm!Status]
      BY <1>0, <2>1 DEF Strm!Create, Strm!TypeOK, Strm!Status
    <3>2. Strm!TypeOK'
      BY <1>0, <2>1, <3>1 DEF Strm!Create, Strm!TypeOK
    <3> QED
      BY <2>1, <3>2, StrmQuiet DEF Strm!Create
  <2>2. CASE Strm!NoticeStale(t)
    <3>1. Strm!TypeOK'
      BY <1>0, <2>2 DEF Strm!NoticeStale, Strm!TypeOK
    <3> QED
      BY <2>2, <3>1, StrmQuiet DEF Strm!NoticeStale
  <2> QED
    BY <1>3, <2>1, <2>2
<1>4. ASSUME NEW a \in Strm!Accounts, Strm!OnFileMutated(a) PROVE StrmInv'
  <2>1. Strm!TypeOK'
    BY <1>0, <1>4 DEF Strm!OnFileMutated, Strm!TypeOK
  <2> QED
    BY <1>4, <2>1, StrmQuiet DEF Strm!OnFileMutated
<1>5. CASE UNCHANGED strmVars
  <2>1. Strm!TypeOK'
    BY <1>0, <1>5 DEF strmVars, Strm!TypeOK
  <2> QED
    BY <1>5, <2>1, StrmQuiet DEF strmVars
<1> QED
  BY <1>1, <1>2, <1>3, <1>4, <1>5

\* The process ends and starts again.
LEMMA StrmRestart == ASSUME StrmInv, Strm!Restart PROVE StrmInv'
<1> USE DEF StrmInv
<1>1. /\ strmMarks' = Strm!NoMarks /\ strmPending' = {} /\ strmDirty' = {} /\ strmFiles' = {}
      /\ strmTick' = {} /\ strmReady' = FALSE /\ strmRestarts < StrmRestarts
      /\ strmRestarts' = strmRestarts + 1 /\ strmStale' \subseteq StrmIds /\ UNCHANGED strmRow
      /\ strmRun' = [i \in Strm!Slots |-> Strm!NoRun]
      /\ strmCall' = [c \in Processes |-> Strm!Idle]
  BY StrmRecords DEF Strm!Restart
<1>2. Strm!NoMarks \in [running : SUBSET StrmIds, accounts : SUBSET Strm!Accounts,
                        cancel : [StrmIds -> 0..StrmRuns]]
  BY JobsAssumption DEF Strm!NoMarks
<1>3. strmRestarts' \in 0..StrmRestarts
  BY <1>1, JobsAssumption DEF Strm!TypeOK
<1>4. strmRun' \in [Strm!Slots -> Strm!Runs] /\ strmCall' \in [Processes -> Strm!Calls]
  BY <1>1, StrmNone
<1>5. strmReady' \in BOOLEAN
  BY <1>1
<1>6. Strm!TypeOK'
  BY <1>1, <1>2, <1>3, <1>4, <1>5 DEF Strm!TypeOK, Processes
<1>7. /\ \A c \in Processes : ~Waits(c)'
      /\ \A i \in Strm!Slots : ~Alive(i)'
  BY <1>1, StrmNone DEF Waits, Alive
<1>8. CallShape' /\ OneOwner'
  BY <1>7 DEF CallShape, OneOwner, Locks, On
<1>9. MarkedRuns'
  BY <1>1 DEF Strm!NoMarks, MarkedRuns
<1> QED
  BY <1>6, <1>8, <1>9

\* A call goes on without taking a lock; at its end it may give its lock back.
LockedBy(a, t) == a.at # "idle" /\ a.task = t /\ (a.op = "update" \/ a.at = "mark")

LEMMA CallTakesNothing ==
  ASSUME StrmInv, NEW c \in Processes, NEW a \in Strm!Calls, FitsCall(a), Strm!Call(c, a),
         GoOn \/ UNCHANGED strmRun,
         \A t \in StrmIds : LockedBy(a, t) => Locks(c, t),
         \/ UNCHANGED strmFiles
         \/ \E t \in StrmIds : /\ strmFiles' = strmFiles \ {t}
                               /\ Locks(c, t) /\ ~LockedBy(a, t)
  PROVE  OneOwner' /\ CallShape' /\ strmCall' \in [Processes -> Strm!Calls]
<1>1. /\ strmCall' \in [Processes -> Strm!Calls] /\ CallShape'
      /\ \A d \in Processes : strmCall'[d] = IF d = c THEN a ELSE strmCall[d]
  BY CallGoesTo
<1>2. \A t \in StrmIds, i \in Strm!Slots : On(i, t)' => On(i, t)
  BY DEF GoOn, On, Alive
<1>3. \A t \in StrmIds : Locks(c, t)' <=> LockedBy(a, t)
  BY <1>1 DEF Locks, Waits, LockedBy
<1>4. \A t \in StrmIds, d \in Processes \ {c} : Locks(d, t)' <=> Locks(d, t)
  BY <1>1 DEF Locks, Waits
<1>5. \A t \in StrmIds, d \in Processes : Locks(d, t)' => Locks(d, t)
  BY <1>3, <1>4
<1>6. ASSUME NEW t \in StrmIds, t \in strmFiles \ strmFiles'
      PROVE  /\ \A i \in Strm!Slots : ~On(i, t)'
             /\ \A d \in Processes : ~Locks(d, t)'
  <2>1. Locks(c, t) /\ ~LockedBy(a, t)
    BY <1>6
  <2>2. \A i \in Strm!Slots : ~On(i, t)
    BY <2>1 DEF StrmInv, OneOwner
  <2>3. \A d \in Processes \ {c} : ~Locks(d, t)
    BY <2>1 DEF StrmInv, OneOwner
  <2> QED
    BY <1>2, <1>3, <1>4, <2>1, <2>2, <2>3
<1>7. OneOwner'
  BY <1>2, <1>5, <1>6, OwnersLeave DEF StrmInv
<1> QED
  BY <1>1, <1>7

LEMMA IdleFits == FitsCall(Strm!Idle) /\ Strm!Idle \in Strm!Calls /\ \A t : ~LockedBy(Strm!Idle, t)
BY StrmNone DEF FitsCall, LockedBy

\* The same call at its next step.
LEMMA CallAt ==
  ASSUME StrmInv, NEW c \in Processes, Waits(c),
         NEW at \in {"get", "put", "peek", "drop", "erase", "wipe", "start", "mark"},
         NEW value \in Strm!Status, NEW cancel \in 0..StrmRuns
  PROVE  LET a == [strmCall[c] EXCEPT !.at = at]
             b == [strmCall[c] EXCEPT !.at = at, !.value = value]
             d == [strmCall[c] EXCEPT !.at = at, !.cancel = cancel]
         IN  /\ a \in PendingCalls /\ a.at = at /\ a.op = strmCall[c].op
             /\ a.task = strmCall[c].task /\ a.cancel = strmCall[c].cancel
             /\ b \in PendingCalls /\ b.at = at /\ b.op = strmCall[c].op
             /\ b.task = strmCall[c].task /\ b.cancel = strmCall[c].cancel
             /\ d \in PendingCalls /\ d.at = at /\ d.op = strmCall[c].op
             /\ d.task = strmCall[c].task /\ d.cancel = cancel
<1>1. strmCall[c] \in PendingCalls
  BY StrmRecords DEF StrmInv
<1> QED
  BY <1>1 DEF PendingCalls

LEMMA NewCalls ==
  ASSUME NEW op \in StrmOps \cup {"tick"}, NEW t \in StrmIds, NEW at \in {"start", "get", "peek"}
  PROVE  LET a == Strm!New(op, t, at)
         IN  /\ a \in PendingCalls /\ a.at = at /\ a.op = op /\ a.task = t /\ a.cancel = 0
BY JobsAssumption DEF PendingCalls, Strm!New, Strm!Status

LEMMA NextStepFits ==
  ASSUME StrmInv, NEW c \in Processes, Waits(c),
         NEW at \in {"put", "peek", "drop", "erase", "wipe", "start", "mark"},
         NEW value \in Strm!Status,
         strmCall[c].op = "update" => at = "put",
         at \in {"start", "mark"} => strmCall[c].op \in {"run", "tick"}
  PROVE  LET a == [strmCall[c] EXCEPT !.at = at]
             b == [strmCall[c] EXCEPT !.at = at, !.value = value]
         IN  /\ a \in Strm!Calls /\ FitsCall(a)
             /\ b \in Strm!Calls /\ FitsCall(b)
             /\ at # "mark" => \A t \in StrmIds : LockedBy(a, t) \/ LockedBy(b, t) => Locks(c, t)
<1> DEFINE a == [strmCall[c] EXCEPT !.at = at]
           b == [strmCall[c] EXCEPT !.at = at, !.value = value]
<1>1. /\ a \in PendingCalls /\ a.at = at /\ a.op = strmCall[c].op
      /\ a.task = strmCall[c].task /\ a.cancel = strmCall[c].cancel
      /\ b \in PendingCalls /\ b.at = at /\ b.op = strmCall[c].op
      /\ b.task = strmCall[c].task /\ b.cancel = strmCall[c].cancel
  BY StrmRecords DEF StrmInv, PendingCalls
<1> HIDE DEF a, b
<1>2. strmCall[c].cancel # 0 => strmRun[strmCall[c].cancel].at # "none"
  BY DEF StrmInv, CallShape
<1>3. a \in Strm!Calls /\ FitsCall(a) /\ b \in Strm!Calls /\ FitsCall(b)
  BY <1>1, <1>2, StrmNone DEF FitsCall
<1>4. at # "mark" => \A t \in StrmIds : LockedBy(a, t) \/ LockedBy(b, t) => Locks(c, t)
  BY <1>1 DEF LockedBy, Locks
<1> QED
  BY <1>3, <1>4 DEF a, b

\* The scheduler judges a task of its round.
LEMMA StrmJudge ==
  ASSUME StrmInv, NEW t \in StrmIds, NEW auto \in BOOLEAN, NEW elapsed \in BOOLEAN,
         NEW free \in BOOLEAN, Strm!Judge(t, auto, elapsed, free)
  PROVE  StrmInv'
<1> DEFINE a == Strm!New("tick", t, "start")
<1> USE DEF Strm!envVars
<1>1. /\ strmTick' = strmTick \ {t}
      /\ UNCHANGED <<strmRow, strmMarks, strmPending, strmFiles, strmReady, strmRestarts, strmStale,
                     strmRun>>
      /\ \/ strmDirty' = strmDirty \ {StrmAccount[t]} /\ Strm!Call(Strm!Scheduler, a)
         \/ UNCHANGED <<strmDirty, strmCall>>
  BY DEF Strm!Judge
<1>2. /\ a \in PendingCalls /\ a.at = "start" /\ a.op = "tick" /\ a.task = t /\ a.cancel = 0
  BY NewCalls
<1> HIDE DEF a
<1>3. FitsCall(a) /\ a \in Strm!Calls /\ \A u \in StrmIds : ~LockedBy(a, u)
  BY <1>2, StrmNone DEF FitsCall, LockedBy
<1>4. OneOwner' /\ CallShape' /\ strmCall' \in [Processes -> Strm!Calls]
  <2>1. CASE Strm!Call(Strm!Scheduler, a)
    BY <1>1, <1>3, <2>1, CallTakesNothing DEF Processes
  <2>2. CASE UNCHANGED strmCall
    BY <1>1, <2>2, OwnersStay, CallsKept DEF StrmInv
  <2> QED BY <1>1, <2>1, <2>2
<1>5. Strm!TypeOK'
  BY <1>1, <1>4 DEF StrmInv, Strm!TypeOK, Processes
<1>6. MarkedRuns'
  BY <1>1 DEF StrmInv, MarkedRuns, On, Alive
<1> QED
  BY <1>4, <1>5, <1>6 DEF StrmInv

\* Steps of a call that leave goroutines and marks alone.
LEMMA StrmCalls ==
  ASSUME StrmInv, UNCHANGED <<strmRun, strmMarks, strmTick, strmStale, strmReady, strmRestarts>>,
         strmRow' \in [StrmIds -> Strm!Status], strmPending' \subseteq StrmIds,
         strmDirty' \subseteq Strm!Accounts, strmFiles' \subseteq StrmIds,
         OneOwner', CallShape', strmCall' \in [Processes -> Strm!Calls]
  PROVE  StrmInv'
<1>1. Strm!TypeOK'
  BY DEF StrmInv, Strm!TypeOK, Processes
<1>2. MarkedRuns'
  BY DEF StrmInv, MarkedRuns, On, Alive
<1> QED
  BY <1>1, <1>2 DEF StrmInv

\* A call begins; UpdateTask with the lock of its task.
LEMMA StrmBegin ==
  ASSUME StrmInv, NEW c \in StrmCallers, NEW op \in StrmOps, NEW t \in StrmIds, Strm!Begin(c, op, t)
  PROVE  StrmInv'
<1> DEFINE at == IF op = "stop" THEN "peek" ELSE "get"
           a == Strm!New(op, t, at)
<1>1. /\ strmCall[c] = Strm!Idle /\ Strm!Call(c, a)
      /\ IF op = "update" THEN t \notin strmFiles /\ strmFiles' = strmFiles \cup {t}
         ELSE UNCHANGED strmFiles
      /\ UNCHANGED <<strmRow, strmMarks, strmPending, strmDirty, strmReady, strmRestarts, strmTick,
                     strmStale, strmRun>>
  BY DEF Strm!Begin, Strm!MayBegin, Strm!envVars
<1>2. /\ a \in PendingCalls /\ a.at = at /\ a.op = op /\ a.task = t /\ a.cancel = 0
  BY NewCalls
<1>3. c \in Processes /\ FitsCall(a) /\ a \in Strm!Calls
  BY <1>2, StrmNone DEF FitsCall, Processes, StrmOps
<1>4. \A u \in StrmIds : LockedBy(a, u) => op = "update" /\ u = t
  BY <1>2 DEF LockedBy
<1> HIDE DEF a
<1>5. CASE op = "update"
  <2>1. /\ strmCall' \in [Processes -> Strm!Calls] /\ CallShape'
        /\ \A d \in Processes : strmCall'[d] = IF d = c THEN a ELSE strmCall[d]
    BY <1>1, <1>3, CallGoesTo
  <2>2. \A u \in StrmIds, d \in Processes : Locks(d, u)' => Locks(d, u) \/ (d = c /\ u = t)
    BY <1>4, <2>1 DEF Locks, Waits, LockedBy
  <2>3. \A u \in StrmIds, i \in Strm!Slots : On(i, u)' => On(i, u)
    BY <1>1 DEF On, Alive
  <2>4. OneOwner'
    BY <1>1, <1>3, <1>5, <2>2, <2>3, OwnerComes DEF StrmInv
  <2> QED
    BY <1>1, <1>5, <2>1, <2>4, StrmCalls DEF StrmInv, Strm!TypeOK
<1>6. CASE op # "update"
  <2>1. OneOwner' /\ CallShape' /\ strmCall' \in [Processes -> Strm!Calls]
    BY <1>1, <1>3, <1>4, <1>6, CallTakesNothing
  <2> QED
    BY <1>1, <1>6, <2>1, StrmCalls DEF StrmInv, Strm!TypeOK
<1> QED
  BY <1>5, <1>6

\* runTaskAsync takes the file lock.
LEMMA StrmStart ==
  ASSUME StrmInv, NEW c \in Processes, NEW free \in BOOLEAN, Strm!Start(c, free)
  PROVE  StrmInv'
<1> DEFINE t == strmCall[c].task
           a == [strmCall[c] EXCEPT !.at = "mark"]
<1>1. /\ strmCall[c].at = "start"
      /\ UNCHANGED <<strmRow, strmMarks, strmPending, strmDirty, strmReady, strmRestarts, strmTick,
                     strmStale, strmRun>>
      /\ \/ t \notin strmFiles /\ strmFiles' = strmFiles \cup {t} /\ Strm!Call(c, a)
         \/ Strm!Call(c, Strm!Idle) /\ UNCHANGED strmFiles
  BY DEF Strm!Start, Strm!MayBegin, Strm!Goto, Strm!envVars
<1>2. Waits(c) /\ t \in StrmIds /\ strmCall[c].op \in {"run", "tick"}
  BY <1>1, StrmRecords DEF Waits, StrmInv, CallShape
<1>3. a \in Strm!Calls /\ FitsCall(a) /\ a.task = t
  <2>1. a \in Strm!Calls /\ FitsCall(a)
    BY <1>2, NextStepFits DEF Strm!Status
  <2>2. a.task = t
    BY <1>2, StrmRecords DEF StrmInv, PendingCalls
  <2> QED BY <2>1, <2>2
<1> HIDE DEF a
<1>4. CASE t \notin strmFiles /\ strmFiles' = strmFiles \cup {t} /\ Strm!Call(c, a)
  <2>1. /\ strmCall' \in [Processes -> Strm!Calls] /\ CallShape'
        /\ \A d \in Processes : strmCall'[d] = IF d = c THEN a ELSE strmCall[d]
    BY <1>1, <1>3, <1>4, CallGoesTo
  <2>2. \A u \in StrmIds, d \in Processes : Locks(d, u)' => Locks(d, u) \/ (d = c /\ u = t)
    BY <1>3, <2>1 DEF Locks, Waits
  <2>3. \A u \in StrmIds, i \in Strm!Slots : On(i, u)' => On(i, u)
    BY <1>1 DEF On, Alive
  <2>4. OneOwner'
    <3>1. PICK t0 \in StrmIds : t0 = t
      BY <1>2
    <3> QED
      BY <1>4, <2>2, <2>3, <3>1, OwnerComes DEF StrmInv
  <2> QED
    BY <1>1, <1>2, <1>4, <2>1, <2>4, StrmCalls DEF StrmInv, Strm!TypeOK
<1>5. CASE Strm!Call(c, Strm!Idle) /\ UNCHANGED strmFiles
  <2>1. OneOwner' /\ CallShape' /\ strmCall' \in [Processes -> Strm!Calls]
    BY <1>1, <1>5, IdleFits, CallTakesNothing
  <2> QED
    BY <1>1, <1>5, <2>1, StrmCalls DEF StrmInv, Strm!TypeOK
<1> QED
  BY <1>1, <1>4, <1>5

\* What a handler decides to do with the status it has read.
LEMMA StrmDecides ==
  ASSUME StrmInv, NEW c \in Processes, strmCall[c].at = "get", strmCall[c].op # "run",
         NEW s \in Strm!Status
  PROVE  /\ Strm!Decides(c, s) \in Strm!Calls /\ FitsCall(Strm!Decides(c, s))
         /\ \A t \in StrmIds : LockedBy(Strm!Decides(c, s), t) => Locks(c, t)
<1> DEFINE Good(a) == /\ a \in Strm!Calls /\ FitsCall(a)
                      /\ \A t \in StrmIds : LockedBy(a, t) => Locks(c, t)
<1>1. Waits(c) /\ strmCall[c].op \in {"pause", "resume", "toggle", "update", "delete"}
  BY DEF Waits, StrmInv, CallShape
<1>2. Good(Strm!Idle)
  BY IdleFits
<1>3. ASSUME NEW at \in {"put", "peek"}, NEW v \in Strm!Status, strmCall[c].op = "update" => at = "put"
      PROVE  Good([strmCall[c] EXCEPT !.at = at]) /\ Good([strmCall[c] EXCEPT !.at = at, !.value = v])
  BY <1>1, <1>3, NextStepFits
<1>4. ASSUME NEW at \in {"put", "peek"}, NEW v \in Strm!Status
      PROVE  [Strm!Put(c, v) EXCEPT !.at = at] = [strmCall[c] EXCEPT !.at = at, !.value = v]
  <2>1. strmCall[c] \in PendingCalls
    BY <1>1, StrmRecords DEF StrmInv
  <2> QED
    BY <2>1 DEF PendingCalls, Strm!Put
<1>5. {"auth", "active", "user"} \subseteq Strm!Status
  BY DEF Strm!Status, Strm!Paused
<1> HIDE DEF Good
<1>6. \A v \in Strm!Status : Good(Strm!Put(c, v))
  BY <1>3 DEF Strm!Put
<1>7. CASE strmCall[c].op = "toggle"
  <2> DEFINE at == IF s = "running" THEN "peek" ELSE "put"
  <2>1. Strm!Decides(c, s) = IF s \in Strm!Paused THEN Strm!Put(c, "active")
                             ELSE [Strm!Put(c, "user") EXCEPT !.at = at]
    BY <1>7 DEF Strm!Decides
  <2>2. at \in {"put", "peek"} /\ (strmCall[c].op = "update" => at = "put")
    BY <1>7
  <2> HIDE DEF at
  <2>3. Good([Strm!Put(c, "user") EXCEPT !.at = at])
    <3>1. Good([strmCall[c] EXCEPT !.at = at, !.value = "user"])
      BY <1>3, <1>5, <2>2
    <3>2. [Strm!Put(c, "user") EXCEPT !.at = at] = [strmCall[c] EXCEPT !.at = at, !.value = "user"]
      BY <1>4, <1>5, <2>2
    <3> QED
      BY <3>1, <3>2
  <2> QED
    BY <1>5, <1>6, <2>1, <2>3 DEF Good
<1>8. CASE strmCall[c].op = "pause"
  BY <1>2, <1>5, <1>6, <1>8 DEF Strm!Decides, Good
<1>9. CASE strmCall[c].op = "resume"
  BY <1>2, <1>5, <1>6, <1>9 DEF Strm!Decides, Good
<1>10. CASE strmCall[c].op = "update"
  BY <1>6, <1>10 DEF Strm!Decides, Good
<1>11. CASE strmCall[c].op = "delete"
  <2>1. Good([strmCall[c] EXCEPT !.at = "peek"])
    BY <1>3, <1>11
  <2> QED
    BY <1>11, <2>1 DEF Strm!Decides, Good
<1> QED
  BY <1>1, <1>7, <1>8, <1>9, <1>10, <1>11

\* A handler reads the row of its task.
LEMMA StrmGet ==
  ASSUME StrmInv, NEW c \in StrmCallers, Strm!Get(c)
  PROVE  StrmInv'
<1> DEFINE t == strmCall[c].task
<1>1. /\ strmCall[c].at = "get" /\ strmCall[c].op # "run"
      /\ \/ Strm!Call(c, Strm!Decides(c, strmRow[t])) /\ UNCHANGED strmFiles
         \/ /\ Strm!Call(c, Strm!Idle)
            /\ strmFiles' = IF strmCall[c].op = "update" THEN strmFiles \ {t} ELSE strmFiles
      /\ UNCHANGED <<strmRow, strmMarks, strmPending, strmDirty, strmReady, strmRestarts, strmTick,
                     strmStale, strmRun>>
  BY DEF Strm!Get, Strm!envVars
<1>2. c \in Processes /\ Waits(c) /\ t \in StrmIds
  BY <1>1, StrmRecords DEF Waits, StrmInv, Processes
<1>3. OneOwner' /\ CallShape' /\ strmCall' \in [Processes -> Strm!Calls]
  <2>1. CASE Strm!Call(c, Strm!Decides(c, strmRow[t])) /\ UNCHANGED strmFiles
    <3>1. strmRow[t] \in Strm!Status
      BY <1>2 DEF StrmInv, Strm!TypeOK
    <3> DEFINE a == Strm!Decides(c, strmRow[t])
    <3>2. a \in Strm!Calls /\ FitsCall(a) /\ \A u \in StrmIds : LockedBy(a, u) => Locks(c, u)
      BY <1>1, <1>2, <3>1, StrmDecides
    <3> HIDE DEF a
    <3>3. Strm!Call(c, a)
      BY <2>1 DEF a
    <3> QED
      BY <1>1, <1>2, <2>1, <3>2, <3>3, CallTakesNothing
  <2>2. CASE /\ Strm!Call(c, Strm!Idle)
             /\ strmFiles' = IF strmCall[c].op = "update" THEN strmFiles \ {t} ELSE strmFiles
    <3>1. strmCall[c].op = "update" => Locks(c, t)
      BY <1>2 DEF Locks
    <3>2. \/ UNCHANGED strmFiles
          \/ \E u \in StrmIds : /\ strmFiles' = strmFiles \ {u}
                                /\ Locks(c, u) /\ ~LockedBy(Strm!Idle, u)
      BY <1>2, <2>2, <3>1, IdleFits
    <3> QED
      BY <1>1, <1>2, <2>2, <3>2, IdleFits, CallTakesNothing
  <2> QED BY <1>1, <2>1, <2>2
<1>4. strmFiles' \subseteq StrmIds
  BY <1>1 DEF StrmInv, Strm!TypeOK
<1> QED
  BY <1>1, <1>3, <1>4, StrmCalls DEF StrmInv, Strm!TypeOK

\* RunTaskNow leaves the task to the scheduler, or starts it.
LEMMA StrmRunTaskNow ==
  ASSUME StrmInv, NEW c \in StrmCallers, NEW free \in BOOLEAN, Strm!RunTaskNow(c, free)
  PROVE  StrmInv'
<1> DEFINE t == strmCall[c].task
           a == [strmCall[c] EXCEPT !.at = "start"]
<1>1. /\ strmCall[c].at = "get" /\ strmCall[c].op = "run"
      /\ strmPending' \in {strmPending, strmPending \cup {t}}
      /\ strmDirty' \in {strmDirty, strmDirty \cup {StrmAccount[t]}}
      /\ Strm!Call(c, Strm!Idle) \/ Strm!Call(c, a)
      /\ UNCHANGED <<strmRow, strmMarks, strmFiles, strmReady, strmRestarts, strmTick,
                     strmStale, strmRun>>
  BY DEF Strm!RunTaskNow, Strm!Goto, Strm!envVars
<1>2. c \in Processes /\ Waits(c) /\ t \in StrmIds
  BY <1>1, StrmRecords DEF Waits, StrmInv, Processes
<1>3. a \in Strm!Calls /\ FitsCall(a) /\ \A u \in StrmIds : LockedBy(a, u) => Locks(c, u)
  BY <1>1, <1>2, NextStepFits DEF Strm!Status
<1> HIDE DEF a
<1>4. OneOwner' /\ CallShape' /\ strmCall' \in [Processes -> Strm!Calls]
  <2>1. CASE Strm!Call(c, Strm!Idle)
    BY <1>1, <1>2, <2>1, IdleFits, CallTakesNothing
  <2>2. CASE Strm!Call(c, a)
    BY <1>1, <1>2, <1>3, <2>2, CallTakesNothing
  <2> QED BY <1>1, <2>1, <2>2
<1>5. strmPending' \subseteq StrmIds /\ strmDirty' \subseteq Strm!Accounts
  BY <1>1, <1>2 DEF StrmInv, Strm!TypeOK, Strm!Accounts
<1> QED
  BY <1>1, <1>4, <1>5, StrmCalls DEF StrmInv, Strm!TypeOK

\* What follows a forced stop.
LEMMA StrmAfterStop ==
  ASSUME StrmInv, NEW c \in Processes, strmCall[c].at \in {"peek", "drop"}
  PROVE  /\ Strm!AfterStop(c) \in Strm!Calls /\ FitsCall(Strm!AfterStop(c))
         /\ \A t \in StrmIds : LockedBy(Strm!AfterStop(c), t) => Locks(c, t)
<1>1. Waits(c) /\ strmCall[c].op # "update"
  BY DEF Waits, StrmInv, CallShape
<1> DEFINE Good(a) == /\ a \in Strm!Calls /\ FitsCall(a)
                      /\ \A t \in StrmIds : LockedBy(a, t) => Locks(c, t)
<1>2. Good([strmCall[c] EXCEPT !.at = "put"]) /\ Good([strmCall[c] EXCEPT !.at = "erase"])
  BY <1>1, NextStepFits DEF Strm!Status
<1>3. Good(Strm!Idle)
  BY IdleFits
<1> HIDE DEF Good
<1>4. Good(Strm!AfterStop(c))
  BY <1>2, <1>3 DEF Strm!AfterStop
<1> QED
  BY <1>4 DEF Good

\* ForceStopTask takes the cancel function of the run, and DeleteTask removes the row.
LEMMA StrmPeek ==
  ASSUME StrmInv, NEW c \in StrmCallers, Strm!Peek(c) \/ Strm!Erase(c)
  PROVE  StrmInv'
<1> DEFINE t == strmCall[c].task
           i == strmMarks.cancel[t]
           a == [strmCall[c] EXCEPT !.at = "drop", !.cancel = i]
           w == [strmCall[c] EXCEPT !.at = "wipe"]
<1>1. /\ \/ strmCall[c].at = "peek" /\ Strm!Call(c, a) /\ UNCHANGED strmRow
         \/ strmCall[c].at = "peek" /\ Strm!Call(c, Strm!AfterStop(c)) /\ UNCHANGED strmRow
         \/ strmCall[c].at = "erase" /\ Strm!Call(c, w) /\ strmRow' = [strmRow EXCEPT ![t] = "gone"]
      /\ UNCHANGED <<strmMarks, strmPending, strmDirty, strmFiles, strmReady, strmRestarts, strmTick,
                     strmStale, strmRun>>
  BY DEF Strm!Peek, Strm!Erase, Strm!Goto, Strm!envVars, Strm!ownVars
<1>2. c \in Processes /\ Waits(c) /\ t \in StrmIds /\ strmCall[c].op # "update"
  BY <1>1, StrmRecords DEF Waits, StrmInv, Processes, CallShape
<1>3. i \in 0..StrmRuns /\ (i # 0 => strmRun[i].at # "none")
  <2>1. i # 0 => strmRun[i].at \in Strm!Marked
    BY <1>2 DEF StrmInv, MarkedRuns
  <2>2. "none" \notin Strm!Marked
    BY StrmNone
  <2>3. i \in 0..StrmRuns
    BY <1>2 DEF StrmInv, Strm!TypeOK
  <2> QED BY <2>1, <2>2, <2>3
<1>4. a \in Strm!Calls /\ FitsCall(a) /\ \A u \in StrmIds : ~LockedBy(a, u)
  <2>1. /\ a \in PendingCalls /\ a.at = "drop" /\ a.op = strmCall[c].op /\ a.cancel = i
    BY <1>2, <1>3, StrmRecords DEF StrmInv, PendingCalls
  <2> HIDE DEF a
  <2> QED
    BY <1>2, <1>3, <2>1, StrmNone DEF FitsCall, LockedBy
<1>5. w \in Strm!Calls /\ FitsCall(w) /\ \A u \in StrmIds : LockedBy(w, u) => Locks(c, u)
  BY <1>2, NextStepFits DEF Strm!Status
<1> HIDE DEF a, w
<1>6. OneOwner' /\ CallShape' /\ strmCall' \in [Processes -> Strm!Calls]
  <2>1. CASE Strm!Call(c, a)
    BY <1>1, <1>2, <1>4, <2>1, CallTakesNothing
  <2>2. CASE Strm!Call(c, w)
    BY <1>1, <1>2, <1>5, <2>2, CallTakesNothing
  <2>3. CASE strmCall[c].at = "peek" /\ Strm!Call(c, Strm!AfterStop(c))
    <3> DEFINE b == Strm!AfterStop(c)
    <3>1. b \in Strm!Calls /\ FitsCall(b) /\ \A u \in StrmIds : LockedBy(b, u) => Locks(c, u)
      BY <1>2, <2>3, StrmAfterStop
    <3>2. Strm!Call(c, b)
      BY <2>3
    <3> HIDE DEF b
    <3> QED
      BY <1>1, <1>2, <3>1, <3>2, CallTakesNothing
  <2> QED BY <1>1, <2>1, <2>2, <2>3
<1>7. strmRow' \in [StrmIds -> Strm!Status]
  BY <1>1, <1>2 DEF StrmInv, Strm!TypeOK, Strm!Status
<1> QED
  BY <1>1, <1>6, <1>7, StrmCalls DEF StrmInv, Strm!TypeOK

\* Steps that may take marks away, and leave the goroutines where they are.
LEMMA StrmMarks ==
  ASSUME StrmInv, UNCHANGED <<strmReady, strmRestarts, strmTick>>,
         strmRow' \in [StrmIds -> Strm!Status], strmPending' \subseteq StrmIds,
         UNCHANGED strmDirty, strmFiles' \subseteq StrmIds, strmStale' \subseteq StrmIds,
         OneOwner', CallShape', strmCall' \in [Processes -> Strm!Calls],
         strmRun' \in [Strm!Slots -> Strm!Runs], MarkedRuns',
         strmMarks' \in [running : SUBSET StrmIds, accounts : SUBSET Strm!Accounts,
                         cancel : [StrmIds -> 0..StrmRuns]]
  PROVE  StrmInv'
<1>1. Strm!TypeOK'
  BY DEF StrmInv, Strm!TypeOK, Processes
<1> QED
  BY <1>1 DEF StrmInv

LEMMA MarksStay ==
  ASSUME StrmInv, UNCHANGED strmMarks,
         \A i \in Strm!Slots : Alive(i) =>
           strmRun'[i].at = strmRun[i].at /\ strmRun'[i].task = strmRun[i].task
  PROVE  MarkedRuns'
<1>1. \A i \in Strm!Slots : strmRun[i].at \in Strm!Marked => Alive(i)
  BY StrmRecords DEF StrmInv
<1> QED
  BY <1>1, MarksGo

LEMMA UnmarkTakes ==
  ASSUME StrmInv, NEW t \in StrmIds, Strm!Unmark(t)
  PROVE  /\ strmMarks' \in [running : SUBSET StrmIds, accounts : SUBSET Strm!Accounts,
                            cancel : [StrmIds -> 0..StrmRuns]]
         /\ strmMarks'.running = strmMarks.running \ {t}
         /\ strmMarks'.accounts = strmMarks.accounts \ {StrmAccount[t]}
         /\ \A u \in StrmIds : strmMarks'.cancel[u] = IF u = t THEN 0 ELSE strmMarks.cancel[u]
         /\ strmPending' \subseteq StrmIds
<1>1. strmMarks \in [running : SUBSET StrmIds, accounts : SUBSET Strm!Accounts,
                     cancel : [StrmIds -> 0..StrmRuns]]
  BY DEF StrmInv, Strm!TypeOK
<1> DEFINE k == [strmMarks.cancel EXCEPT ![t] = 0]
<1>2. strmMarks' = [running |-> strmMarks.running \ {t}, accounts |-> strmMarks.accounts \ {StrmAccount[t]},
                    cancel |-> k]
  BY DEF Strm!Unmark
<1>3. k \in [StrmIds -> 0..StrmRuns] /\ \A u \in StrmIds : k[u] = IF u = t THEN 0 ELSE strmMarks.cancel[u]
  BY <1>1, JobsAssumption
<1>4. strmPending' \subseteq StrmIds
  BY DEF Strm!Unmark, StrmInv, Strm!TypeOK
<1> HIDE DEF k
<1> QED
  BY <1>1, <1>2, <1>3, <1>4

\* A status is stored: goroutines stay where they are.
LEMMA OweGoesOn ==
  ASSUME Strm!TypeOK, NEW t \in StrmIds, NEW s \in Strm!Status, strmRun' = Strm!Owe(t, s)
  PROVE  /\ GoOn
         /\ \A i \in Strm!Slots : /\ strmRun'[i].at = strmRun[i].at
                                  /\ Alive(i) => strmRun'[i].task = strmRun[i].task
<1>1. ASSUME NEW i \in Strm!Slots
      PROVE  /\ strmRun'[i] \in Strm!Runs /\ strmRun'[i].at = strmRun[i].at
             /\ Alive(i) => strmRun'[i].task = strmRun[i].task
  <2>1. \/ strmRun'[i] = strmRun[i]
        \/ Alive(i) /\ \E b \in BOOLEAN : strmRun'[i] = [strmRun[i] EXCEPT !.owed = b]
    BY DEF Strm!Owe, Alive
  <2>2. CASE strmRun'[i] = strmRun[i]
    BY <2>2, StrmRecords
  <2>3. ASSUME Alive(i), NEW b \in BOOLEAN, strmRun'[i] = [strmRun[i] EXCEPT !.owed = b]
        PROVE  /\ strmRun'[i] \in Strm!Runs /\ strmRun'[i].at = strmRun[i].at
               /\ strmRun'[i].task = strmRun[i].task
    <3>1. strmRun[i] \in RunRecords
      BY <2>3, StrmRecords
    <3>2. strmRun'[i] \in RunRecords /\ strmRun'[i].at = strmRun[i].at /\ strmRun'[i].task = strmRun[i].task
      BY <2>3, <3>1 DEF RunRecords
    <3> QED
      BY <3>2, StrmNone
  <2> QED
    BY <2>1, <2>2, <2>3
<1>2. strmRun' \in [Strm!Slots -> Strm!Runs]
  BY <1>1 DEF Strm!Owe
<1> QED
  BY <1>1, <1>2 DEF GoOn, Alive

\* A handler stores the status it has decided on.
LEMMA StrmSave ==
  ASSUME StrmInv, NEW c \in StrmCallers, Strm!Save(c)
  PROVE  StrmInv'
<1> DEFINE t == strmCall[c].task
           s == strmCall[c].value
           a == [strmCall[c] EXCEPT !.at = "peek"]
<1>1. /\ strmCall[c].at = "put" /\ Strm!Store(t, s) /\ strmRun' = Strm!Owe(t, s)
      /\ \/ strmCall[c].op = "pause" /\ Strm!Call(c, a)
         \/ strmCall[c].op # "pause" /\ Strm!Call(c, Strm!Idle)
      /\ strmFiles' = IF strmCall[c].op = "update" THEN strmFiles \ {t} ELSE strmFiles
      /\ UNCHANGED <<strmMarks, strmPending, strmDirty, strmReady, strmRestarts, strmTick, strmStale>>
  BY DEF Strm!Save, Strm!Goto, Strm!envVars
<1>2. c \in Processes /\ Waits(c) /\ t \in StrmIds /\ s \in Strm!Status
  BY <1>1, StrmRecords DEF Waits, StrmInv, Processes
<1>3. PICK t0 \in StrmIds, s0 \in Strm!Status : t0 = t /\ s0 = s
  BY <1>2
<1>4. /\ GoOn
      /\ \A i \in Strm!Slots : /\ strmRun'[i].at = strmRun[i].at
                               /\ Alive(i) => strmRun'[i].task = strmRun[i].task
  BY <1>1, <1>3, OweGoesOn DEF StrmInv
<1>5. OneOwner' /\ CallShape' /\ strmCall' \in [Processes -> Strm!Calls]
  <2>1. CASE strmCall[c].op = "pause" /\ Strm!Call(c, a)
    <3>1. a \in Strm!Calls /\ FitsCall(a) /\ \A u \in StrmIds : LockedBy(a, u) => Locks(c, u)
      BY <1>2, <2>1, NextStepFits DEF Strm!Status
    <3> HIDE DEF a
    <3> QED
      BY <1>1, <1>2, <1>4, <2>1, <3>1, CallTakesNothing
  <2>2. CASE Strm!Call(c, Strm!Idle)
    <3>1. strmCall[c].op = "update" => Locks(c, t)
      BY <1>2 DEF Locks
    <3>2. \/ UNCHANGED strmFiles
          \/ \E u \in StrmIds : /\ strmFiles' = strmFiles \ {u}
                                /\ Locks(c, u) /\ ~LockedBy(Strm!Idle, u)
      BY <1>1, <1>2, <3>1, IdleFits
    <3> QED
      BY <1>2, <1>4, <2>2, <3>2, IdleFits, CallTakesNothing
  <2> QED BY <1>1, <2>1, <2>2
<1>6. MarkedRuns'
  BY <1>1, <1>4, MarksStay
<1>7. strmRow' \in [StrmIds -> Strm!Status]
  BY <1>1, <1>3, StrmStored DEF StrmInv
<1>8. strmFiles' \subseteq StrmIds
  BY <1>1 DEF StrmInv, Strm!TypeOK
<1> QED
  BY <1>1, <1>4, <1>5, <1>6, <1>7, <1>8, StrmMarks DEF GoOn, StrmInv, Strm!TypeOK

\* A row that says running and has no run is set back.
LEMMA StrmFixStale ==
  ASSUME StrmInv, NEW t \in StrmIds, Strm!FixStale(t)
  PROVE  StrmInv'
<1>1. /\ strmStale' = strmStale \ {t} /\ Strm!Store(t, "active") /\ strmRun' = Strm!Owe(t, "active")
      /\ UNCHANGED <<strmMarks, strmPending, strmDirty, strmFiles, strmReady, strmRestarts, strmTick,
                     strmCall>>
  BY DEF Strm!FixStale, Strm!envVars, Strm!ownVars
<1>2. "active" \in Strm!Status
  BY DEF Strm!Status
<1>3. /\ GoOn
      /\ \A i \in Strm!Slots : /\ strmRun'[i].at = strmRun[i].at
                               /\ Alive(i) => strmRun'[i].task = strmRun[i].task
  BY <1>1, <1>2, OweGoesOn DEF StrmInv
<1>4. MarkedRuns' /\ OneOwner' /\ CallShape' /\ strmCall' \in [Processes -> Strm!Calls]
  BY <1>1, <1>3, MarksStay, OwnersStay, CallsKept DEF StrmInv
<1>5. strmRow' \in [StrmIds -> Strm!Status]
  BY <1>1, <1>2, StrmStored DEF StrmInv
<1>6. strmFiles' \subseteq StrmIds /\ strmStale' \subseteq StrmIds
  BY <1>1 DEF StrmInv, Strm!TypeOK
<1> QED
  BY <1>1, <1>3, <1>4, <1>5, <1>6, StrmMarks DEF GoOn, StrmInv, Strm!TypeOK

\* A stopped run loses its marks at once, and is told to stop.
LEMMA StrmDrop ==
  ASSUME StrmInv, NEW c \in StrmCallers, Strm!Drop(c) \/ Strm!Wipe(c)
  PROVE  StrmInv'
<1> DEFINE t == strmCall[c].task
           i == strmCall[c].cancel
           r == [strmRun[i] EXCEPT !.canceled = TRUE]
<1>1. /\ \/ strmCall[c].at = "drop" /\ Strm!Call(c, Strm!AfterStop(c))
         \/ strmCall[c].at = "wipe" /\ Strm!Call(c, Strm!Idle)
      /\ \/ UNCHANGED strmRun
         \/ i \in Strm!Slots /\ strmRun' = [strmRun EXCEPT ![i] = r]
      /\ Strm!Unmark(t) \/ UNCHANGED <<strmMarks, strmPending>>
      /\ UNCHANGED <<strmRow, strmDirty, strmFiles, strmReady, strmRestarts, strmTick, strmStale>>
  BY DEF Strm!Drop, Strm!Wipe, Strm!envVars
<1>2. c \in Processes /\ Waits(c) /\ t \in StrmIds
  BY <1>1, StrmRecords DEF Waits, StrmInv, Processes
<1>3. /\ GoOn
      /\ \A j \in Strm!Slots : /\ strmRun'[j].at = strmRun[j].at
                               /\ Alive(j) => strmRun'[j].task = strmRun[j].task
  <2>1. CASE UNCHANGED strmRun
    BY <2>1, StrmRecords DEF GoOn, Alive, StrmInv
  <2>2. CASE i \in Strm!Slots /\ strmRun' = [strmRun EXCEPT ![i] = r]
    <3>1. i # 0
      BY <2>2, JobsAssumption DEF Strm!Slots
    <3>2. Alive(i)
      BY <1>2, <3>1 DEF StrmInv, CallShape, Alive
    <3>3. strmRun[i] \in RunRecords
      BY <2>2, <3>2, StrmRecords DEF StrmInv
    <3>4. r \in RunRecords /\ r.task = strmRun[i].task /\ r.at = strmRun[i].at
      BY <3>3 DEF RunRecords
    <3> HIDE DEF r
    <3>5. PICK i0 \in Strm!Slots, r0 \in RunRecords : i0 = i /\ r0 = r
      BY <2>2, <3>4
    <3>6. GoOn /\ \A j \in Strm!Slots : strmRun'[j] = IF j = i0 THEN r0 ELSE strmRun[j]
      BY <2>2, <3>2, <3>4, <3>5, RunGoesTo DEF StrmInv
    <3> QED
      BY <3>4, <3>5, <3>6
  <2> QED BY <1>1, <2>1, <2>2
<1>4. OneOwner' /\ CallShape' /\ strmCall' \in [Processes -> Strm!Calls]
  <2>1. CASE strmCall[c].at = "drop" /\ Strm!Call(c, Strm!AfterStop(c))
    <3> DEFINE b == Strm!AfterStop(c)
    <3>1. b \in Strm!Calls /\ FitsCall(b) /\ \A u \in StrmIds : LockedBy(b, u) => Locks(c, u)
      BY <1>2, <2>1, StrmAfterStop
    <3>2. Strm!Call(c, b)
      BY <2>1
    <3> HIDE DEF b
    <3> QED
      BY <1>1, <1>2, <1>3, <3>1, <3>2, CallTakesNothing
  <2>2. CASE Strm!Call(c, Strm!Idle)
    BY <1>1, <1>2, <1>3, <2>2, IdleFits, CallTakesNothing
  <2> QED BY <1>1, <2>1, <2>2
<1>5. CASE Strm!Unmark(t)
  <2>1. PICK t0 \in StrmIds : t0 = t
    BY <1>2
  <2>2. /\ strmMarks' \in [running : SUBSET StrmIds, accounts : SUBSET Strm!Accounts,
                            cancel : [StrmIds -> 0..StrmRuns]]
        /\ strmMarks'.running \subseteq strmMarks.running
        /\ strmMarks'.accounts \subseteq strmMarks.accounts
        /\ \A u \in StrmIds : strmMarks'.cancel[u] \in {0, strmMarks.cancel[u]}
        /\ strmPending' \subseteq StrmIds
    BY <1>5, <2>1, UnmarkTakes
  <2>3. \A j \in Strm!Slots : strmRun[j].at \in Strm!Marked => Alive(j)
    BY StrmRecords DEF StrmInv
  <2>4. MarkedRuns'
    BY <1>3, <2>2, <2>3, MarksGo
  <2> QED
    BY <1>1, <1>3, <1>4, <2>2, <2>4, StrmMarks DEF GoOn, StrmInv, Strm!TypeOK
<1>6. CASE UNCHANGED <<strmMarks, strmPending>>
  BY <1>1, <1>3, <1>4, <1>6, MarksStay, StrmMarks DEF GoOn, StrmInv, Strm!TypeOK
<1> QED
  BY <1>1, <1>5, <1>6

\* A run goes on with its marks.
LEMMA RunStays ==
  ASSUME StrmInv, NEW i \in Strm!Slots, NEW r \in RunRecords, strmRun[i].at \in Strm!Marked,
         r.at \in Strm!Marked, r.task = strmRun[i].task, strmRun' = [strmRun EXCEPT ![i] = r],
         strmRow' \in [StrmIds -> Strm!Status],
         UNCHANGED <<strmMarks, strmPending, strmDirty, strmFiles, strmReady, strmRestarts,
                     strmTick, strmStale, strmCall>>
  PROVE  StrmInv'
<1>1. Alive(i)
  BY StrmRecords DEF StrmInv
<1>2. GoOn /\ \A j \in Strm!Slots : strmRun'[j] = IF j = i THEN r ELSE strmRun[j]
  BY <1>1, RunGoesTo DEF StrmInv
<1>3. OneOwner' /\ CallShape' /\ strmCall' \in [Processes -> Strm!Calls]
  BY <1>2, OwnersStay, CallsKept DEF StrmInv
<1>4. MarkedRuns'
  <2>1. \A u \in StrmIds : strmMarks'.cancel[u] \in {0, strmMarks.cancel[u]}
    OBVIOUS
  <2>2. \A j \in Strm!Slots : strmRun[j].at \in Strm!Marked =>
          strmRun'[j].at \in Strm!Marked /\ strmRun'[j].task = strmRun[j].task
    BY <1>2
  <2> QED
    BY <2>1, <2>2, MarksGo
<1> QED
  BY <1>2, <1>3, <1>4, StrmMarks DEF GoOn, StrmInv, Strm!TypeOK

\* The steps of a run that leave its marks alone.
LEMMA StrmRunSteps ==
  ASSUME StrmInv, NEW i \in Strm!Slots,
         \/ Strm!Open(i) \/ Strm!Scan(i) \/ Strm!Read(i) \/ Strm!Write(i)
         \/ Strm!AuthGet(i) \/ Strm!AuthPut(i) \/ Strm!PeekOwn(i)
  PROVE  StrmInv'
<1> DEFINE t == strmRun[i].task
<1>1. /\ strmRun[i].at \in {"open", "scan", "read", "write", "authGet", "authPut", "peek"}
      /\ \/ \E at \in Strm!Marked : strmRun' = [strmRun EXCEPT ![i] = [@ EXCEPT !.at = at]]
         \/ strmRun' = [strmRun EXCEPT ![i] = [@ EXCEPT !.at = "write", !.read = Strm!Final(t)]]
      /\ \/ UNCHANGED strmRow
         \/ Strm!Store(t, "running") \/ Strm!Store(t, strmRun[i].read) \/ Strm!Store(t, "auth")
      /\ UNCHANGED <<strmMarks, strmPending, strmDirty, strmFiles, strmReady, strmRestarts,
                     strmTick, strmStale, strmCall>>
  <2>1. CASE Strm!Open(i)
    BY <2>1 DEF Strm!Open, Strm!To, Strm!Marked, Strm!ofRun, Strm!envVars
  <2>2. CASE Strm!Scan(i)
    BY <2>2 DEF Strm!Scan, Strm!To, Strm!Marked, Strm!ofRun, Strm!envVars
  <2>3. CASE Strm!Read(i)
    BY <2>3 DEF Strm!Read, Strm!To, Strm!Marked, Strm!ofRun, Strm!envVars
  <2>4. CASE Strm!Write(i)
    BY <2>4 DEF Strm!Write, Strm!To, Strm!Marked, Strm!ofRun, Strm!envVars
  <2>5. CASE Strm!AuthGet(i)
    BY <2>5 DEF Strm!AuthGet, Strm!To, Strm!Marked, Strm!ofRun, Strm!envVars
  <2>6. CASE Strm!AuthPut(i)
    BY <2>6 DEF Strm!AuthPut, Strm!To, Strm!Marked, Strm!ofRun, Strm!envVars
  <2>7. CASE Strm!PeekOwn(i)
    BY <2>7 DEF Strm!PeekOwn, Strm!To, Strm!Marked, Strm!ofRun, Strm!envVars
  <2> QED
    BY <2>1, <2>2, <2>3, <2>4, <2>5, <2>6, <2>7
<1>2. strmRun[i].at \in Strm!Marked
  BY <1>1 DEF Strm!Marked
<1>3. strmRun[i] \in RunRecords /\ t \in StrmIds /\ strmRun[i].read \in Strm!Status
  <2>1. strmRun[i] \in RunRecords
    BY <1>2, StrmRecords DEF StrmInv
  <2> QED
    BY <2>1 DEF RunRecords
<1>4. ASSUME NEW t0 \in StrmIds, t0 = t, NEW s0 \in Strm!Status, Strm!Store(t, s0)
      PROVE  strmRow' \in [StrmIds -> Strm!Status]
  BY <1>4, StrmStored DEF StrmInv
<1>5. {"running", "auth", "active"} \subseteq Strm!Status
  BY DEF Strm!Status, Strm!Paused
<1>6. strmRow' \in [StrmIds -> Strm!Status]
  <2>1. CASE UNCHANGED strmRow
    BY <2>1 DEF StrmInv, Strm!TypeOK
  <2>2. CASE Strm!Store(t, "running")
    BY <1>3, <1>4, <1>5, <2>2
  <2>3. CASE Strm!Store(t, strmRun[i].read)
    BY <1>3, <1>4, <2>3
  <2>4. CASE Strm!Store(t, "auth")
    BY <1>3, <1>4, <1>5, <2>4
  <2> QED
    BY <1>1, <2>1, <2>2, <2>3, <2>4
<1>7. \E r \in RunRecords : /\ r.at \in Strm!Marked /\ r.task = t
                            /\ strmRun' = [strmRun EXCEPT ![i] = r]
  <2>1. ASSUME NEW at \in Strm!Marked, strmRun' = [strmRun EXCEPT ![i] = [@ EXCEPT !.at = at]]
        PROVE  \E r \in RunRecords : /\ r.at \in Strm!Marked /\ r.task = t
                                     /\ strmRun' = [strmRun EXCEPT ![i] = r]
    <3> DEFINE r == [strmRun[i] EXCEPT !.at = at]
    <3>1. at \in Strm!Working
      BY StrmNone
    <3>2. r \in RunRecords /\ r.at = at /\ r.task = t
      BY <1>3, <3>1 DEF RunRecords
    <3>3. strmRun' = [strmRun EXCEPT ![i] = r]
      BY <2>1
    <3> HIDE DEF r
    <3> QED BY <3>2, <3>3
  <2>2. ASSUME strmRun' = [strmRun EXCEPT ![i] = [@ EXCEPT !.at = "write", !.read = Strm!Final(t)]]
        PROVE  \E r \in RunRecords : /\ r.at \in Strm!Marked /\ r.task = t
                                     /\ strmRun' = [strmRun EXCEPT ![i] = r]
    <3> DEFINE f == Strm!Final(t)
               r == [strmRun[i] EXCEPT !.at = "write", !.read = f]
    <3>1. f \in Strm!Status
      BY <1>3, <1>5 DEF Strm!Final, StrmInv, Strm!TypeOK
    <3>2. strmRun' = [strmRun EXCEPT ![i] = r]
      BY <2>2
    <3> HIDE DEF f
    <3>3. r \in RunRecords /\ r.at = "write" /\ r.task = t
      BY <1>3, <3>1 DEF RunRecords, Strm!Working, Strm!Marked
    <3> HIDE DEF r
    <3>4. r.at \in Strm!Marked
      BY <3>3 DEF Strm!Marked
    <3> QED BY <3>2, <3>3, <3>4
  <2> QED
    BY <1>1, <2>1, <2>2
<1>8. UNCHANGED <<strmMarks, strmPending, strmDirty, strmFiles, strmReady, strmRestarts,
                  strmTick, strmStale, strmCall>>
  BY <1>1
<1>9. ASSUME NEW q \in RunRecords, q.at \in Strm!Marked, q.task = strmRun[i].task,
             strmRun' = [strmRun EXCEPT ![i] = q]
      PROVE  StrmInv'
  BY <1>2, <1>6, <1>8, <1>9, RunStays
<1> QED
  BY <1>7, <1>9

\* A run tells its cancel function.
LEMMA StrmRegister ==
  ASSUME StrmInv, NEW i \in Strm!Slots, Strm!Register(i)
  PROVE  StrmInv'
<1> DEFINE t == strmRun[i].task
           r == [strmRun[i] EXCEPT !.at = "open"]
           k == [strmMarks.cancel EXCEPT ![t] = i]
<1>1. /\ strmRun[i].at = "register" /\ strmRun' = [strmRun EXCEPT ![i] = r]
      /\ strmMarks' = [strmMarks EXCEPT !.cancel = k]
      /\ UNCHANGED <<strmRow, strmPending, strmDirty, strmFiles, strmReady, strmRestarts,
                     strmTick, strmStale, strmCall>>
  BY DEF Strm!Register, Strm!To, Strm!ofRun, Strm!envVars
<1>2. strmRun[i].at \in Strm!Marked /\ Alive(i)
  BY <1>1 DEF Strm!Marked, Alive
<1>3. strmRun[i] \in RunRecords /\ t \in StrmIds
  BY <1>2, StrmRecords DEF StrmInv
<1>4. r \in RunRecords /\ r.at = "open" /\ r.task = t
  BY <1>3 DEF RunRecords, Strm!Working, Strm!Marked
<1> HIDE DEF r
<1>5. GoOn /\ \A j \in Strm!Slots : strmRun'[j] = IF j = i THEN r ELSE strmRun[j]
  BY <1>1, <1>2, <1>4, RunGoesTo DEF StrmInv
<1>6. OneOwner' /\ CallShape' /\ strmCall' \in [Processes -> Strm!Calls]
  BY <1>1, <1>5, OwnersStay, CallsKept DEF StrmInv
<1>7. strmMarks \in [running : SUBSET StrmIds, accounts : SUBSET Strm!Accounts,
                     cancel : [StrmIds -> 0..StrmRuns]]
  BY DEF StrmInv, Strm!TypeOK
<1>8. i \in 0..StrmRuns
  BY JobsAssumption DEF Strm!Slots
<1>9. /\ k \in [StrmIds -> 0..StrmRuns]
      /\ \A u \in StrmIds : k[u] = IF u = t THEN i ELSE strmMarks.cancel[u]
  BY <1>7, <1>8
<1> HIDE DEF k
<1>10. /\ strmMarks' \in [running : SUBSET StrmIds, accounts : SUBSET Strm!Accounts,
                          cancel : [StrmIds -> 0..StrmRuns]]
       /\ strmMarks'.running = strmMarks.running /\ strmMarks'.accounts = strmMarks.accounts
       /\ strmMarks'.cancel = k
  BY <1>1, <1>7, <1>9
<1>11. \A j \in Strm!Slots : strmRun[j].at \in Strm!Marked =>
         /\ strmRun'[j].at \in Strm!Marked /\ strmRun'[j].task = strmRun[j].task
  BY <1>4, <1>5 DEF Strm!Marked
<1>12. MarkedRuns'
  <2>1. \A u \in strmMarks'.running :
          \E j \in Strm!Slots : On(j, u)' /\ strmRun'[j].at \in Strm!Marked
    BY <1>5, <1>10, <1>11 DEF StrmInv, MarkedRuns, On, GoOn
  <2>2. \A a \in strmMarks'.accounts :
          \E j \in Strm!Slots : strmRun'[j].at \in Strm!Marked /\ StrmAccount[strmRun'[j].task] = a
    BY <1>10, <1>11 DEF StrmInv, MarkedRuns
  <2>3. ASSUME NEW u \in StrmIds, k[u] # 0
        PROVE  strmRun'[k[u]].at \in Strm!Marked /\ strmRun'[k[u]].task = u
    <3>1. CASE u = t
      BY <1>2, <1>9, <1>11, <3>1
    <3>2. CASE u # t
      <4>1. k[u] = strmMarks.cancel[u] /\ k[u] \in Strm!Slots
        BY <1>9, <2>3, <3>2, JobsAssumption DEF Strm!Slots
      <4>2. strmRun[k[u]].at \in Strm!Marked /\ strmRun[k[u]].task = u
        BY <2>3, <4>1 DEF StrmInv, MarkedRuns
      <4> QED
        BY <1>11, <4>1, <4>2
    <3> QED BY <3>1, <3>2
  <2> QED
    BY <1>10, <2>1, <2>2, <2>3 DEF MarkedRuns
<1>13. strmRow' \in [StrmIds -> Strm!Status]
  BY <1>1 DEF StrmInv, Strm!TypeOK
<1> QED
  BY <1>1, <1>5, <1>6, <1>10, <1>12, <1>13, StrmMarks DEF GoOn, StrmInv, Strm!TypeOK

\* A run clears its marks, or the pause of the run itself does.
LEMMA StrmClear ==
  ASSUME StrmInv, NEW i \in Strm!Slots, Strm!Clear(i) \/ Strm!DropOwn(i)
  PROVE  StrmInv'
<1> DEFINE t == strmRun[i].task
<1>1. /\ strmRun[i].at \in {"drop", "clear"}
      /\ \/ Strm!To(i, "clear") /\ UNCHANGED <<strmMarks, strmPending>>
         \/ Strm!Unmark(t) /\ \E at \in {"clear", "release"} : Strm!To(i, at)
      /\ UNCHANGED <<strmRow, strmDirty, strmFiles, strmReady, strmRestarts,
                     strmTick, strmStale, strmCall>>
  BY DEF Strm!Clear, Strm!DropOwn, Strm!envVars
<1>2. strmRun[i].at \in Strm!Marked /\ Alive(i)
  BY <1>1 DEF Strm!Marked, Alive
<1>3. t \in StrmIds
  BY <1>2, StrmRecords DEF StrmInv
<1>4. PICK at \in {"clear", "release"} : Strm!To(i, at)
  BY <1>1
<1>5. at \in Strm!Working
  BY DEF Strm!Working, Strm!Marked
<1>6. /\ GoOn /\ strmRun'[i].at = at
      /\ \A j \in Strm!Slots \ {i} : strmRun'[j] = strmRun[j]
  BY <1>2, <1>4, <1>5, RunChangesAt DEF StrmInv
<1>7. OneOwner' /\ CallShape' /\ strmCall' \in [Processes -> Strm!Calls]
  BY <1>1, <1>6, OwnersStay, CallsKept DEF StrmInv
<1>8. strmRow' \in [StrmIds -> Strm!Status]
  BY <1>1 DEF StrmInv, Strm!TypeOK
<1>9. CASE Strm!Unmark(t)
  <2>1. PICK t0 \in StrmIds : t0 = t
    BY <1>3
  <2>2. /\ strmMarks' \in [running : SUBSET StrmIds, accounts : SUBSET Strm!Accounts,
                            cancel : [StrmIds -> 0..StrmRuns]]
        /\ strmMarks'.running = strmMarks.running \ {t0}
        /\ strmMarks'.accounts = strmMarks.accounts \ {StrmAccount[t0]}
        /\ \A u \in StrmIds : strmMarks'.cancel[u] = IF u = t0 THEN 0 ELSE strmMarks.cancel[u]
        /\ strmPending' \subseteq StrmIds
    BY <1>9, <2>1, UnmarkTakes
  <2>3. \A u \in StrmIds : strmMarks'.cancel[u] \in {0, strmMarks.cancel[u]}
    BY <2>2
  <2>4. ASSUME NEW j \in Strm!Slots, strmRun[j].at \in Strm!Marked
        PROVE  \/ strmRun'[j].at \in Strm!Marked /\ strmRun'[j].task = strmRun[j].task
               \/ /\ strmRun[j].task \notin strmMarks'.running
                  /\ StrmAccount[strmRun[j].task] \notin strmMarks'.accounts
                  /\ strmMarks'.cancel[strmRun[j].task] = 0
    <3>1. CASE j = i
      BY <2>1, <2>2, <3>1
    <3>2. CASE j # i
      BY <1>6, <2>4, <3>2
    <3> QED BY <3>1, <3>2
  <2>5. strmMarks'.running \subseteq strmMarks.running /\ strmMarks'.accounts \subseteq strmMarks.accounts
    BY <2>2
  <2>6. MarkedRuns'
    BY <2>3, <2>4, <2>5, MarksGo
  <2> QED
    BY <1>1, <1>6, <1>7, <1>8, <2>2, <2>6, StrmMarks DEF GoOn, StrmInv, Strm!TypeOK
<1>10. CASE Strm!To(i, "clear") /\ UNCHANGED <<strmMarks, strmPending>>
  <2>1. "clear" \in Strm!Marked /\ "clear" \in Strm!Working
    BY DEF Strm!Working, Strm!Marked
  <2>2. /\ GoOn /\ strmRun'[i].at = "clear"
        /\ \A j \in Strm!Slots \ {i} : strmRun'[j] = strmRun[j]
    BY <1>2, <1>10, <2>1, RunChangesAt DEF StrmInv
  <2>3. \A j \in Strm!Slots : strmRun[j].at \in Strm!Marked =>
          strmRun'[j].at \in Strm!Marked /\ strmRun'[j].task = strmRun[j].task
    BY <1>2, <2>1, <2>2 DEF GoOn
  <2>4. \A u \in StrmIds : strmMarks'.cancel[u] \in {0, strmMarks.cancel[u]}
    BY <1>10
  <2>5. MarkedRuns'
    BY <1>10, <2>3, <2>4, MarksGo
  <2> QED
    BY <1>1, <1>6, <1>7, <1>8, <1>10, <2>5, StrmMarks DEF GoOn, StrmInv, Strm!TypeOK
<1> QED
  BY <1>1, <1>9, <1>10

\* A run takes its marks, and the file lock of the call that starts it.
LEMMA StrmMark ==
  ASSUME StrmInv, NEW c \in Processes, Strm!Mark(c)
  PROVE  StrmInv'
<1> DEFINE t == strmCall[c].task
<1>1. /\ strmCall[c].at = "mark" /\ Strm!Call(c, Strm!Idle)
      /\ UNCHANGED <<strmRow, strmPending, strmDirty, strmReady, strmRestarts, strmTick, strmStale>>
  BY DEF Strm!Mark, Strm!envVars
<1>2. Waits(c) /\ t \in StrmIds /\ Locks(c, t)
  BY <1>1, StrmRecords DEF Waits, StrmInv, Locks
<1>3. CASE strmFiles' = strmFiles \ {t} /\ UNCHANGED <<strmRun, strmMarks>>
  <2>1. \E u \in StrmIds : strmFiles' = strmFiles \ {u} /\ Locks(c, u) /\ ~LockedBy(Strm!Idle, u)
    BY <1>2, <1>3, IdleFits
  <2>2. OneOwner' /\ CallShape' /\ strmCall' \in [Processes -> Strm!Calls]
    BY <1>1, <1>3, <2>1, IdleFits, CallTakesNothing
  <2> QED
    BY <1>1, <1>3, <2>2, StrmCalls DEF StrmInv, Strm!TypeOK
<1>4. ASSUME NEW i \in Strm!Slots, strmRun[i] = Strm!NoRun, UNCHANGED strmFiles,
             strmRun' = [strmRun EXCEPT ![i] = [at |-> "register", task |-> t, canceled |-> FALSE,
                                                read |-> "none", owed |-> FALSE]],
             strmMarks' = [strmMarks EXCEPT !.running = @ \cup {t}, !.accounts = @ \cup {StrmAccount[t]}]
      PROVE  StrmInv'
  <2> DEFINE r == [at |-> "register", task |-> t, canceled |-> FALSE, read |-> "none", owed |-> FALSE]
  <2>1. strmRun' = [strmRun EXCEPT ![i] = r]
    BY <1>4
  <2>2. r \in RunRecords /\ r.at = "register" /\ r.task = t
    BY <1>2 DEF RunRecords, Strm!Working, Strm!Marked, Strm!Status
  <2>3. r \in Strm!Runs /\ r.at \in Strm!Marked /\ r.at # "none"
    BY <2>2, StrmNone DEF Strm!Marked
  <2> HIDE DEF r
  <2>4. /\ strmRun' \in [Strm!Slots -> Strm!Runs]
        /\ \A j \in Strm!Slots : strmRun'[j] = IF j = i THEN r ELSE strmRun[j]
    BY <2>1, <2>3, StrmRecords DEF StrmInv
  <2>5. ~Alive(i) /\ strmRun[i].at \notin Strm!Marked
    BY <1>4, StrmNone DEF Alive
  <2>6. /\ strmCall' \in [Processes -> Strm!Calls]
        /\ \A d \in Processes : strmCall'[d] = IF d = c THEN Strm!Idle ELSE strmCall[d]
    BY <1>1, IdleFits, StrmRecords DEF Strm!Call, StrmInv
  <2>7. CallShape'
    <3>1. \A n \in 0..StrmRuns : n # 0 /\ strmRun[n].at # "none" => strmRun'[n].at # "none"
      BY <2>3, <2>4, JobsAssumption DEF Strm!Slots
    <3>2. \A d \in Processes : Waits(d) => strmCall[d].cancel \in 0..StrmRuns
      BY StrmRecords DEF StrmInv
    <3>3. Strm!Idle.at = "idle"
      BY StrmNone
    <3>4. \A d \in Processes : Waits(d)' => Waits(d) /\ strmCall'[d] = strmCall[d]
      BY <2>6, <3>3 DEF Waits
    <3> QED
      BY <3>1, <3>2, <3>4 DEF CallShape, StrmInv
  <2>8. OneOwner'
    <3>1. PICK t0 \in StrmIds : t0 = t
      BY <1>2
    <3>2. \A u \in StrmIds, j \in Strm!Slots : On(j, u)' => On(j, u) \/ (j = i /\ u = t0)
      BY <2>2, <2>4, <3>1 DEF On, Alive
    <3>3. \A u \in StrmIds, d \in Processes : Locks(d, u)' => Locks(d, u) /\ d # c
      BY <2>6, StrmNone DEF Locks, Waits
    <3> QED
      BY <1>2, <1>4, <3>1, <3>2, <3>3, OwnerHandsOver DEF StrmInv
  <2>9. strmMarks \in [running : SUBSET StrmIds, accounts : SUBSET Strm!Accounts,
                       cancel : [StrmIds -> 0..StrmRuns]]
    BY DEF StrmInv, Strm!TypeOK
  <2>10. /\ strmMarks'.running = strmMarks.running \cup {t}
         /\ strmMarks'.accounts = strmMarks.accounts \cup {StrmAccount[t]}
         /\ strmMarks'.cancel = strmMarks.cancel
         /\ strmMarks' \in [running : SUBSET StrmIds, accounts : SUBSET Strm!Accounts,
                            cancel : [StrmIds -> 0..StrmRuns]]
    BY <1>2, <1>4, <2>9 DEF Strm!Accounts
  <2>11. \A j \in Strm!Slots : strmRun[j].at \in Strm!Marked => strmRun'[j] = strmRun[j]
    BY <2>4, <2>5
  <2>12. MarkedRuns'
    <3>1. ASSUME NEW u \in strmMarks'.running
          PROVE  \E j \in Strm!Slots : On(j, u)' /\ strmRun'[j].at \in Strm!Marked
      <4>1. CASE u = t
        BY <2>2, <2>3, <2>4, <4>1 DEF On, Alive
      <4>2. CASE u \in strmMarks.running
        <5>1. PICK j \in Strm!Slots : On(j, u) /\ strmRun[j].at \in Strm!Marked
          BY <4>2 DEF StrmInv, MarkedRuns
        <5> QED
          BY <2>11, <5>1 DEF On, Alive
      <4> QED
        BY <2>10, <3>1, <4>1, <4>2
    <3>2. ASSUME NEW a \in strmMarks'.accounts
          PROVE  \E j \in Strm!Slots : /\ strmRun'[j].at \in Strm!Marked
                                       /\ StrmAccount[strmRun'[j].task] = a
      <4>1. CASE a = StrmAccount[t]
        BY <2>2, <2>3, <2>4, <4>1
      <4>2. CASE a \in strmMarks.accounts
        <5>1. PICK j \in Strm!Slots : strmRun[j].at \in Strm!Marked /\ StrmAccount[strmRun[j].task] = a
          BY <4>2 DEF StrmInv, MarkedRuns
        <5> QED
          BY <2>11, <5>1
      <4> QED
        BY <2>10, <3>2, <4>1, <4>2
    <3>3. ASSUME NEW u \in StrmIds, strmMarks.cancel[u] # 0
          PROVE  LET n == strmMarks.cancel[u]
                 IN  strmRun'[n].at \in Strm!Marked /\ strmRun'[n].task = u
      <4>1. strmMarks.cancel[u] \in Strm!Slots
        BY <2>9, <3>3, JobsAssumption DEF Strm!Slots
      <4> QED
        BY <2>11, <3>3, <4>1 DEF StrmInv, MarkedRuns
    <3> QED
      BY <2>10, <3>1, <3>2, <3>3 DEF MarkedRuns
  <2> QED
    BY <1>1, <1>4, <2>4, <2>6, <2>7, <2>8, <2>10, <2>12, StrmMarks DEF StrmInv, Strm!TypeOK
<1> QED
  BY <1>3, <1>4 DEF Strm!Mark

\* A run gives the file lock back.
LEMMA StrmRelease ==
  ASSUME StrmInv, NEW i \in Strm!Slots, Strm!Release(i)
  PROVE  StrmInv'
<1> DEFINE t == strmRun[i].task
<1>1. /\ strmRun[i].at = "release" /\ strmFiles' = strmFiles \ {t}
      /\ strmRun' = [strmRun EXCEPT ![i] = Strm!NoRun]
      /\ UNCHANGED <<strmRow, strmMarks, strmPending, strmDirty, strmReady, strmRestarts, strmTick,
                     strmStale>>
  BY DEF Strm!Release, Strm!envVars
<1>2. /\ strmRun' \in [Strm!Slots -> Strm!Runs]
      /\ \A j \in Strm!Slots : strmRun'[j] = IF j = i THEN Strm!NoRun ELSE strmRun[j]
  BY <1>1, StrmRecords, StrmNone DEF StrmInv
<1>3. Alive(i) /\ t \in StrmIds /\ strmRun[i].at \notin Strm!Marked
  BY <1>1, StrmRecords DEF Alive, StrmInv, Strm!Marked
<1>4. ASSUME NEW c \in Processes
      PROVE  /\ strmCall'[c] \in Strm!Calls
             /\ strmCall'[c].at = strmCall[c].at
             /\ Waits(c) => /\ strmCall'[c].op = strmCall[c].op /\ strmCall'[c].task = strmCall[c].task
                            /\ strmCall'[c].cancel \in {0, strmCall[c].cancel} \ {i}
  <2>1. strmCall'[c] = IF strmCall[c].at # "idle" /\ strmCall[c].cancel = i
                       THEN [strmCall[c] EXCEPT !.cancel = 0] ELSE strmCall[c]
    BY StrmRecords DEF Strm!Release, StrmInv
  <2>2. i # 0
    BY JobsAssumption DEF Strm!Slots
  <2>3. CASE Waits(c) /\ strmCall[c].cancel = i
    <3>1. strmCall[c] \in PendingCalls
      BY <2>3, StrmRecords DEF StrmInv
    <3> DEFINE a == [strmCall[c] EXCEPT !.cancel = 0]
    <3>2. /\ a \in PendingCalls /\ a.at = strmCall[c].at /\ a.op = strmCall[c].op
          /\ a.task = strmCall[c].task /\ a.cancel = 0
      BY <3>1, JobsAssumption DEF PendingCalls
    <3>3. strmCall'[c] = a
      BY <2>1, <2>3 DEF Waits
    <3> HIDE DEF a
    <3> QED
      BY <2>2, <3>2, <3>3, StrmNone
  <2>4. CASE ~(Waits(c) /\ strmCall[c].cancel = i)
    BY <2>1, <2>4, StrmRecords DEF Waits, StrmInv
  <2> QED BY <2>3, <2>4
<1>5. strmCall' \in [Processes -> Strm!Calls]
  <2>1. DOMAIN strmCall = Processes
    BY StrmRecords DEF StrmInv
  <2> QED
    BY <1>4, <2>1 DEF Strm!Release
<1>6. CallShape'
  <2> SUFFICES ASSUME NEW c \in Processes, strmCall'[c].at # "idle"
               PROVE  /\ strmCall'[c].op = "update" => strmCall'[c].at \in {"get", "put"}
                      /\ strmCall'[c].at \in {"start", "mark"} => strmCall'[c].op \in {"run", "tick"}
                      /\ strmCall'[c].at = "get" =>
                           strmCall'[c].op \in {"pause", "resume", "toggle", "update", "delete", "run"}
                      /\ strmCall'[c].cancel # 0 => strmRun'[strmCall'[c].cancel].at # "none"
    BY DEF CallShape, Waits
  <2>1. Waits(c) /\ strmCall[c].cancel \in 0..StrmRuns
    BY <1>4, StrmRecords DEF Waits, StrmInv
  <2>2. strmCall'[c].cancel # 0 => strmRun'[strmCall'[c].cancel].at # "none"
    <3> SUFFICES ASSUME strmCall'[c].cancel # 0 PROVE strmRun'[strmCall'[c].cancel].at # "none"
      OBVIOUS
    <3>1. strmCall'[c].cancel = strmCall[c].cancel /\ strmCall[c].cancel # i /\ strmCall[c].cancel # 0
      BY <1>4, <2>1
    <3>2. strmCall[c].cancel \in Strm!Slots
      BY <2>1, <3>1, JobsAssumption DEF Strm!Slots
    <3>3. strmRun[strmCall[c].cancel].at # "none"
      BY <2>1, <3>1 DEF StrmInv, CallShape
    <3> QED
      BY <1>2, <3>1, <3>2, <3>3
  <2> QED
    BY <1>4, <2>1, <2>2 DEF StrmInv, CallShape
<1>7. OneOwner'
  <2>1. \A u \in StrmIds, j \in Strm!Slots : On(j, u)' => On(j, u) /\ j # i
    BY <1>2, StrmNone DEF On, Alive
  <2>2. \A u \in StrmIds, c \in Processes : Locks(c, u)' => Locks(c, u)
    BY <1>4 DEF Locks, Waits
  <2>3. On(i, t)
    BY <1>3 DEF On
  <2>4. \A u \in StrmIds : u \in strmFiles \ strmFiles' => u = t
    BY <1>1
  <2>5. ASSUME NEW u \in StrmIds, u \in strmFiles \ strmFiles'
        PROVE  /\ \A j \in Strm!Slots : ~On(j, u)'
               /\ \A c \in Processes : ~Locks(c, u)'
    <3>1. On(i, u)
      BY <2>3, <2>4, <2>5
    <3>2. \A j \in Strm!Slots \ {i} : ~On(j, u)
      BY <3>1 DEF StrmInv, OneOwner
    <3>3. \A c \in Processes : ~Locks(c, u)
      BY <3>1 DEF StrmInv, OneOwner
    <3> QED
      BY <2>1, <2>2, <3>2, <3>3
  <2> QED
    BY <2>1, <2>2, <2>5, OwnersLeave DEF StrmInv
<1>8. MarkedRuns'
  <2>1. \A j \in Strm!Slots : strmRun[j].at \in Strm!Marked =>
          strmRun'[j].at \in Strm!Marked /\ strmRun'[j].task = strmRun[j].task
    BY <1>2, <1>3
  <2>2. \A u \in StrmIds : strmMarks'.cancel[u] \in {0, strmMarks.cancel[u]}
    BY <1>1
  <2> QED
    BY <1>1, <2>1, <2>2, MarksGo
<1>9. strmFiles' \subseteq StrmIds
  BY <1>1 DEF StrmInv, Strm!TypeOK
<1> QED
  BY <1>1, <1>2, <1>5, <1>6, <1>7, <1>8, <1>9, StrmMarks DEF StrmInv, Strm!TypeOK

LEMMA StrmNext == StrmInv /\ [Strm!Next]_strmVars => StrmInv'
<1> SUFFICES ASSUME StrmInv, [Strm!Next]_strmVars PROVE StrmInv'
  OBVIOUS
<1> USE DEF Processes
<1>1. CASE UNCHANGED strmVars
  BY <1>1, StrmElsewhere
<1>2. CASE Strm!Tick \/ Strm!Ready \/ \E a \in Strm!Accounts : Strm!OnFileMutated(a)
  BY <1>2, StrmElsewhere
<1>3. ASSUME NEW t \in StrmIds, NEW auto \in BOOLEAN, NEW elapsed \in BOOLEAN,
             NEW free \in BOOLEAN, Strm!Judge(t, auto, elapsed, free)
      PROVE  StrmInv'
  BY <1>3, StrmJudge
<1>4. ASSUME NEW t \in StrmIds, Strm!Create(t) \/ Strm!NoticeStale(t) \/ Strm!FixStale(t)
      PROVE  StrmInv'
  BY <1>4, StrmElsewhere, StrmFixStale
<1>5. ASSUME NEW c \in StrmCallers, NEW op \in StrmOps, NEW t \in StrmIds, Strm!Begin(c, op, t)
      PROVE  StrmInv'
  BY <1>5, StrmBegin
<1>6. ASSUME NEW c \in StrmCallers, Strm!Handles(c) PROVE StrmInv'
  BY <1>6, StrmGet, StrmRunTaskNow, StrmSave, StrmPeek, StrmDrop DEF Strm!Handles
<1>7. ASSUME NEW c \in StrmCallers \cup {Strm!Scheduler}, Strm!Starts(c) PROVE StrmInv'
  BY <1>7, StrmStart, StrmMark DEF Strm!Starts
<1>8. ASSUME NEW i \in Strm!Slots, Strm!RunStep(i) PROVE StrmInv'
  BY <1>8, StrmRegister, StrmRunSteps, StrmClear, StrmRelease DEF Strm!RunStep
<1>9. CASE Strm!Restart
  BY <1>9, StrmRestart
<1> QED
  BY <1>1, <1>2, <1>3, <1>4, <1>5, <1>6, <1>7, <1>8, <1>9 DEF Strm!Next

\* The other components leave the STRM tasks alone.
LEMMA StrmFocus ==
  /\ SumInit => Strm!Init
  /\ [SumNext]_sumVars => [Strm!Next]_strmVars
BY DEF SumInit, SumNext, sumVars, strmVars

LEMMA StrmOwners == StrmInv => Strm!FilesHaveOneOwner
<1> SUFFICES ASSUME StrmInv, NEW t \in StrmIds
             PROVE  Strm!Cardinality({i \in Strm!Slots : Strm!WorksOn(i, t)}
                      \cup {c \in StrmCallers : /\ strmCall[c].at # "idle" /\ strmCall[c].op = "update"
                                                /\ strmCall[c].task = t}) <= 1
  BY DEF Strm!FilesHaveOneOwner
<1> DEFINE S == {i \in Strm!Slots : Strm!WorksOn(i, t)}
                  \cup {c \in StrmCallers : /\ strmCall[c].at # "idle" /\ strmCall[c].op = "update"
                                            /\ strmCall[c].task = t}
<1>1. \A x \in S : \/ x \in Strm!Slots /\ On(x, t)
                   \/ x \in Processes /\ Locks(x, t)
  BY DEF Strm!WorksOn, On, Alive, Locks, Waits, Processes
<1>2. \A x, y \in S : x = y
  BY <1>1 DEF StrmInv, OneOwner
<1>3. S = {} \/ \E x : S = {x}
  BY <1>2
<1> HIDE DEF S
<1>4. Cardinality(S) = 0 \/ Cardinality(S) = 1
  BY <1>3, FS_EmptySet, FS_Singleton
<1>5. Cardinality(S) = Strm!Cardinality(S)
  BY DEF Cardinality, Strm!Cardinality
<1>6. Strm!Cardinality(S) <= 1
  BY <1>4, <1>5
<1> QED
  BY <1>6 DEF S

\* A forced stop takes the marks of a run away and leaves it the file lock until it
\* has ended: so a task is started again, or its settings are changed, only then, and
\* no mark is left when it has (ForceStopTask, runTaskAsync, UpdateTask).
THEOREM FilesAndMarksAreKept == SumSpec => []FilesAndMarksMatch
<1>1. StrmInv => Strm!NoStuckMarks
  BY DEF StrmInv, MarkedRuns, Strm!NoStuckMarks, Strm!WorksOn, On, Alive
<1>2. StrmInv => FilesAndMarksMatch
  BY <1>1, StrmOwners DEF StrmInv, FilesAndMarksMatch
<1> QED
  BY <1>2, StrmInit, StrmNext, StrmFocus, PTL DEF SumSpec

-----------------------------------------------------------------------------
\* A call that will store the status it holds.
Storing(a) == a.at = "put" \/ (a.op = "toggle" /\ a.at \in {"peek", "drop"})

\* Only tasks that exist, or have existed, are worked on, and no row is set back to
\* what it was before that.
Born ==
  /\ \A i \in Strm!Slots : Alive(i) =>
       /\ strmRow[strmRun[i].task] # "none"
       /\ strmRun[i].at = "write" => strmRun[i].read # "none"
  /\ \A c \in Processes : Waits(c) =>
       /\ strmRow[strmCall[c].task] # "none"
       /\ Storing(strmCall[c]) => strmCall[c].value # "none"
  /\ \A t \in strmTick \cup strmStale : strmRow[t] # "none"

\* The same of what a step begins, said of the rows before it.
RowsStand == \A t \in StrmIds : strmRow[t] # "none" => strmRow'[t] # "none"
RunsFrom ==
  \A i \in Strm!Slots : strmRun'[i].at # "none" =>
    /\ strmRow[strmRun'[i].task] # "none"
    /\ strmRun'[i].at = "write" => strmRun'[i].read # "none"
CallsFrom ==
  \A c \in Processes : strmCall'[c].at # "idle" =>
    /\ strmRow[strmCall'[c].task] # "none"
    /\ Storing(strmCall'[c]) => strmCall'[c].value # "none"
TasksFrom == \A t \in strmTick' \cup strmStale' : strmRow[t] # "none"
BornStep == RowsStand /\ RunsFrom /\ CallsFrom /\ TasksFrom

LEMMA BornGoesOn == ASSUME Born, BornStep, Strm!TypeOK' PROVE Born'
<1>1. ASSUME NEW i \in Strm!Slots, strmRun'[i].at # "none" PROVE strmRun'[i].task \in StrmIds
  <2>1. strmRun'[i] \in RunRecords \cup {Strm!NoRun}
    BY StrmNone DEF Strm!TypeOK
  <2> QED
    BY <1>1, <2>1, StrmNone DEF RunRecords
<1>2. ASSUME NEW c \in Processes, strmCall'[c].at # "idle" PROVE strmCall'[c].task \in StrmIds
  <2>1. strmCall'[c] \in PendingCalls \cup {Strm!Idle}
    BY StrmNone DEF Strm!TypeOK, Processes
  <2> QED
    BY <1>2, <2>1, StrmNone DEF PendingCalls
<1>3. strmTick' \cup strmStale' \subseteq StrmIds
  BY DEF Strm!TypeOK
<1> QED
  BY <1>1, <1>2, <1>3 DEF Born, BornStep, RowsStand, RunsFrom, CallsFrom, TasksFrom, Alive, Waits

LEMMA BornSame ==
  ASSUME Born
  PROVE  /\ UNCHANGED strmRow => RowsStand
         /\ UNCHANGED strmRun => RunsFrom
         /\ UNCHANGED strmCall => CallsFrom
         /\ strmTick' \subseteq strmTick /\ strmStale' \subseteq strmStale => TasksFrom
<1>1. UNCHANGED strmRow => RowsStand
  BY DEF RowsStand
<1>2. UNCHANGED strmRun => RunsFrom
  BY DEF Born, RunsFrom, Alive
<1>3. UNCHANGED strmCall => CallsFrom
  BY DEF Born, CallsFrom, Waits, Storing
<1>4. strmTick' \subseteq strmTick /\ strmStale' \subseteq strmStale => TasksFrom
  BY DEF Born, TasksFrom
<1> QED
  BY <1>1, <1>2, <1>3, <1>4

LEMMA BornCall ==
  ASSUME StrmInv, Born, NEW c \in Processes, NEW a \in Strm!Calls, Strm!Call(c, a),
         a.at # "idle" => /\ strmRow[a.task] # "none"
                          /\ Storing(a) => a.value # "none"
  PROVE  CallsFrom
<1>1. \A d \in Processes : strmCall'[d] = IF d = c THEN a ELSE strmCall[d]
  BY StrmRecords DEF StrmInv, Strm!Call
<1> QED
  BY <1>1 DEF Born, CallsFrom, Waits, Storing

\* A call that goes on with the status it holds, or ends.
LEMMA BornGoto ==
  ASSUME StrmInv, Born, NEW c \in Processes, Waits(c),
         \/ Strm!Call(c, Strm!Idle)
         \/ \E at \in {"get", "put", "peek", "drop", "erase", "wipe", "start", "mark"} :
              /\ Strm!Goto(c, at)
              /\ (at = "put" \/ (strmCall[c].op = "toggle" /\ at \in {"peek", "drop"})) =>
                   Storing(strmCall[c])
  PROVE  CallsFrom
<1>1. CASE Strm!Call(c, Strm!Idle)
  BY <1>1, BornCall, StrmNone
<1>2. ASSUME NEW at \in {"get", "put", "peek", "drop", "erase", "wipe", "start", "mark"},
             Strm!Goto(c, at),
             (at = "put" \/ (strmCall[c].op = "toggle" /\ at \in {"peek", "drop"})) => Storing(strmCall[c])
      PROVE  CallsFrom
  <2> DEFINE a == [strmCall[c] EXCEPT !.at = at]
  <2>1. strmCall[c] \in PendingCalls
    BY StrmRecords DEF StrmInv
  <2>2. /\ a \in PendingCalls /\ a.at = at /\ a.op = strmCall[c].op
        /\ a.task = strmCall[c].task /\ a.value = strmCall[c].value
    BY <2>1 DEF PendingCalls
  <2>3. Strm!Call(c, a)
    BY <1>2 DEF Strm!Goto
  <2> HIDE DEF a
  <2>4. a \in Strm!Calls
    BY <2>2, StrmNone
  <2>5. strmRow[a.task] # "none" /\ (Storing(a) => a.value # "none")
    BY <1>2, <2>2 DEF Born, Storing
  <2> QED
    BY <2>3, <2>4, <2>5, BornCall
<1> QED
  BY <1>1, <1>2

\* The goroutines as they are but for what they note.
LEMMA BornNoted ==
  ASSUME StrmInv, Born,
         \A i \in Strm!Slots : /\ strmRun'[i].at = strmRun[i].at
                               /\ Alive(i) => /\ strmRun'[i].task = strmRun[i].task
                                              /\ strmRun'[i].read = strmRun[i].read
  PROVE  RunsFrom
BY DEF Born, RunsFrom, Alive

LEMMA OweNotes ==
  ASSUME StrmInv, NEW t \in StrmIds, NEW s \in Strm!Status, strmRun' = Strm!Owe(t, s)
  PROVE  \A i \in Strm!Slots :
           /\ strmRun'[i].at = strmRun[i].at
           /\ Alive(i) =>
                /\ strmRun'[i].task = strmRun[i].task /\ strmRun'[i].read = strmRun[i].read
                /\ strmRun'[i].owed =
                     (IF strmRun[i].at = "scan" /\ strmRun[i].task = t /\ s \in Strm!Paused THEN TRUE
                      ELSE IF strmRun[i].task = t /\ s \notin Strm!Paused THEN FALSE
                      ELSE strmRun[i].owed)
<1> SUFFICES ASSUME NEW i \in Strm!Slots
             PROVE  /\ strmRun'[i].at = strmRun[i].at
                    /\ Alive(i) =>
                         /\ strmRun'[i].task = strmRun[i].task /\ strmRun'[i].read = strmRun[i].read
                         /\ strmRun'[i].owed =
                              (IF strmRun[i].at = "scan" /\ strmRun[i].task = t /\ s \in Strm!Paused THEN TRUE
                               ELSE IF strmRun[i].task = t /\ s \notin Strm!Paused THEN FALSE
                               ELSE strmRun[i].owed)
  OBVIOUS
<1>1. CASE ~Alive(i)
  BY <1>1 DEF Strm!Owe, Alive
<1>2. CASE Alive(i)
  <2> DEFINE y == [strmRun[i] EXCEPT !.owed = TRUE]
             n == [strmRun[i] EXCEPT !.owed = FALSE]
  <2>1. strmRun'[i] = IF strmRun[i].at = "scan" /\ strmRun[i].task = t /\ s \in Strm!Paused THEN y
                      ELSE IF strmRun[i].task = t /\ s \notin Strm!Paused THEN n
                      ELSE strmRun[i]
    BY <1>2 DEF Strm!Owe, Alive
  <2>2. strmRun[i] \in RunRecords
    BY <1>2, StrmRecords DEF StrmInv
  <2>3. /\ y.at = strmRun[i].at /\ y.task = strmRun[i].task /\ y.read = strmRun[i].read /\ y.owed = TRUE
        /\ n.at = strmRun[i].at /\ n.task = strmRun[i].task /\ n.read = strmRun[i].read /\ n.owed = FALSE
    BY <2>2 DEF RunRecords
  <2> HIDE DEF y, n
  <2> QED
    BY <2>1, <2>3
<1> QED
  BY <1>1, <1>2

LEMMA RowsStored ==
  ASSUME StrmInv, NEW t \in StrmIds, NEW s \in Strm!Status, s # "none", Strm!Store(t, s)
  PROVE  RowsStand
BY DEF Strm!Store, RowsStand, StrmInv, Strm!TypeOK

\* The start of the program, the scheduler and the start of a run.
LEMMA BornElsewhere ==
  ASSUME StrmInv, Born,
         \/ Strm!Tick \/ Strm!Ready \/ Strm!Restart
         \/ \E t \in StrmIds : Strm!Create(t) \/ Strm!NoticeStale(t)
         \/ \E a \in Strm!Accounts : Strm!OnFileMutated(a)
         \/ UNCHANGED strmVars
  PROVE  BornStep
<1> USE DEF Strm!ownVars, Strm!envVars, BornStep
<1>1. CASE Strm!Tick
  <2>1. TasksFrom
    BY <1>1 DEF Strm!Tick, TasksFrom, Born
  <2> QED
    BY <1>1, <2>1, BornSame DEF Strm!Tick
<1>2. CASE Strm!Ready
  BY <1>2, BornSame DEF Strm!Ready
<1>3. CASE Strm!Restart
  <2>1. TasksFrom /\ RowsStand
    BY <1>3 DEF Strm!Restart, TasksFrom, RowsStand
  <2>2. RunsFrom
    BY <1>3, StrmNone DEF Strm!Restart, RunsFrom
  <2>3. CallsFrom
    BY <1>3, StrmNone, StrmRecords DEF Strm!Restart, CallsFrom, StrmInv
  <2> QED
    BY <2>1, <2>2, <2>3
<1>4. ASSUME NEW t \in StrmIds, Strm!Create(t) PROVE BornStep
  <2>1. RowsStand
    BY <1>4 DEF Strm!Create, RowsStand, StrmInv, Strm!TypeOK
  <2> QED
    BY <1>4, <2>1, BornSame DEF Strm!Create
<1>5. ASSUME NEW t \in StrmIds, Strm!NoticeStale(t) PROVE BornStep
  <2>1. TasksFrom
    BY <1>5 DEF Strm!NoticeStale, TasksFrom, Born
  <2> QED
    BY <1>5, <2>1, BornSame DEF Strm!NoticeStale
<1>6. ASSUME NEW a \in Strm!Accounts, Strm!OnFileMutated(a) PROVE BornStep
  BY <1>6, BornSame DEF Strm!OnFileMutated
<1>7. CASE UNCHANGED strmVars
  BY <1>7, BornSame DEF strmVars
<1> QED
  BY <1>1, <1>2, <1>3, <1>4, <1>5, <1>6, <1>7

LEMMA BornJudge ==
  ASSUME StrmInv, Born, NEW t \in StrmIds, NEW auto \in BOOLEAN, NEW elapsed \in BOOLEAN,
         NEW free \in BOOLEAN, Strm!Judge(t, auto, elapsed, free)
  PROVE  BornStep
<1> DEFINE a == Strm!New("tick", t, "start")
<1>1. /\ t \in strmTick /\ strmTick' = strmTick \ {t}
      /\ UNCHANGED <<strmRow, strmStale, strmRun>>
      /\ Strm!Call(Strm!Scheduler, a) \/ UNCHANGED strmCall
  BY DEF Strm!Judge, Strm!envVars
<1>2. a \in PendingCalls /\ a.at = "start" /\ a.op = "tick" /\ a.task = t
  BY NewCalls
<1> HIDE DEF a
<1>3. a \in Strm!Calls /\ strmRow[a.task] # "none" /\ ~Storing(a)
  BY <1>1, <1>2, StrmNone DEF Born, Storing
<1>4. CallsFrom
  <2>1. CASE Strm!Call(Strm!Scheduler, a)
    BY <1>3, <2>1, BornCall DEF Processes
  <2> QED
    BY <1>1, <2>1, BornSame
<1> QED
  BY <1>1, <1>4, BornSame DEF BornStep

LEMMA BornBegin ==
  ASSUME StrmInv, Born, NEW c \in StrmCallers, NEW op \in StrmOps, NEW t \in StrmIds,
         Strm!Begin(c, op, t)
  PROVE  BornStep
<1> DEFINE at == IF op = "stop" THEN "peek" ELSE "get"
           a == Strm!New(op, t, at)
<1>1. /\ strmRow[t] # "none" /\ Strm!Call(c, a)
      /\ UNCHANGED <<strmRow, strmTick, strmStale, strmRun>>
  BY DEF Strm!Begin, Strm!envVars, Strm!Exists
<1>2. a \in PendingCalls /\ a.at = at /\ a.op = op /\ a.task = t
  BY NewCalls
<1>3. a \in Strm!Calls /\ c \in Processes /\ ~Storing(a)
  BY <1>2, StrmNone DEF Processes, Storing
<1> HIDE DEF a
<1>4. CallsFrom
  BY <1>1, <1>2, <1>3, BornCall
<1> QED
  BY <1>1, <1>4, BornSame DEF BornStep

LEMMA DecidesToStore ==
  ASSUME StrmInv, NEW c \in Processes, strmCall[c].at = "get", strmCall[c].op # "run",
         NEW s \in Strm!Status, s # "none"
  PROVE  LET a == Strm!Decides(c, s)
         IN  a.at # "idle" => a.task = strmCall[c].task /\ (Storing(a) => a.value # "none")
<1> DEFINE Good(a) == a.at # "idle" => /\ a.task = strmCall[c].task
                                       /\ Storing(a) => a.value # "none"
<1>1. Waits(c) /\ strmCall[c].op \in {"pause", "resume", "toggle", "update", "delete"}
  BY DEF Waits, StrmInv, CallShape
<1>2. strmCall[c] \in PendingCalls
  BY <1>1, StrmRecords DEF StrmInv
<1>3. \A at \in {"put", "peek"}, v \in Strm!Status \ {"none"} :
        Good([strmCall[c] EXCEPT !.at = at, !.value = v])
  BY <1>2 DEF PendingCalls
<1>4. \A v \in Strm!Status \ {"none"} : Good(Strm!Put(c, v))
  BY <1>3 DEF Strm!Put
<1>5. \A at \in {"put", "peek"}, v \in Strm!Status :
        [Strm!Put(c, v) EXCEPT !.at = at] = [strmCall[c] EXCEPT !.at = at, !.value = v]
  BY <1>2 DEF PendingCalls, Strm!Put
<1>6. {"auth", "active", "user"} \subseteq Strm!Status \ {"none"}
  BY DEF Strm!Status, Strm!Paused
<1>7. Good(Strm!Idle)
  BY StrmNone
<1>8. strmCall[c].op = "delete" => Good([strmCall[c] EXCEPT !.at = "peek"])
  BY <1>2 DEF PendingCalls, Storing
<1> HIDE DEF Good
<1>9. CASE strmCall[c].op = "toggle"
  <2> DEFINE at == IF s = "running" THEN "peek" ELSE "put"
  <2>1. Strm!Decides(c, s) = IF s \in Strm!Paused THEN Strm!Put(c, "active")
                             ELSE [Strm!Put(c, "user") EXCEPT !.at = at]
    BY <1>9 DEF Strm!Decides
  <2>2. at \in {"put", "peek"}
    OBVIOUS
  <2> HIDE DEF at
  <2>3. [Strm!Put(c, "user") EXCEPT !.at = at] = [strmCall[c] EXCEPT !.at = at, !.value = "user"]
    BY <1>5, <1>6, <2>2
  <2>4. Good([Strm!Put(c, "user") EXCEPT !.at = at])
    BY <1>3, <1>6, <2>2, <2>3
  <2>5. Good(Strm!Put(c, "active"))
    BY <1>4, <1>6
  <2>6. Good(Strm!Decides(c, s))
    BY <2>1, <2>4, <2>5
  <2> QED
    BY <2>6 DEF Good
<1>10. CASE strmCall[c].op # "toggle"
  <2>1. Good(Strm!Put(c, "auth")) /\ Good(Strm!Put(c, "active")) /\ Good(Strm!Put(c, s))
    BY <1>4, <1>6
  <2>2. \/ Strm!Decides(c, s) \in {Strm!Idle, Strm!Put(c, "auth"), Strm!Put(c, "active"), Strm!Put(c, s)}
        \/ /\ strmCall[c].op = "delete"
           /\ Strm!Decides(c, s) = [strmCall[c] EXCEPT !.at = "peek"]
    BY <1>1, <1>10 DEF Strm!Decides
  <2>3. Good(Strm!Decides(c, s))
    BY <1>7, <1>8, <2>1, <2>2
  <2> QED
    BY <2>3 DEF Good
<1> QED
  BY <1>9, <1>10

\* Handlers that store nothing.
LEMMA BornHandles ==
  ASSUME StrmInv, Born, NEW c \in StrmCallers, NEW free \in BOOLEAN,
         Strm!Get(c) \/ Strm!RunTaskNow(c, free) \/ Strm!Peek(c) \/ Strm!Wipe(c)
  PROVE  BornStep
<1> DEFINE t == strmCall[c].task
<1> USE DEF Strm!envVars, Strm!ownVars
<1>0. c \in Processes
  BY DEF Processes
<1>1. UNCHANGED <<strmRow, strmTick, strmStale, strmRun>>
  BY DEF Strm!Get, Strm!RunTaskNow, Strm!Peek, Strm!Wipe
<1>2. CASE Strm!Get(c)
  <2>1. Waits(c) /\ t \in StrmIds
    BY <1>0, <1>2, StrmRecords DEF Strm!Get, Waits, StrmInv
  <2>2. ASSUME Strm!Call(c, Strm!Idle) PROVE CallsFrom
    BY <1>0, <2>1, <2>2, BornGoto
  <2>3. ASSUME strmRow[t] # "none", Strm!Call(c, Strm!Decides(c, strmRow[t]))
        PROVE  CallsFrom
    <3> DEFINE a == Strm!Decides(c, strmRow[t])
    <3>1. PICK s \in Strm!Status : s = strmRow[t]
      BY <2>1 DEF StrmInv, Strm!TypeOK
    <3>2. /\ a \in Strm!Calls
          /\ a.at # "idle" => a.task = t /\ (Storing(a) => a.value # "none")
      BY <1>0, <1>2, <2>3, <3>1, StrmDecides, DecidesToStore DEF Strm!Get
    <3>3. Strm!Call(c, a)
      BY <2>3
    <3> HIDE DEF a
    <3> QED
      BY <1>0, <2>3, <3>2, <3>3, BornCall
  <2>4. CallsFrom
    BY <1>2, <2>2, <2>3 DEF Strm!Get, Strm!Exists
  <2> QED
    BY <1>1, <2>4, BornSame DEF BornStep
<1>3. CASE Strm!RunTaskNow(c, free)
  <2>1. Waits(c)
    BY <1>3 DEF Strm!RunTaskNow, Waits
  <2>2. Strm!Call(c, Strm!Idle) \/ (Strm!Goto(c, "start") /\ strmCall[c].op # "toggle")
    BY <1>3 DEF Strm!RunTaskNow
  <2>3. CallsFrom
    BY <1>0, <2>1, <2>2, BornGoto
  <2> QED
    BY <1>1, <2>3, BornSame DEF BornStep
<1>4. CASE Strm!Peek(c)
  <2>1. Waits(c) /\ strmCall[c].at = "peek" /\ t \in StrmIds
    BY <1>0, <1>4, StrmRecords DEF Strm!Peek, Waits, StrmInv
  <2>2. ASSUME Strm!Call(c, Strm!AfterStop(c)) PROVE CallsFrom
    <3>1. \/ strmCall[c].op = "toggle" /\ Strm!Goto(c, "put")
          \/ strmCall[c].op = "delete" /\ Strm!Goto(c, "erase")
          \/ Strm!Call(c, Strm!Idle)
      BY <2>2 DEF Strm!AfterStop, Strm!Goto
    <3> QED
      BY <1>0, <2>1, <3>1, BornGoto DEF Storing
  <2>3. ASSUME Strm!Call(c, [strmCall[c] EXCEPT !.at = "drop", !.cancel = strmMarks.cancel[t]])
        PROVE  CallsFrom
    <3> DEFINE n == strmMarks.cancel[t]
               a == [strmCall[c] EXCEPT !.at = "drop", !.cancel = n]
    <3>1. n \in 0..StrmRuns
      BY <2>1 DEF StrmInv, Strm!TypeOK
    <3>2. strmCall[c] \in PendingCalls
      BY <1>0, <2>1, StrmRecords DEF StrmInv
    <3>3. /\ a \in PendingCalls /\ a.at = "drop" /\ a.op = strmCall[c].op
          /\ a.task = strmCall[c].task /\ a.value = strmCall[c].value
      BY <3>1, <3>2 DEF PendingCalls
    <3>4. Strm!Call(c, a)
      BY <2>3
    <3> HIDE DEF a
    <3>5. a \in Strm!Calls /\ strmRow[a.task] # "none" /\ (Storing(a) => a.value # "none")
      BY <1>0, <2>1, <3>3, StrmNone DEF Born, Storing
    <3> QED
      BY <1>0, <3>4, <3>5, BornCall
  <2>4. CallsFrom
    BY <1>4, <2>2, <2>3 DEF Strm!Peek
  <2> QED
    BY <1>1, <2>4, BornSame DEF BornStep
<1>5. CASE Strm!Wipe(c)
  <2>1. Waits(c) /\ Strm!Call(c, Strm!Idle)
    BY <1>5 DEF Strm!Wipe, Waits
  <2>2. CallsFrom
    BY <1>0, <2>1, BornGoto
  <2> QED
    BY <1>1, <2>2, BornSame DEF BornStep
<1> QED
  BY <1>2, <1>3, <1>4, <1>5

\* Handlers that change a row or a run.
LEMMA BornStores ==
  ASSUME StrmInv, Born, NEW c \in StrmCallers, Strm!Save(c) \/ Strm!Drop(c) \/ Strm!Erase(c)
  PROVE  BornStep
<1> DEFINE t == strmCall[c].task
<1> USE DEF Strm!envVars, Strm!ownVars
<1>1. c \in Processes /\ Waits(c) /\ UNCHANGED <<strmTick, strmStale>>
  BY DEF Strm!Save, Strm!Drop, Strm!Erase, Waits, Processes
<1>2. t \in StrmIds /\ strmCall[c].value \in Strm!Status
  BY <1>1, StrmRecords DEF StrmInv
<1>3. TasksFrom
  BY <1>1, BornSame
<1>4. CASE Strm!Save(c)
  <2>1. PICK t0 \in StrmIds, s0 \in Strm!Status : t0 = t /\ s0 = strmCall[c].value
    BY <1>2
  <2>2. s0 # "none"
    BY <1>1, <1>4, <2>1 DEF Strm!Save, Born, Storing
  <2>3. Strm!Store(t0, s0) /\ strmRun' = Strm!Owe(t0, s0)
    BY <1>4, <2>1 DEF Strm!Save
  <2>4. RowsStand
    BY <2>2, <2>3, RowsStored
  <2>5. RunsFrom
    BY <2>3, OweNotes, BornNoted
  <2>6. Strm!Call(c, Strm!Idle) \/ (Strm!Goto(c, "peek") /\ strmCall[c].op # "toggle")
    BY <1>4 DEF Strm!Save
  <2>7. CallsFrom
    BY <1>1, <2>6, BornGoto
  <2> QED
    BY <1>3, <2>4, <2>5, <2>7 DEF BornStep
<1>5. CASE Strm!Drop(c)
  <2> DEFINE i == strmCall[c].cancel
  <2>1. /\ strmCall[c].at = "drop" /\ Strm!Call(c, Strm!AfterStop(c)) /\ UNCHANGED strmRow
        /\ \/ UNCHANGED strmRun
           \/ i \in Strm!Slots /\ strmRun' = [strmRun EXCEPT ![i].canceled = TRUE]
    BY <1>5 DEF Strm!Drop
  <2>2. \/ strmCall[c].op = "toggle" /\ Strm!Goto(c, "put")
        \/ strmCall[c].op = "delete" /\ Strm!Goto(c, "erase")
        \/ Strm!Call(c, Strm!Idle)
    BY <2>1 DEF Strm!AfterStop, Strm!Goto
  <2>3. CallsFrom
    BY <1>1, <2>1, <2>2, BornGoto DEF Storing
  <2>4. \A j \in Strm!Slots : /\ strmRun'[j].at = strmRun[j].at
                              /\ Alive(j) => /\ strmRun'[j].task = strmRun[j].task
                                             /\ strmRun'[j].read = strmRun[j].read
    <3>1. CASE i \in Strm!Slots /\ strmRun' = [strmRun EXCEPT ![i].canceled = TRUE]
      <4>1. i # 0
        BY <3>1, JobsAssumption DEF Strm!Slots
      <4>2. Alive(i)
        BY <1>1, <4>1 DEF StrmInv, CallShape, Alive
      <4>3. strmRun[i] \in RunRecords
        BY <3>1, <4>2, StrmRecords DEF StrmInv
      <4> DEFINE r == [strmRun[i] EXCEPT !.canceled = TRUE]
      <4>4. r.at = strmRun[i].at /\ r.task = strmRun[i].task /\ r.read = strmRun[i].read
        BY <4>3 DEF RunRecords
      <4>5. strmRun' = [strmRun EXCEPT ![i] = r]
        BY <3>1
      <4> HIDE DEF r
      <4>6. \A j \in Strm!Slots : strmRun'[j] = IF j = i THEN r ELSE strmRun[j]
        BY <4>5, StrmRecords DEF StrmInv
      <4> QED
        BY <4>4, <4>6
    <3> QED
      BY <2>1, <3>1
  <2>5. RunsFrom
    BY <2>4, BornNoted
  <2> QED
    BY <1>3, <2>1, <2>3, <2>5, BornSame DEF BornStep
<1>6. CASE Strm!Erase(c)
  <2>1. /\ UNCHANGED strmRun /\ strmRow' = [strmRow EXCEPT ![t] = "gone"]
        /\ Strm!Goto(c, "wipe")
    BY <1>6 DEF Strm!Erase
  <2>2. RowsStand
    BY <2>1, <1>2 DEF RowsStand, StrmInv, Strm!TypeOK
  <2>3. CallsFrom
    BY <1>1, <2>1, BornGoto
  <2> QED
    BY <1>3, <2>1, <2>2, <2>3, BornSame DEF BornStep
<1> QED
  BY <1>4, <1>5, <1>6

LEMMA BornFixStale ==
  ASSUME StrmInv, Born, NEW t \in StrmIds, Strm!FixStale(t)
  PROVE  BornStep
<1>1. /\ Strm!Store(t, "active") /\ strmRun' = Strm!Owe(t, "active")
      /\ UNCHANGED <<strmTick, strmCall>> /\ strmStale' = strmStale \ {t}
  BY DEF Strm!FixStale, Strm!envVars, Strm!ownVars
<1>2. "active" \in Strm!Status /\ "active" # "none"
  BY DEF Strm!Status
<1>3. RowsStand
  BY <1>1, <1>2, RowsStored
<1>4. RunsFrom
  BY <1>1, <1>2, OweNotes, BornNoted
<1> QED
  BY <1>1, <1>3, <1>4, BornSame DEF BornStep

\* A run begins.
LEMMA BornStarts ==
  ASSUME StrmInv, Born, NEW c \in Processes, NEW free \in BOOLEAN, Strm!Start(c, free) \/ Strm!Mark(c)
  PROVE  BornStep
<1> DEFINE t == strmCall[c].task
<1> USE DEF Strm!envVars
<1>1. Waits(c) /\ UNCHANGED <<strmRow, strmTick, strmStale>>
  BY DEF Strm!Start, Strm!Mark, Waits
<1>2. CASE Strm!Start(c, free)
  <2>1. UNCHANGED strmRun /\ strmCall[c].at = "start"
    BY <1>2 DEF Strm!Start
  <2>2. Strm!Call(c, Strm!Idle) \/ Strm!Goto(c, "mark")
    BY <1>2 DEF Strm!Start
  <2>3. CallsFrom
    BY <1>1, <2>2, BornGoto
  <2> QED
    BY <1>1, <2>1, <2>3, BornSame DEF BornStep
<1>3. CASE Strm!Mark(c)
  <2>1. CallsFrom
    BY <1>1, <1>3, BornGoto DEF Strm!Mark
  <2> DEFINE r == [at |-> "register", task |-> t, canceled |-> FALSE, read |-> "none", owed |-> FALSE]
  <2>2. UNCHANGED strmRun \/ \E i \in Strm!Slots : strmRun' = [strmRun EXCEPT ![i] = r]
    BY <1>3 DEF Strm!Mark
  <2>3. r.at = "register" /\ r.task = t
    OBVIOUS
  <2> HIDE DEF r
  <2>4. strmRow[t] # "none"
    BY <1>1 DEF Born
  <2>5. ASSUME NEW i \in Strm!Slots, strmRun' = [strmRun EXCEPT ![i] = r] PROVE RunsFrom
    <3>1. \A j \in Strm!Slots : strmRun'[j] = IF j = i THEN r ELSE strmRun[j]
      BY <2>5, StrmRecords DEF StrmInv
    <3> QED
      BY <2>3, <2>4, <3>1 DEF RunsFrom, Born, Alive
  <2>6. RunsFrom
    BY <2>2, <2>5, BornSame
  <2> QED
    BY <1>1, <2>1, <2>6, BornSame DEF BornStep
<1> QED
  BY <1>2, <1>3

LEMMA BornRun ==
  ASSUME StrmInv, Born, NEW i \in Strm!Slots, NEW r, strmRun' = [strmRun EXCEPT ![i] = r],
         r.at # "none" => /\ strmRow[r.task] # "none"
                          /\ r.at = "write" => r.read # "none"
  PROVE  RunsFrom
<1>1. \A j \in Strm!Slots : strmRun'[j] = IF j = i THEN r ELSE strmRun[j]
  BY StrmRecords DEF StrmInv
<1> QED
  BY <1>1 DEF Born, RunsFrom, Alive

\* The steps of a run.
LEMMA BornRunSteps ==
  ASSUME StrmInv, Born, NEW i \in Strm!Slots, Strm!RunStep(i)
  PROVE  BornStep
<1> DEFINE t == strmRun[i].task
<1> USE DEF Strm!ofRun, Strm!envVars
<1>1. /\ strmRun[i].at # "none" /\ UNCHANGED <<strmTick, strmStale>>
      /\ \/ \E at \in Strm!Working : /\ at = "write" => strmRun[i].at = "write"
                                     /\ strmRun' = [strmRun EXCEPT ![i] = [@ EXCEPT !.at = at]]
         \/ strmRun' = [strmRun EXCEPT ![i] = [@ EXCEPT !.at = "write", !.read = Strm!Final(t)]]
         \/ strmRun' = [strmRun EXCEPT ![i] = Strm!NoRun]
      /\ \/ UNCHANGED strmRow
         \/ Strm!Store(t, "running") \/ Strm!Store(t, "auth")
         \/ strmRun[i].at = "write" /\ Strm!Store(t, strmRun[i].read)
  <2> USE DEF Strm!To, Strm!Working, Strm!Marked
  <2>1. CASE Strm!Register(i)
    BY <2>1 DEF Strm!Register
  <2>2. CASE Strm!Open(i)
    BY <2>2 DEF Strm!Open
  <2>3. CASE Strm!Scan(i)
    BY <2>3 DEF Strm!Scan
  <2>4. CASE Strm!Read(i)
    BY <2>4 DEF Strm!Read
  <2>5. CASE Strm!Write(i)
    BY <2>5 DEF Strm!Write
  <2>6. CASE Strm!AuthGet(i)
    BY <2>6 DEF Strm!AuthGet
  <2>7. CASE Strm!AuthPut(i)
    BY <2>7 DEF Strm!AuthPut
  <2>8. CASE Strm!PeekOwn(i)
    BY <2>8 DEF Strm!PeekOwn
  <2>9. CASE Strm!DropOwn(i)
    BY <2>9 DEF Strm!DropOwn
  <2>10. CASE Strm!Clear(i)
    BY <2>10 DEF Strm!Clear
  <2>11. CASE Strm!Release(i)
    BY <2>11 DEF Strm!Release
  <2> QED
    BY <2>1, <2>2, <2>3, <2>4, <2>5, <2>6, <2>7, <2>8, <2>9, <2>10, <2>11 DEF Strm!RunStep
<1>2. strmRun[i] \in RunRecords /\ Alive(i)
  BY <1>1, StrmRecords DEF StrmInv, Alive
<1>3. t \in StrmIds /\ strmRun[i].read \in Strm!Status /\ strmRow[t] # "none"
  BY <1>2 DEF RunRecords, Born
<1>4. RowsStand
  <2>1. PICK t0 \in StrmIds, s0 \in Strm!Status : t0 = t /\ s0 = strmRun[i].read
    BY <1>3
  <2>2. {"running", "auth"} \subseteq Strm!Status
    BY DEF Strm!Status, Strm!Paused
  <2>3. strmRun[i].at = "write" => s0 # "none"
    BY <1>2, <2>1 DEF Born
  <2>4. CASE UNCHANGED strmRow
    BY <2>4, BornSame
  <2>5. CASE Strm!Store(t, "running")
    BY <2>1, <2>2, <2>5, RowsStored
  <2>6. CASE Strm!Store(t, "auth")
    BY <2>1, <2>2, <2>6, RowsStored
  <2>7. CASE strmRun[i].at = "write" /\ Strm!Store(t, strmRun[i].read)
    BY <2>1, <2>3, <2>7, RowsStored
  <2> QED
    BY <1>1, <2>4, <2>5, <2>6, <2>7
<1>5. RunsFrom
  <2>1. ASSUME NEW at \in Strm!Working, at = "write" => strmRun[i].at = "write",
               strmRun' = [strmRun EXCEPT ![i] = [@ EXCEPT !.at = at]]
        PROVE  RunsFrom
    <3> DEFINE r == [strmRun[i] EXCEPT !.at = at]
    <3>1. r.at = at /\ r.task = t /\ r.read = strmRun[i].read
      BY <1>2 DEF RunRecords
    <3>2. strmRun' = [strmRun EXCEPT ![i] = r]
      BY <2>1
    <3> HIDE DEF r
    <3>3. r.at = "write" => r.read # "none"
      BY <1>2, <2>1, <3>1 DEF Born
    <3> QED
      BY <1>3, <3>1, <3>2, <3>3, BornRun
  <2>2. ASSUME strmRun' = [strmRun EXCEPT ![i] = [@ EXCEPT !.at = "write", !.read = Strm!Final(t)]]
        PROVE  RunsFrom
    <3> DEFINE f == Strm!Final(t)
               r == [strmRun[i] EXCEPT !.at = "write", !.read = f]
    <3>1. f # "none"
      BY <1>3 DEF Strm!Final
    <3>2. strmRun' = [strmRun EXCEPT ![i] = r]
      BY <2>2
    <3> HIDE DEF f
    <3>3. r.at = "write" /\ r.task = t /\ r.read = f
      BY <1>2 DEF RunRecords
    <3> HIDE DEF r
    <3> QED
      BY <1>3, <3>1, <3>2, <3>3, BornRun
  <2>3. ASSUME strmRun' = [strmRun EXCEPT ![i] = Strm!NoRun] PROVE RunsFrom
    BY <2>3, StrmNone, BornRun
  <2> QED
    BY <1>1, <2>1, <2>2, <2>3
<1>6. CallsFrom
  <2>1. CASE UNCHANGED strmCall
    BY <2>1, BornSame
  <2>2. CASE Strm!Release(i)
    <3> SUFFICES ASSUME NEW c \in Processes, strmCall'[c].at # "idle"
                 PROVE  /\ strmRow[strmCall'[c].task] # "none"
                        /\ Storing(strmCall'[c]) => strmCall'[c].value # "none"
      BY DEF CallsFrom
    <3>1. strmCall'[c] = IF strmCall[c].at # "idle" /\ strmCall[c].cancel = i
                         THEN [strmCall[c] EXCEPT !.cancel = 0] ELSE strmCall[c]
      BY <2>2, StrmRecords DEF Strm!Release, StrmInv
    <3>2. CASE strmCall[c].at # "idle" /\ strmCall[c].cancel = i
      <4>1. strmCall[c] \in PendingCalls
        BY <3>2, StrmRecords DEF StrmInv, Waits
      <4> DEFINE a == [strmCall[c] EXCEPT !.cancel = 0]
      <4>2. /\ a.at = strmCall[c].at /\ a.op = strmCall[c].op
            /\ a.task = strmCall[c].task /\ a.value = strmCall[c].value
        BY <4>1 DEF PendingCalls
      <4>3. strmCall'[c] = a
        BY <3>1, <3>2
      <4> HIDE DEF a
      <4> QED
        BY <3>2, <4>2, <4>3 DEF Born, Waits, Storing
    <3>3. CASE ~(strmCall[c].at # "idle" /\ strmCall[c].cancel = i)
      <4>1. strmCall'[c] = strmCall[c]
        BY <3>1, <3>3
      <4> QED
        BY <4>1 DEF Born, Waits, Storing
    <3> QED
      BY <3>2, <3>3
  <2> QED
    BY <2>1, <2>2 DEF Strm!RunStep, Strm!Register, Strm!Open, Strm!Scan, Strm!Read, Strm!Write,
                      Strm!AuthGet, Strm!AuthPut, Strm!PeekOwn, Strm!DropOwn, Strm!Clear
<1> QED
  BY <1>1, <1>4, <1>5, <1>6, BornSame DEF BornStep

LEMMA BornInit == Strm!Init => Born
<1> SUFFICES ASSUME Strm!Init PROVE Born
  OBVIOUS
<1>1. /\ \A c \in Processes : ~Waits(c)
      /\ \A i \in Strm!Slots : ~Alive(i)
  BY StrmNone DEF Strm!Init, Waits, Alive, Processes
<1> QED
  BY <1>1 DEF Born, Strm!Init

LEMMA BornNext == StrmInv /\ StrmInv' /\ Born /\ [Strm!Next]_strmVars => Born'
<1> SUFFICES ASSUME StrmInv, StrmInv', Born, [Strm!Next]_strmVars PROVE BornStep
  BY BornGoesOn DEF StrmInv
<1> USE DEF Processes
<1>1. CASE UNCHANGED strmVars
  BY <1>1, BornElsewhere
<1>2. CASE Strm!Tick \/ Strm!Ready \/ Strm!Restart \/ \E a \in Strm!Accounts : Strm!OnFileMutated(a)
  BY <1>2, BornElsewhere
<1>3. ASSUME NEW t \in StrmIds, NEW auto \in BOOLEAN, NEW elapsed \in BOOLEAN,
             NEW free \in BOOLEAN, Strm!Judge(t, auto, elapsed, free)
      PROVE  BornStep
  BY <1>3, BornJudge
<1>4. ASSUME NEW t \in StrmIds, Strm!Create(t) \/ Strm!NoticeStale(t) \/ Strm!FixStale(t)
      PROVE  BornStep
  BY <1>4, BornElsewhere, BornFixStale
<1>5. ASSUME NEW c \in StrmCallers, NEW op \in StrmOps, NEW t \in StrmIds, Strm!Begin(c, op, t)
      PROVE  BornStep
  BY <1>5, BornBegin
<1>6. ASSUME NEW c \in StrmCallers, Strm!Handles(c) PROVE BornStep
  BY <1>6, BornHandles, BornStores DEF Strm!Handles
<1>7. ASSUME NEW c \in StrmCallers \cup {Strm!Scheduler}, Strm!Starts(c) PROVE BornStep
  BY <1>7, BornStarts DEF Strm!Starts
<1>8. ASSUME NEW i \in Strm!Slots, Strm!RunStep(i) PROVE BornStep
  BY <1>8, BornRunSteps
<1> QED
  BY <1>1, <1>2, <1>3, <1>4, <1>5, <1>6, <1>7, <1>8 DEF Strm!Next

-----------------------------------------------------------------------------
\* A pause that was stored during a scan is in the row, and what the end of the scan
\* will store is that pause; a run that has not opened its row has been told of none.
PauseStands ==
  \A i \in Strm!Slots :
    /\ strmRun[i].at \in {"register", "open"} => ~strmRun[i].owed
    /\ Alive(i) /\ strmRun[i].owed => strmRow[strmRun[i].task] \in Strm!Paused \cup {"gone"}
    /\ strmRun[i].at = "write" /\ strmRun[i].owed => strmRun[i].read \in Strm!Paused

PauseInv == StrmInv /\ Born /\ PauseStands

LEMMA PauseKept ==
  ASSUME PauseStands,
         \A i \in Strm!Slots : strmRun'[i].at # "none" /\ strmRun'[i].owed =>
           /\ Alive(i) /\ strmRun[i].owed /\ strmRun'[i].task = strmRun[i].task
           /\ strmRun'[i].at \in {"register", "open"} => strmRun[i].at \in {"register", "open"}
           /\ strmRun'[i].at = "write" =>
                \/ strmRun[i].at = "write" /\ strmRun'[i].read = strmRun[i].read
                \/ strmRun'[i].read \in Strm!Paused
           /\ strmRow'[strmRun[i].task] \in {strmRow[strmRun[i].task], "gone"} \cup Strm!Paused
  PROVE  PauseStands'
<1> SUFFICES ASSUME NEW i \in Strm!Slots, strmRun'[i].at # "none", strmRun'[i].owed
             PROVE  /\ strmRun'[i].at \notin {"register", "open"}
                    /\ strmRow'[strmRun'[i].task] \in Strm!Paused \cup {"gone"}
                    /\ strmRun'[i].at = "write" => strmRun'[i].read \in Strm!Paused
  BY DEF PauseStands, Alive
<1> QED
  BY DEF PauseStands

\* Steps that change no row and no run, and those that end or begin one.
LEMMA PauseElsewhere ==
  ASSUME PauseInv,
         \/ UNCHANGED <<strmRow, strmRun>>
         \/ Strm!Restart
         \/ \E c \in StrmCallers : Strm!Erase(c)
         \/ \E t \in StrmIds : Strm!Create(t)
  PROVE  PauseStands'
<1> USE DEF PauseInv
<1>1. CASE UNCHANGED <<strmRow, strmRun>>
  BY <1>1, PauseKept DEF PauseStands, Alive
<1>2. CASE Strm!Restart
  BY <1>2, StrmNone, PauseKept DEF Strm!Restart
<1>3. ASSUME NEW t \in StrmIds, UNCHANGED strmRun,
             \A u \in StrmIds : u # t => strmRow'[u] = strmRow[u],
             strmRow[t] = "none" \/ strmRow'[t] = "gone"
      PROVE  PauseStands'
  <2>1. \A i \in Strm!Slots : Alive(i) => strmRun[i].task \in StrmIds /\ strmRow[strmRun[i].task] # "none"
    BY StrmRecords DEF StrmInv, Born
  <2>2. \A i \in Strm!Slots : Alive(i) =>
          strmRow'[strmRun[i].task] \in {strmRow[strmRun[i].task], "gone"} \cup Strm!Paused
    BY <1>3, <2>1
  <2> QED
    BY <1>3, <2>2, PauseKept DEF Alive
<1>4. ASSUME NEW t \in StrmIds, Strm!Create(t) PROVE PauseStands'
  <2>1. UNCHANGED strmRun /\ \A u \in StrmIds : u # t => strmRow'[u] = strmRow[u]
    BY <1>4 DEF Strm!Create, StrmInv, Strm!TypeOK
  <2> QED
    BY <1>3, <1>4, <2>1 DEF Strm!Create
<1>5. ASSUME NEW c \in StrmCallers, Strm!Erase(c) PROVE PauseStands'
  <2>1. strmCall[c].task \in StrmIds
    BY <1>5, StrmRecords DEF Strm!Erase, Waits, Processes, StrmInv
  <2>2. PICK t \in StrmIds : t = strmCall[c].task
    BY <2>1
  <2>3. UNCHANGED strmRun /\ strmRow' = [strmRow EXCEPT ![t] = "gone"]
    BY <1>5, <2>2 DEF Strm!Erase, Strm!ownVars
  <2>4. strmRow'[t] = "gone" /\ \A u \in StrmIds : u # t => strmRow'[u] = strmRow[u]
    BY <2>3 DEF StrmInv, Strm!TypeOK
  <2> QED
    BY <1>3, <2>3, <2>4
<1> QED
  BY <1>1, <1>2, <1>4, <1>5

\* Somebody stores a status: a pause is noted in the scan, and anything else
\* forgets it.
LEMMA PauseStored ==
  ASSUME PauseInv, NEW t \in StrmIds, NEW s \in Strm!Status, s # "none",
         Strm!Store(t, s), strmRun' = Strm!Owe(t, s)
  PROVE  PauseStands'
<1> USE DEF PauseInv
<1> SUFFICES ASSUME NEW i \in Strm!Slots, strmRun'[i].at # "none", strmRun'[i].owed
             PROVE  /\ strmRun'[i].at \notin {"register", "open"}
                    /\ strmRow'[strmRun'[i].task] \in Strm!Paused \cup {"gone"}
                    /\ strmRun'[i].at = "write" => strmRun'[i].read \in Strm!Paused
  BY DEF PauseStands, Alive
<1>1. /\ strmRun'[i].at = strmRun[i].at /\ Alive(i)
      /\ strmRun'[i].task = strmRun[i].task /\ strmRun'[i].read = strmRun[i].read
      /\ strmRun'[i].owed =
           (IF strmRun[i].at = "scan" /\ strmRun[i].task = t /\ s \in Strm!Paused THEN TRUE
            ELSE IF strmRun[i].task = t /\ s \notin Strm!Paused THEN FALSE
            ELSE strmRun[i].owed)
  BY OweNotes DEF Alive
<1>2. strmRun[i].task \in StrmIds /\ strmRow[strmRun[i].task] # "none"
  BY <1>1, StrmRecords DEF StrmInv, Born
<1>3. strmRow \in [StrmIds -> Strm!Status]
  BY DEF StrmInv, Strm!TypeOK
<1>4. CASE strmRun[i].task # t
  <2>1. strmRow'[strmRun[i].task] = strmRow[strmRun[i].task]
    BY <1>2, <1>3, <1>4 DEF Strm!Store
  <2>2. strmRun[i].owed
    BY <1>1, <1>4
  <2> QED
    BY <1>1, <2>1, <2>2 DEF PauseStands
<1>5. CASE strmRun[i].task = t
  <2>1. s \in Strm!Paused
    BY <1>1, <1>5
  <2>2. strmRow'[t] \in Strm!Paused \cup {"gone"}
    BY <1>2, <1>3, <1>5, <2>1 DEF Strm!Store, Strm!Exists
  <2>3. strmRun[i].at # "scan" => strmRun[i].owed
    BY <1>1, <1>5, <2>1
  <2> QED
    BY <1>1, <1>5, <2>2, <2>3 DEF PauseStands
<1> QED
  BY <1>4, <1>5

\* A run is told to stop, and another one begins.
LEMMA PauseOfOthers ==
  ASSUME PauseInv, \/ \E c \in StrmCallers : Strm!Drop(c)
                   \/ \E c \in Processes : Strm!Mark(c)
  PROVE  PauseStands'
<1> USE DEF PauseInv
<1>1. ASSUME NEW c \in StrmCallers, Strm!Drop(c) PROVE PauseStands'
  <2> DEFINE i == strmCall[c].cancel
             r == [strmRun[i] EXCEPT !.canceled = TRUE]
  <2>1. /\ UNCHANGED strmRow /\ Waits(c) /\ c \in Processes
        /\ UNCHANGED strmRun \/ (i \in Strm!Slots /\ strmRun' = [strmRun EXCEPT ![i] = r])
    BY <1>1 DEF Strm!Drop, Waits, Processes
  <2>2. CASE UNCHANGED strmRun
    BY <2>1, <2>2, PauseElsewhere
  <2>3. CASE i \in Strm!Slots /\ strmRun' = [strmRun EXCEPT ![i] = r]
    <3>1. i # 0
      BY <2>3, JobsAssumption DEF Strm!Slots
    <3>2. Alive(i)
      BY <2>1, <3>1 DEF StrmInv, CallShape, Alive
    <3>3. strmRun[i] \in RunRecords
      BY <2>3, <3>2, StrmRecords DEF StrmInv
    <3>4. /\ r.at = strmRun[i].at /\ r.task = strmRun[i].task /\ r.read = strmRun[i].read
          /\ r.owed = strmRun[i].owed
      BY <3>3 DEF RunRecords
    <3> HIDE DEF r
    <3>5. \A j \in Strm!Slots : strmRun'[j] = IF j = i THEN r ELSE strmRun[j]
      BY <2>3, StrmRecords DEF StrmInv
    <3>6. \A j \in Strm!Slots : /\ strmRun'[j].at = strmRun[j].at /\ strmRun'[j].task = strmRun[j].task
                                /\ strmRun'[j].read = strmRun[j].read
                                /\ strmRun'[j].owed = strmRun[j].owed
      BY <3>4, <3>5
    <3> QED
      BY <2>1, <3>6, PauseKept DEF Alive
  <2> QED BY <2>1, <2>2, <2>3
<1>2. ASSUME NEW c \in Processes, Strm!Mark(c) PROVE PauseStands'
  <2> DEFINE r == [at |-> "register", task |-> strmCall[c].task, canceled |-> FALSE,
                   read |-> "none", owed |-> FALSE]
  <2>1. /\ UNCHANGED strmRow
        /\ UNCHANGED strmRun \/ \E i \in Strm!Slots : strmRun' = [strmRun EXCEPT ![i] = r]
    BY <1>2 DEF Strm!Mark
  <2>2. r.owed = FALSE
    OBVIOUS
  <2> HIDE DEF r
  <2>3. ASSUME NEW i \in Strm!Slots, strmRun' = [strmRun EXCEPT ![i] = r] PROVE PauseStands'
    <3>1. \A j \in Strm!Slots : strmRun'[j] = IF j = i THEN r ELSE strmRun[j]
      BY <2>3, StrmRecords DEF StrmInv
    <3>2. \A j \in Strm!Slots : strmRun'[j].owed => strmRun'[j] = strmRun[j]
      BY <2>2, <3>1
    <3> QED
      BY <2>1, <3>2, PauseKept DEF Alive
  <2>4. CASE UNCHANGED strmRun
    BY <2>1, <2>4, PauseElsewhere
  <2> QED BY <2>1, <2>3, <2>4
<1> QED
  BY <1>1, <1>2

\* A run changes its own state and the row of its task, which no other run works on.
LEMMA PauseOwn ==
  ASSUME PauseInv, NEW i \in Strm!Slots, Alive(i), NEW r, strmRun' = [strmRun EXCEPT ![i] = r],
         \A u \in StrmIds : u # strmRun[i].task => strmRow'[u] = strmRow[u],
         r.at # "none" /\ r.owed =>
           /\ r.at \notin {"register", "open"}
           /\ strmRow'[r.task] \in Strm!Paused \cup {"gone"}
           /\ r.at = "write" => r.read \in Strm!Paused
  PROVE  PauseStands'
<1> USE DEF PauseInv
<1>1. \A j \in Strm!Slots : strmRun'[j] = IF j = i THEN r ELSE strmRun[j]
  BY StrmRecords DEF StrmInv
<1>2. ASSUME NEW j \in Strm!Slots, j # i, Alive(j)
      PROVE  strmRow'[strmRun[j].task] = strmRow[strmRun[j].task]
  <2>1. strmRun[i].task \in StrmIds /\ strmRun[j].task \in StrmIds
    BY <1>2, StrmRecords DEF StrmInv
  <2>2. strmRun[i].task # strmRun[j].task
    BY <1>2, <2>1 DEF StrmInv, OneOwner, On
  <2> QED
    BY <2>1, <2>2
<1> SUFFICES ASSUME NEW j \in Strm!Slots, strmRun'[j].at # "none", strmRun'[j].owed
             PROVE  /\ strmRun'[j].at \notin {"register", "open"}
                    /\ strmRow'[strmRun'[j].task] \in Strm!Paused \cup {"gone"}
                    /\ strmRun'[j].at = "write" => strmRun'[j].read \in Strm!Paused
  BY DEF PauseStands, Alive
<1>3. CASE j = i
  BY <1>1, <1>3
<1>4. CASE j # i
  <2>1. strmRun'[j] = strmRun[j] /\ Alive(j)
    BY <1>1, <1>4 DEF Alive
  <2> QED
    BY <1>2, <1>4, <2>1 DEF PauseStands
<1> QED
  BY <1>3, <1>4

LEMMA OtherRows ==
  ASSUME StrmInv, NEW t \in StrmIds, NEW s, Strm!Store(t, s)
  PROVE  /\ \A u \in StrmIds : u # t => strmRow'[u] = strmRow[u]
         /\ strmRow'[t] = IF strmRow[t] \in {"none", "gone"} THEN strmRow[t] ELSE s
BY DEF Strm!Store, Strm!Exists, StrmInv, Strm!TypeOK

\* The steps of a run.
LEMMA PauseRunSteps ==
  ASSUME PauseInv, NEW i \in Strm!Slots, Strm!RunStep(i)
  PROVE  PauseStands'
<1> DEFINE t == strmRun[i].task
           Good == \E r : /\ strmRun' = [strmRun EXCEPT ![i] = r]
                          /\ r.at # "none" /\ r.owed =>
                               /\ r.at \notin {"register", "open"}
                               /\ strmRow'[r.task] \in Strm!Paused \cup {"gone"}
                               /\ r.at = "write" => r.read \in Strm!Paused
<1> USE DEF PauseInv, Strm!ofRun, Strm!envVars
<1>1. Alive(i)
  BY DEF Strm!RunStep, Strm!Register, Strm!Open, Strm!Scan, Strm!Read, Strm!Write, Strm!AuthGet,
         Strm!AuthPut, Strm!PeekOwn, Strm!DropOwn, Strm!Clear, Strm!Release, Alive
<1>2. strmRun[i] \in RunRecords /\ t \in StrmIds /\ strmRow[t] # "none"
  BY <1>1, StrmRecords DEF StrmInv, Born
<1>3. /\ strmRun[i].at \in {"register", "open"} => ~strmRun[i].owed
      /\ strmRun[i].owed => strmRow[t] \in Strm!Paused \cup {"gone"}
      /\ strmRun[i].at = "write" /\ strmRun[i].owed => strmRun[i].read \in Strm!Paused
  BY <1>1 DEF PauseStands
<1>4. ASSUME NEW at, Strm!To(i, at), at # "write",
             \/ at \notin {"register", "open"} /\ strmRow'[t] \in {strmRow[t], "gone"} \cup Strm!Paused
             \/ ~strmRun[i].owed
      PROVE  Good
  <2> DEFINE r == [strmRun[i] EXCEPT !.at = at]
  <2>1. r.at = at /\ r.task = t /\ r.owed = strmRun[i].owed
    BY <1>2 DEF RunRecords
  <2>2. strmRun' = [strmRun EXCEPT ![i] = r]
    BY <1>4 DEF Strm!To
  <2> HIDE DEF r
  <2>3. r.at # "none" /\ r.owed =>
          /\ r.at \notin {"register", "open"}
          /\ strmRow'[r.task] \in Strm!Paused \cup {"gone"}
          /\ r.at # "write"
    BY <1>3, <1>4, <2>1
  <2> QED
    BY <2>2, <2>3
<1>5. PICK t0 \in StrmIds, s0 \in Strm!Status : t0 = t /\ s0 = strmRun[i].read
  BY <1>2 DEF RunRecords
<1>6. ASSUME NEW s, Strm!Store(t, s)
      PROVE  /\ \A u \in StrmIds : u # t => strmRow'[u] = strmRow[u]
             /\ strmRow'[t] = IF strmRow[t] \in {"none", "gone"} THEN strmRow[t] ELSE s
  BY <1>5, <1>6, OtherRows
<1> DEFINE Rows == \A u \in StrmIds : u # t => strmRow'[u] = strmRow[u]
<1>7. ASSUME \/ Strm!Register(i) \/ Strm!Scan(i) \/ Strm!AuthGet(i) \/ Strm!PeekOwn(i)
             \/ Strm!DropOwn(i) \/ Strm!Clear(i)
      PROVE  Good /\ Rows
  <2>1. /\ UNCHANGED strmRow
        /\ \/ strmRun[i].at = "register" /\ Strm!To(i, "open")
           \/ \E at \in {"read", "authGet", "authPut", "clear", "drop", "release"} : Strm!To(i, at)
    BY <1>7 DEF Strm!Register, Strm!Scan, Strm!AuthGet, Strm!PeekOwn, Strm!DropOwn, Strm!Clear
  <2>2. ASSUME strmRun[i].at = "register", Strm!To(i, "open") PROVE Good
    <3>1. ~strmRun[i].owed
      BY <1>3, <2>2
    <3> QED
      BY <1>4, <2>2, <3>1
  <2>3. ASSUME NEW at \in {"read", "authGet", "authPut", "clear", "drop", "release"}, Strm!To(i, at)
        PROVE  Good
    BY <1>4, <2>1, <2>3
  <2> HIDE DEF Good
  <2> QED
    BY <2>1, <2>2, <2>3
<1>8. ASSUME Strm!Open(i) PROVE Good /\ Rows
  <2>1. ~strmRun[i].owed
    BY <1>3, <1>8 DEF Strm!Open
  <2>2. Good
    BY <1>4, <1>8, <2>1 DEF Strm!Open
  <2>3. Rows
    BY <1>6, <1>8 DEF Strm!Open
  <2> QED BY <2>2, <2>3
<1>9. ASSUME Strm!Read(i) PROVE Good /\ Rows
  <2>1. UNCHANGED strmRow
    BY <1>9 DEF Strm!Read
  <2>2. ASSUME Strm!To(i, "clear") PROVE Good
    BY <1>4, <2>1, <2>2
  <2> DEFINE f == Strm!Final(t)
             r == [strmRun[i] EXCEPT !.at = "write", !.read = f]
  <2>3. ASSUME strmRow[t] # "gone", strmRun' = [strmRun EXCEPT ![i] = r] PROVE Good
    <3>1. strmRow[t] \in Strm!Paused => f \in Strm!Paused
      BY DEF Strm!Final
    <3> HIDE DEF f
    <3>2. r.at = "write" /\ r.task = t /\ r.read = f /\ r.owed = strmRun[i].owed
      BY <1>2 DEF RunRecords
    <3> HIDE DEF r
    <3>3. r.owed => /\ strmRow'[r.task] \in Strm!Paused \cup {"gone"}
                    /\ r.read \in Strm!Paused
      BY <1>3, <2>1, <2>3, <3>1, <3>2
    <3> QED
      BY <2>3, <3>2, <3>3
  <2>4. \/ Strm!To(i, "clear")
        \/ strmRow[t] # "gone" /\ strmRun' = [strmRun EXCEPT ![i] = r]
    BY <1>9 DEF Strm!Read, Strm!Exists
  <2> HIDE DEF Good, r
  <2> QED
    BY <2>1, <2>2, <2>3, <2>4
<1>10. ASSUME Strm!Write(i) PROVE Good /\ Rows
  <2>1. /\ Rows
        /\ strmRow'[t] = IF strmRow[t] \in {"none", "gone"} THEN strmRow[t] ELSE strmRun[i].read
    BY <1>6, <1>10 DEF Strm!Write
  <2>2. strmRun[i].owed => strmRow'[t] \in {strmRow[t], "gone"} \cup Strm!Paused
    BY <1>3, <1>10, <2>1 DEF Strm!Write
  <2>3. Good
    BY <1>4, <1>10, <2>2 DEF Strm!Write
  <2> QED BY <2>1, <2>3
<1>11. ASSUME Strm!AuthPut(i) PROVE Good /\ Rows
  <2>1. Rows /\ strmRow'[t] \in {strmRow[t], "auth"}
    BY <1>6, <1>11 DEF Strm!AuthPut
  <2>2. strmRow'[t] \in {strmRow[t], "gone"} \cup Strm!Paused
    BY <2>1 DEF Strm!Paused
  <2>3. Good
    BY <1>4, <1>11, <2>2 DEF Strm!AuthPut
  <2> QED BY <2>1, <2>3
<1>12. ASSUME Strm!Release(i) PROVE Good /\ Rows
  <2>1. strmRun' = [strmRun EXCEPT ![i] = Strm!NoRun] /\ UNCHANGED strmRow
    BY <1>12 DEF Strm!Release
  <2> QED
    BY <2>1, StrmNone
<1>13. Good /\ Rows
  BY <1>7, <1>8, <1>9, <1>10, <1>11, <1>12 DEF Strm!RunStep
<1>14. PICK r : /\ strmRun' = [strmRun EXCEPT ![i] = r]
                /\ r.at # "none" /\ r.owed =>
                     /\ r.at \notin {"register", "open"}
                     /\ strmRow'[r.task] \in Strm!Paused \cup {"gone"}
                     /\ r.at = "write" => r.read \in Strm!Paused
  BY <1>13
<1> QED
  BY <1>1, <1>13, <1>14, PauseOwn

LEMMA PauseInit == Strm!Init => PauseInv
<1> SUFFICES ASSUME Strm!Init PROVE PauseStands
  BY StrmInit, BornInit DEF PauseInv
<1>1. \A i \in Strm!Slots : strmRun[i].at = "none"
  BY StrmNone DEF Strm!Init
<1> QED
  BY <1>1 DEF PauseStands, Alive

LEMMA PauseNext == PauseInv /\ [Strm!Next]_strmVars => PauseInv'
<1> SUFFICES ASSUME PauseInv, [Strm!Next]_strmVars PROVE PauseStands'
  BY StrmNext, BornNext DEF PauseInv
<1> USE DEF Processes
<1>1. CASE UNCHANGED strmVars \/ Strm!Tick \/ Strm!Ready \/ Strm!Restart
           \/ \E a \in Strm!Accounts : Strm!OnFileMutated(a)
  BY <1>1, PauseElsewhere DEF strmVars, Strm!Tick, Strm!Ready, Strm!OnFileMutated
<1>2. ASSUME NEW t \in StrmIds, NEW auto \in BOOLEAN, NEW elapsed \in BOOLEAN,
             NEW free \in BOOLEAN, Strm!Judge(t, auto, elapsed, free)
      PROVE  PauseStands'
  BY <1>2, PauseElsewhere DEF Strm!Judge
<1>3. ASSUME NEW t \in StrmIds, Strm!Create(t) \/ Strm!NoticeStale(t)
      PROVE  PauseStands'
  BY <1>3, PauseElsewhere DEF Strm!NoticeStale
<1>4. ASSUME NEW t \in StrmIds, Strm!FixStale(t) PROVE PauseStands'
  <2>1. "active" \in Strm!Status /\ "active" # "none"
    BY DEF Strm!Status
  <2>2. Strm!Store(t, "active") /\ strmRun' = Strm!Owe(t, "active")
    BY <1>4 DEF Strm!FixStale
  <2> QED
    BY <2>1, <2>2, PauseStored
<1>5. ASSUME NEW c \in StrmCallers, NEW op \in StrmOps, NEW t \in StrmIds, Strm!Begin(c, op, t)
      PROVE  PauseStands'
  BY <1>5, PauseElsewhere DEF Strm!Begin
<1>6. ASSUME NEW c \in StrmCallers, Strm!Handles(c) PROVE PauseStands'
  <2>1. CASE \/ Strm!Get(c) \/ (\E free \in BOOLEAN : Strm!RunTaskNow(c, free))
             \/ Strm!Peek(c) \/ Strm!Wipe(c)
    BY <2>1, PauseElsewhere DEF Strm!Get, Strm!RunTaskNow, Strm!Peek, Strm!Wipe
  <2>2. CASE Strm!Drop(c) \/ Strm!Erase(c)
    BY <2>2, PauseOfOthers, PauseElsewhere
  <2>3. CASE Strm!Save(c)
    <3>1. Waits(c) /\ strmCall[c].task \in StrmIds /\ strmCall[c].value \in Strm!Status
      BY <2>3, StrmRecords DEF Strm!Save, Waits, PauseInv, StrmInv
    <3>2. PICK t \in StrmIds, s \in Strm!Status : t = strmCall[c].task /\ s = strmCall[c].value
      BY <3>1
    <3>3. s # "none"
      BY <2>3, <3>1, <3>2 DEF Strm!Save, PauseInv, Born, Storing
    <3>4. Strm!Store(t, s) /\ strmRun' = Strm!Owe(t, s)
      BY <2>3, <3>2 DEF Strm!Save
    <3> QED
      BY <3>3, <3>4, PauseStored
  <2> QED
    BY <1>6, <2>1, <2>2, <2>3 DEF Strm!Handles
<1>7. ASSUME NEW c \in StrmCallers \cup {Strm!Scheduler}, Strm!Starts(c) PROVE PauseStands'
  BY <1>7, PauseElsewhere, PauseOfOthers DEF Strm!Starts, Strm!Start
<1>8. ASSUME NEW i \in Strm!Slots, Strm!RunStep(i) PROVE PauseStands'
  BY <1>8, PauseRunSteps
<1> QED
  BY <1>1, <1>2, <1>3, <1>4, <1>5, <1>6, <1>7, <1>8 DEF Strm!Next

\* A run that goes on from writing the status has written it.
LEMMA WriteEnds ==
  ASSUME PauseInv, [Strm!Next]_strmVars, NEW i \in Strm!Slots,
         strmRun[i].at = "write", strmRun'[i].at = "clear"
  PROVE  Strm!Write(i)
<1> USE DEF PauseInv, Processes
<1>1. strmRun \in [Strm!Slots -> Strm!Runs]
  BY StrmRecords DEF StrmInv
<1>2. ASSUME NEW t \in StrmIds, NEW s \in Strm!Status, strmRun' = Strm!Owe(t, s) PROVE FALSE
  <2>1. strmRun'[i].at = strmRun[i].at
    BY <1>2, OweNotes
  <2> QED BY <2>1
<1>3. ASSUME NEW j \in Strm!Slots, NEW r, strmRun' = [strmRun EXCEPT ![j] = r] PROVE j = i /\ r.at = "clear"
  BY <1>1, <1>3
<1>4. CASE UNCHANGED strmVars \/ Strm!Tick \/ Strm!Ready
           \/ \E a \in Strm!Accounts : Strm!OnFileMutated(a)
  BY <1>4 DEF strmVars, Strm!Tick, Strm!Ready, Strm!OnFileMutated
<1>5. CASE Strm!Restart
  BY <1>5, StrmNone DEF Strm!Restart
<1>6. ASSUME NEW t \in StrmIds, NEW auto \in BOOLEAN, NEW elapsed \in BOOLEAN,
             NEW free \in BOOLEAN, Strm!Judge(t, auto, elapsed, free)
      PROVE  FALSE
  BY <1>6 DEF Strm!Judge
<1>7. ASSUME NEW t \in StrmIds, Strm!Create(t) \/ Strm!NoticeStale(t) \/ Strm!FixStale(t)
      PROVE  FALSE
  <2>1. "active" \in Strm!Status
    BY DEF Strm!Status
  <2>2. UNCHANGED strmRun \/ strmRun' = Strm!Owe(t, "active")
    BY <1>7 DEF Strm!Create, Strm!NoticeStale, Strm!FixStale
  <2> QED
    BY <1>2, <2>1, <2>2
<1>8. ASSUME NEW c \in StrmCallers, NEW op \in StrmOps, NEW t \in StrmIds, Strm!Begin(c, op, t)
      PROVE  FALSE
  BY <1>8 DEF Strm!Begin
<1>9. ASSUME NEW c \in StrmCallers, Strm!Handles(c) PROVE FALSE
  <2>1. CASE UNCHANGED strmRun
    BY <2>1
  <2>2. CASE Strm!Save(c)
    <3>1. strmCall[c].task \in StrmIds /\ strmCall[c].value \in Strm!Status
      BY <2>2, StrmRecords DEF Strm!Save, Waits, StrmInv
    <3> QED
      BY <1>2, <2>2, <3>1 DEF Strm!Save
  <2>3. CASE Strm!Drop(c)
    <3> DEFINE j == strmCall[c].cancel
               r == [strmRun[j] EXCEPT !.canceled = TRUE]
    <3>1. UNCHANGED strmRun \/ (j \in Strm!Slots /\ strmRun' = [strmRun EXCEPT ![j] = r])
      BY <2>3 DEF Strm!Drop
    <3>2. strmRun[i] \in RunRecords
      BY StrmRecords DEF StrmInv, Alive
    <3>3. j = i => r.at = "write"
      BY <3>2 DEF RunRecords
    <3> HIDE DEF r
    <3> QED
      BY <1>3, <3>1, <3>3
  <2>4. Strm!Save(c) \/ Strm!Drop(c) \/ UNCHANGED strmRun
    BY <1>9 DEF Strm!Handles, Strm!Get, Strm!RunTaskNow, Strm!Peek, Strm!Erase, Strm!Wipe, Strm!ownVars
  <2> QED
    BY <2>1, <2>2, <2>3, <2>4
<1>10. ASSUME NEW c \in StrmCallers \cup {Strm!Scheduler}, Strm!Starts(c) PROVE FALSE
  <2>1. \/ UNCHANGED strmRun
        \/ \E j \in Strm!Slots : \E r : strmRun[j] = Strm!NoRun /\ strmRun' = [strmRun EXCEPT ![j] = r]
    BY <1>10 DEF Strm!Starts, Strm!Start, Strm!Mark
  <2> QED
    BY <1>3, <2>1, StrmNone
<1>11. ASSUME NEW j \in Strm!Slots, Strm!RunStep(j) PROVE Strm!Write(i)
  <2>1. CASE Strm!Write(j)
    <3>1. \E r : strmRun' = [strmRun EXCEPT ![j] = r]
      BY <2>1 DEF Strm!Write, Strm!To
    <3>2. i = j
      BY <1>3, <3>1
    <3> QED
      BY <2>1, <3>2
  <2>2. CASE ~Strm!Write(j)
    <3>1. strmRun[j].at # "write" /\ \E r : strmRun' = [strmRun EXCEPT ![j] = r]
      BY <1>11, <2>2 DEF Strm!RunStep, Strm!Register, Strm!Open, Strm!Scan, Strm!Read, Strm!AuthGet,
         Strm!AuthPut, Strm!PeekOwn, Strm!DropOwn, Strm!Clear, Strm!Release, Strm!To
    <3> QED
      BY <1>3, <3>1
  <2> QED BY <2>1, <2>2
<1> QED
  BY <1>4, <1>5, <1>6, <1>7, <1>8, <1>9, <1>10, <1>11 DEF Strm!Next

\* A scan that ends writes a status that it has read: a pause that somebody has stored
\* meanwhile is read, or kept by the row, and no task goes back to active behind the
\* user's back (finalizeScanPersist).
THEOREM PausesOutliveScans == SumSpec => ScanEndKeepsPause
<1>1. PauseInv /\ [SumNext]_sumVars =>
        [\A i \in Strm!Slots : strmRun[i].at = "write" /\ strmRun[i].owed /\ strmRun'[i].at = "clear"
                                => strmRow'[strmRun[i].task] \notin {"active", "running"}]_(Strm!vars)
  <2> SUFFICES ASSUME PauseInv, [SumNext]_sumVars, NEW i \in Strm!Slots,
                      strmRun[i].at = "write", strmRun[i].owed, strmRun'[i].at = "clear"
               PROVE  strmRow'[strmRun[i].task] \notin {"active", "running"}
    OBVIOUS
  <2> DEFINE t == strmRun[i].task
  <2>1. Strm!Write(i)
    BY WriteEnds, StrmFocus
  <2>2. strmRun[i].read \in Strm!Paused
    BY DEF PauseInv, PauseStands
  <2>3. t \in StrmIds
    BY StrmRecords DEF PauseInv, StrmInv, Alive
  <2>4. PICK t0 \in StrmIds : t0 = t
    BY <2>3
  <2>5. strmRow'[t] \in {"none", "gone", strmRun[i].read}
    BY <2>1, <2>4, OtherRows DEF PauseInv, Strm!Write
  <2> QED
    BY <2>2, <2>5 DEF Strm!Paused
<1> QED
  BY <1>1, PauseInit, PauseNext, StrmFocus, PTL
     DEF SumSpec, ScanEndKeepsPause, Strm!ScanEndKeepsPause

-----------------------------------------------------------------------------
(***************************************************************************)
(* Automation: what AutomationProofs proves, of the instance of MCJobs.    *)
(***************************************************************************)
RuleP == INSTANCE AutomationProofs WITH row <- autoRow,
  pending <- autoPending, count <- autoCount, running <- autoRunning,
  ready <- autoReady, run <- autoRun, sched <- autoSched, handoff <- autoHandoff,
  accepted <- autoAccepted, started <- autoStarted

\* The two instances have the same initial states and the same steps.
LEMMA RulesInit == SumInit => RuleP!Init
BY DEF SumInit, Automate!Init, RuleP!Init, Automate!NoRun, RuleP!NoRun,
       Automate!Goroutines, RuleP!Goroutines

LEMMA RulesFocus == [SumNext]_sumVars => [RuleP!Next]_(RuleP!vars)
<1>1. [SumNext]_sumVars => [Automate!Next]_autoVars
  BY DEF SumNext, sumVars, autoVars
<1>2. UNCHANGED autoVars => UNCHANGED RuleP!vars
  BY DEF RuleP!vars, autoVars
<1>3. Automate!Next => RuleP!Next
  BY DEF Automate!Next, Automate!Release, Automate!ScheduleList, Automate!ScheduleSubmit,
         Automate!RunAsync, Automate!TriggerWebhook, Automate!OnOfflineDownloadCompleted,
         Automate!DeleteRule, Automate!ScheduleRule, Automate!SwitchRule, Automate!RunStep,
         Automate!ReadRule, Automate!WriteRule, Automate!EndRun, Automate!StartNext,
         Automate!CountAfter, Automate!Submit, Automate!Go, Automate!Busy, Automate!Stored,
         Automate!NoRun, Automate!Goroutines, Automate!queueVars,
         RuleP!Next, RuleP!Release, RuleP!ScheduleList, RuleP!ScheduleSubmit,
         RuleP!RunAsync, RuleP!TriggerWebhook, RuleP!OnOfflineDownloadCompleted,
         RuleP!DeleteRule, RuleP!ScheduleRule, RuleP!SwitchRule, RuleP!RunStep,
         RuleP!ReadRule, RuleP!WriteRule, RuleP!EndRun, RuleP!StartNext,
         RuleP!CountAfter, RuleP!Submit, RuleP!Go, RuleP!Busy, RuleP!Stored,
         RuleP!NoRun, RuleP!Goroutines, RuleP!queueVars, Automate!NextTimes, RuleP!NextTimes
<1> QED
  BY <1>1, <1>2, <1>3

LEMMA RulesIds == RuleP!Ids /\ MaxSubmits \in Nat
BY JobsAssumption DEF RuleP!Ids

LEMMA RulesTypes == RuleP!Spec => []RuleP!TypeOK
BY RulesIds, RuleP!QueueTypes
LEMMA RulesAlone == RuleP!Spec => []RuleP!OneRuleAtATime
BY RulesIds, RuleP!RulesRunOneAtATime
LEMMA RulesInOrder == RuleP!Spec => []RuleP!FirstComeFirstServed
BY RulesIds, RuleP!RunsStartInOrder
LEMMA RulesCounted == RuleP!Spec => []RuleP!CountsAgree
BY RulesIds, RuleP!CountsMatchTheQueue

LEMMA RulesMeet ==
  RuleP!TypeOK /\ RuleP!OneRuleAtATime /\ RuleP!FirstComeFirstServed /\ RuleP!CountsAgree
  => RunsQueueUp
<1>1. RuleP!TypeOK => Automate!TypeOK
  BY DEF RuleP!TypeOK, Automate!TypeOK, RuleP!NoRun, Automate!NoRun, RuleP!Goroutines,
         Automate!Goroutines, RuleP!Queued, Automate!Queued, RuleP!Sources, Automate!Sources,
         RuleP!Runs, Automate!Runs
<1>2. RuleP!OneRuleAtATime => Automate!OneRuleAtATime
  BY DEF RuleP!OneRuleAtATime, Automate!OneRuleAtATime, RuleP!Cardinality,
         Automate!Cardinality, RuleP!Goroutines, Automate!Goroutines
<1>3. RuleP!FirstComeFirstServed => Automate!FirstComeFirstServed
  BY DEF RuleP!FirstComeFirstServed, Automate!FirstComeFirstServed, RuleP!Of, Automate!Of
<1>4. RuleP!CountsAgree => Automate!CountsAgree
  BY DEF RuleP!CountsAgree, Automate!CountsAgree, RuleP!Cardinality, Automate!Cardinality
<1> QED
  BY <1>1, <1>2, <1>3, <1>4 DEF RunsQueueUp

\* However many runs are submitted, before the gate opens or after it, one rule runs at
\* a time, accepted runs start in their order and the counters agree with the queue
\* (submitRun, releaseStartupQueue, endRun).
THEOREM RulesQueueUp == SumSpec => []RunsQueueUp
<1>1. SumSpec => RuleP!Spec
  BY RulesInit, RulesFocus, PTL DEF SumSpec, RuleP!Spec
<1> QED
  BY <1>1, RulesTypes, RulesAlone, RulesInOrder, RulesCounted, RulesMeet, PTL

=============================================================================

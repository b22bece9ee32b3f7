-------------------------- MODULE AutomationProofs --------------------------
(***************************************************************************)
(* Proofs about Automation, for any rules and any number of runs: one runs *)
(* at a time, and they start in the order they were accepted in.           *)
(***************************************************************************)
EXTENDS Automation, FiniteSetTheorems, FunctionTheorems,
        SequenceTheorems, TLAPS

\* The empty running_rule_id is the id of no rule.
Ids == NoRule \notin Rules

Active(g) == run[g].at # "none"

Typed ==
  /\ pending \in Seq(Queued) /\ accepted \in Seq(Rules) /\ started \in Seq(Rules)
  /\ run \in [Goroutines -> Runs] /\ running \in Rules \cup {NoRule} /\ ready \in BOOLEAN
  /\ row \in [Rules -> {"on", "off", "gone"}] /\ handoff \in Rules \cup {NoRule}

\* runningRuleID names the rule of the only goroutine there is, and is empty
\* exactly when there is none.
Alone ==
  /\ \A g \in Goroutines : Active(g) => running = run[g].rule
  /\ \A g, h \in Goroutines : Active(g) /\ Active(h) => g = h
  /\ running # NoRule => \E g \in Goroutines : Active(g)

\* Runs wait only for the gate or for a run that will start the next one.
Held ==
  /\ ~ready => running = NoRule
  /\ ready /\ running = NoRule => pending = <<>>

Order ==
  /\ Len(accepted) = Len(started) + Len(pending)
  /\ \A i \in 1..Len(started) : accepted[i] = started[i]
  /\ \A i \in 1..Len(pending) : accepted[Len(started) + i] = pending[i].rule

AutoInv == Typed /\ Alone /\ Held /\ Order

-----------------------------------------------------------------------------
LEMMA NoRunIsNone ==
  ASSUME NEW r \in Runs
  PROVE  /\ r = NoRun <=> r.at = "none"
         /\ r.at # "none" => r.rule \in Rules /\ r.source \in Sources
BY DEF Runs, NoRun

\* A step that leaves the queue and the goroutines alone.
LEMMA QueueKept ==
  ASSUME AutoInv, UNCHANGED queueVars, ready' = ready PROVE Alone' /\ Held' /\ Order'
BY DEF AutoInv, Alone, Active, Held, Order, queueVars

\* A goroutine that goes on with its run.
LEMMA RunGoesOn ==
  ASSUME AutoInv, NEW g \in Goroutines, Active(g), NEW s \in Runs,
         s.at # "none", s.rule = run[g].rule, run' = [run EXCEPT ![g] = s],
         UNCHANGED <<pending, running, ready, accepted, started>>
  PROVE  Alone' /\ Held' /\ Order' /\ run' \in [Goroutines -> Runs]
<1>1. run' \in [Goroutines -> Runs] /\ run'[g] = s
      /\ \A h \in Goroutines \ {g} : run'[h] = run[h]
  BY DEF AutoInv, Typed
<1>2. Alone'
  BY <1>1 DEF AutoInv, Alone, Active
<1> QED
  BY <1>1, <1>2 DEF AutoInv, Held, Order

\* The place of an entry when the one before it has left the queue.
LEMMA Shift ==
  ASSUME NEW m \in Nat, NEW n \in Nat, NEW i \in 1..(n - 1)
  PROVE  i + 1 \in 1..n /\ (m + 1) + i = m + (i + 1)
OBVIOUS

\* The start of the run at the head of the queue, when no goroutine is left.
LEMMA StartNextStep ==
  ASSUME Ids, AutoInv, NEW runs \in [Goroutines -> Runs],
         \A g \in Goroutines : runs[g] = NoRun,
         pending # <<>>, StartNext(runs), ready', accepted' = accepted
  PROVE  /\ Alone' /\ Held' /\ Order'
         /\ pending' \in Seq(Queued) /\ started' \in Seq(Rules)
         /\ run' \in [Goroutines -> Runs] /\ running' \in Rules
<1> DEFINE q == Head(pending)
<1>1. /\ pending \in Seq(Queued) /\ pending # <<>> /\ started \in Seq(Rules)
      /\ accepted \in Seq(Rules)
  BY DEF AutoInv, Typed
<1>2. /\ q \in Queued /\ q = pending[1] /\ Len(pending) \in Nat /\ Len(pending) > 0
      /\ Tail(pending) \in Seq(Queued) /\ Len(Tail(pending)) = Len(pending) - 1
      /\ \A i \in 1..Len(Tail(pending)) : Tail(pending)[i] = pending[i + 1]
  BY <1>1
<1>3. q.rule \in Rules /\ q.source \in Sources
  BY <1>2 DEF Queued
<1>4. /\ running' = q.rule /\ pending' = Tail(pending) /\ started' = Append(started, q.rule)
      /\ Go(q.rule, q.source, runs)
  BY DEF StartNext, Go
<1>5. /\ started' \in Seq(Rules) /\ Len(started) \in Nat /\ Len(started') = Len(started) + 1
      /\ started'[Len(started) + 1] = q.rule
      /\ \A i \in 1..Len(started) : started'[i] = started[i]
  BY <1>1, <1>3, <1>4
<1>6. PICK g \in Goroutines :
        run' = [runs EXCEPT ![g] = [at |-> "read", rule |-> q.rule, source |-> q.source]]
  BY <1>4 DEF Go
<1> DEFINE s == [at |-> "read", rule |-> q.rule, source |-> q.source]
<1>7. s \in Runs /\ s.at # "none" /\ s.rule = q.rule
  BY <1>3 DEF Runs
<1>8. /\ run' \in [Goroutines -> Runs] /\ run'[g] = s
      /\ \A h \in Goroutines \ {g} : run'[h].at = "none"
  BY <1>6, <1>7 DEF NoRun
<1>9. Alone'
  BY <1>4, <1>7, <1>8 DEF Alone, Active
<1>10. Order'
  <2>1. Len(accepted') = Len(started') + Len(pending')
    <3>1. Len(accepted) = Len(started) + Len(pending)
      BY DEF AutoInv, Order
    <3>2. Len(pending') = Len(pending) - 1
      BY <1>2, <1>4
    <3> QED BY <1>2, <1>5, <3>1, <3>2
  <2>2. \A i \in 1..Len(started') : accepted'[i] = started'[i]
    <3> TAKE i \in 1..Len(started')
    <3>1. CASE i = Len(started) + 1
      <4>1. accepted[Len(started) + 1] = q.rule
        BY <1>2 DEF AutoInv, Order
      <4> QED BY <1>5, <3>1, <4>1
    <3>2. CASE i \in 1..Len(started)
      BY <1>5, <3>2 DEF AutoInv, Order
    <3> QED BY <1>5, <3>1, <3>2
  <2>3. \A i \in 1..Len(pending') : accepted'[Len(started') + i] = pending'[i].rule
    <3> TAKE i \in 1..Len(pending')
    <3>0. i \in 1..(Len(pending) - 1)
      BY <1>2, <1>4
    <3>1. i + 1 \in 1..Len(pending) /\ Len(started') + i = Len(started) + (i + 1)
      <4>1. /\ Len(pending) \in Nat /\ Len(started) \in Nat
            /\ Len(started') = Len(started) + 1
        BY <1>2, <1>5
      <4> HIDE DEF q
      <4> QED BY <4>1, <3>0, Shift
    <3>2. pending'[i] = pending[i + 1]
      BY <1>2, <1>4
    <3> QED BY <3>1, <3>2 DEF AutoInv, Order
  <2> QED
    BY <2>1, <2>2, <2>3 DEF Order
<1>11. Held'
  BY <1>3, <1>4 DEF Held, Ids
<1> QED
  BY <1>2, <1>3, <1>4, <1>5, <1>8, <1>9, <1>10, <1>11

\* submitRun
LEMMA SubmitStep ==
  ASSUME Ids, AutoInv, NEW r \in Rules, NEW source \in Sources, NEW dedupe \in BOOLEAN,
         Submit(r, source, dedupe), ready' = ready
  PROVE  /\ Alone' /\ Held' /\ Order'
         /\ pending' \in Seq(Queued) /\ accepted' \in Seq(Rules) /\ started' \in Seq(Rules)
         /\ run' \in [Goroutines -> Runs] /\ running' \in Rules \cup {NoRule}
<1>0. /\ pending \in Seq(Queued) /\ started \in Seq(Rules) /\ accepted \in Seq(Rules)
      /\ run \in [Goroutines -> Runs] /\ running \in Rules \cup {NoRule}
  BY DEF AutoInv, Typed
<1>1. CASE UNCHANGED queueVars
  BY <1>0, <1>1, QueueKept DEF queueVars
<1>2. CASE accepted' = Append(accepted, r)
  <2>1. /\ accepted' \in Seq(Rules) /\ Len(accepted) \in Nat
        /\ Len(accepted') = Len(accepted) + 1 /\ accepted'[Len(accepted) + 1] = r
        /\ \A i \in 1..Len(accepted) : accepted'[i] = accepted[i]
    BY <1>0, <1>2
  <2>2. /\ Len(started) \in Nat /\ Len(pending) \in Nat
        /\ Len(accepted) = Len(started) + Len(pending)
    BY <1>0 DEF AutoInv, Order
  <2>3. ~(dedupe /\ count[r] > 0) \/ UNCHANGED queueVars
    BY DEF Submit
  <2>4. accepted' # accepted
    BY <2>1
  <2>5. ~UNCHANGED queueVars
    BY <2>4 DEF queueVars
  <2>6. IF Busy
        THEN /\ pending' = Append(pending, [rule |-> r, source |-> source])
             /\ UNCHANGED <<running, run, started>>
        ELSE running' = r /\ Go(r, source, run) /\ UNCHANGED pending
    BY <2>3, <2>5 DEF Submit
  <2>7. CASE Busy
    <3> DEFINE q == [rule |-> r, source |-> source]
    <3>1. q \in Queued /\ q.rule = r
      BY DEF Queued
    <3>2. pending' = Append(pending, q) /\ UNCHANGED <<running, run, started>>
      BY <2>6, <2>7
    <3>3. /\ pending' \in Seq(Queued) /\ Len(pending') = Len(pending) + 1
          /\ pending'[Len(pending) + 1] = q
          /\ \A i \in 1..Len(pending) : pending'[i] = pending[i]
      BY <1>0, <3>1, <3>2
    <3>4. Alone' /\ Held'
      BY <2>7, <3>2 DEF AutoInv, Alone, Active, Held, Busy
    <3>5. Order'
      <4>1. \A i \in 1..Len(started') : accepted'[i] = started'[i]
        BY SMTT(30), <2>1, <2>2, <3>2 DEF AutoInv, Order
      <4>2. \A i \in 1..Len(pending') : accepted'[Len(started') + i] = pending'[i].rule
        <5> TAKE i \in 1..Len(pending')
        <5>1. CASE i = Len(pending) + 1
          BY <2>1, <2>2, <3>1, <3>2, <3>3, <5>1
        <5>2. CASE i \in 1..Len(pending)
          <6>1. Len(started) + i \in 1..Len(accepted)
            BY <2>2, <5>2
          <6> QED BY <2>1, <3>2, <3>3, <5>2, <6>1 DEF AutoInv, Order
        <5>3. i = Len(pending) + 1 \/ i \in 1..Len(pending)
          BY <2>2, <3>3
        <5> QED BY <5>1, <5>2, <5>3
      <4>3. Len(accepted') = Len(started') + Len(pending')
        BY <2>1, <2>2, <3>2, <3>3
      <4> QED BY <4>1, <4>2, <4>3 DEF Order
    <3> QED BY <1>0, <2>1, <3>2, <3>3, <3>4, <3>5
  <2>8. CASE ~Busy
    <3>1. ready /\ running = NoRule /\ pending = <<>> /\ pending' = <<>>
      BY <2>6, <2>8 DEF Busy, AutoInv, Held
    <3>2. running' = r /\ started' = Append(started, r)
      BY <2>6, <2>8 DEF Go
    <3>3. \A g \in Goroutines : run[g].at = "none"
      <4>1. \A g \in Goroutines : run[g].at # "none" => run[g].rule \in Rules
        BY <1>0, NoRunIsNone
      <4> QED BY <3>1, <4>1 DEF AutoInv, Alone, Active, Ids
    <3> DEFINE s == [at |-> "read", rule |-> r, source |-> source]
    <3>4. PICK g \in Goroutines : run' = [run EXCEPT ![g] = s]
      BY <2>6, <2>8 DEF Go
    <3>5. s \in Runs /\ s.at # "none" /\ s.rule = r
      BY DEF Runs
    <3>6. /\ run' \in [Goroutines -> Runs] /\ run'[g] = s
          /\ \A h \in Goroutines \ {g} : run'[h].at = "none"
      BY <1>0, <3>3, <3>4, <3>5
    <3>7. Alone' /\ Held'
      BY <3>1, <3>2, <3>5, <3>6 DEF Alone, Active, Held, Ids
    <3>8. /\ started' \in Seq(Rules) /\ Len(started') = Len(started) + 1
          /\ started'[Len(started) + 1] = r
          /\ \A i \in 1..Len(started) : started'[i] = started[i]
      BY <1>0, <3>2
    <3>9. Order'
      <4>1. Len(pending) = 0 /\ Len(pending') = 0
        BY <3>1
      <4>2. Len(accepted) = Len(started)
        BY <2>2, <4>1
      <4>3. \A i \in 1..Len(started') : accepted'[i] = started'[i]
        <5> TAKE i \in 1..Len(started')
        <5>1. CASE i = Len(started) + 1
          BY <2>1, <3>8, <4>2, <5>1
        <5>2. CASE i \in 1..Len(started)
          BY <2>1, <3>8, <4>2, <5>2 DEF AutoInv, Order
        <5> QED BY <2>2, <3>8, <5>1, <5>2
      <4> QED BY <2>1, <2>2, <3>8, <4>1, <4>2, <4>3 DEF Order
    <3>10. pending' \in Seq(Queued)
      BY <1>0, <3>1
    <3> QED BY <2>1, <3>2, <3>6, <3>7, <3>8, <3>9, <3>10
  <2> QED
    BY <2>7, <2>8
<1> QED
  BY <1>1, <1>2 DEF Submit

-----------------------------------------------------------------------------
LEMMA AutoInit == ASSUME Ids PROVE Init => AutoInv
<1> SUFFICES ASSUME Init PROVE AutoInv
  OBVIOUS
<1>1. NoRun \in Runs
  BY DEF Runs
<1>2. Typed
  <2>1. <<>> \in Seq(Queued) /\ <<>> \in Seq(Rules)
    OBVIOUS
  <2>2. run \in [Goroutines -> Runs]
    BY <1>1 DEF Init
  <2>3. row \in [Rules -> {"on", "off", "gone"}]
    BY DEF Init
  <2> QED
    BY <2>1, <2>2, <2>3 DEF Init, Typed
<1>3. Alone /\ Held
  BY DEF Init, Alone, Active, NoRun, Held
<1>4. Order
  BY DEF Init, Order
<1> QED
  BY <1>2, <1>3, <1>4 DEF AutoInv

LEMMA ReleaseStep == ASSUME Ids, AutoInv, Release PROVE AutoInv'
<1>1. \A g \in Goroutines : run[g] = NoRun
  <2>1. \A g \in Goroutines : run[g].at # "none" => run[g].rule \in Rules
    BY NoRunIsNone DEF AutoInv, Typed
  <2>2. running = NoRule
    BY DEF Release, AutoInv, Held
  <2>3. \A g \in Goroutines : run[g].at = "none"
    BY <2>1, <2>2 DEF AutoInv, Alone, Active, Ids
  <2> QED
    BY <2>3, NoRunIsNone DEF AutoInv, Typed
<1>2. UNCHANGED <<row, sched, handoff, accepted>> /\ ready' = TRUE
  BY DEF Release
<1>3. CASE running = NoRule /\ pending # <<>>
  <2>1. StartNext(run)
    BY <1>3 DEF Release
  <2> QED
    BY <1>1, <1>2, <1>3, <2>1, StartNextStep DEF AutoInv, Typed
<1>4. CASE ~(running = NoRule /\ pending # <<>>)
  <2>1. UNCHANGED <<running, pending, count, run, started>>
    BY <1>4 DEF Release
  <2> QED
    BY <1>2, <1>4, <2>1 DEF AutoInv, Typed, Alone, Active, Held, Order
<1> QED
  BY <1>3, <1>4

LEMMA EndRunStep == ASSUME Ids, AutoInv, NEW g \in Goroutines, EndRun(g) PROVE AutoInv'
<1> DEFINE runs == [run EXCEPT ![g] = NoRun]
<1>1. Active(g) /\ running = run[g].rule /\ run[g].rule \in Rules
  BY NoRunIsNone DEF EndRun, Active, AutoInv, Alone, Typed
<1>2. runs \in [Goroutines -> Runs] /\ \A h \in Goroutines : runs[h] = NoRun
  <2>1. \A h \in Goroutines \ {g} : run[h] = NoRun
    BY <1>1, NoRunIsNone DEF AutoInv, Alone, Active, Typed
  <2>2. NoRun \in Runs
    BY DEF Runs
  <2> QED
    BY <2>1, <2>2 DEF AutoInv, Typed
<1>3. UNCHANGED <<row, ready, sched, handoff, accepted>> /\ ready
  BY <1>1 DEF EndRun, AutoInv, Held, Ids
<1>4. CASE pending # <<>>
  <2>1. StartNext(runs)
    BY <1>1, <1>4 DEF EndRun
  <2> QED
    BY <1>2, <1>3, <1>4, <2>1, StartNextStep DEF AutoInv, Typed
<1>5. CASE pending = <<>>
  <2>1. run' = runs /\ running' = NoRule /\ UNCHANGED <<pending, count, started>>
    BY <1>1, <1>5 DEF EndRun
  <2>2. Alone'
    BY <1>2, <2>1 DEF Alone, Active, NoRun
  <2>3. Held' /\ Order'
    BY <1>3, <1>5, <2>1 DEF AutoInv, Held, Order
  <2>4. Typed'
    BY <1>2, <1>3, <2>1 DEF AutoInv, Typed
  <2> QED
    BY <2>2, <2>3, <2>4 DEF AutoInv
<1> QED
  BY <1>4, <1>5

LEMMA RunStepKeeps ==
  ASSUME Ids, AutoInv, NEW g \in Goroutines, ReadRule(g) \/ WriteRule(g) PROVE AutoInv'
<1>1. run[g] \in Runs /\ Active(g) /\ run[g].rule \in Rules /\ run[g].source \in Sources
  BY NoRunIsNone DEF ReadRule, WriteRule, Active, AutoInv, Typed
<1> DEFINE r == run[g].rule
           end == [at |-> "end", rule |-> r, source |-> run[g].source]
           act == [at |-> "act", rule |-> r, source |-> run[g].source, row |-> row[r]]
<1>2. end \in Runs /\ end.at # "none" /\ end.rule = r
  BY <1>1 DEF Runs
<1>3. CASE ReadRule(g)
  <2>1. row[r] # "gone" => act \in Runs /\ act.at # "none" /\ act.rule = r
    BY <1>1 DEF Runs, AutoInv, Typed
  <2>2. UNCHANGED <<row, pending, count, running, ready, sched, handoff, accepted, started>>
    BY <1>3 DEF ReadRule
  <2>3. \E s \in Runs : s.at # "none" /\ s.rule = r /\ run' = [run EXCEPT ![g] = s]
    BY <1>2, <1>3, <2>1 DEF ReadRule
  <2> QED
    BY <1>1, <2>2, <2>3, RunGoesOn DEF AutoInv, Typed
<1>4. CASE WriteRule(g)
  <2>1. /\ run' = [run EXCEPT ![g] = end] /\ row' \in {row, Stored(r, run[g].row)}
        /\ UNCHANGED <<pending, count, running, ready, sched, handoff, accepted, started>>
    BY <1>4 DEF WriteRule
  <2>2. run[g].row \in {"on", "off"}
    BY <1>1, <1>4 DEF WriteRule, Runs, NoRun
  <2>3. row' \in [Rules -> {"on", "off", "gone"}]
    BY <2>1, <2>2 DEF Stored, AutoInv, Typed
  <2> QED
    BY <1>1, <1>2, <2>1, <2>3, RunGoesOn DEF AutoInv, Typed
<1> QED
  BY <1>3, <1>4

LEMMA UserStep ==
  ASSUME Ids, AutoInv, NEW r \in Rules,
         \/ RunAsync(r) \/ TriggerWebhook(r) \/ OnOfflineDownloadCompleted(r)
         \/ DeleteRule(r) \/ (\E time \in NextTimes : ScheduleRule(r, time))
         \/ (\E to \in {"on", "off"} : SwitchRule(r, to))
  PROVE  AutoInv'
<1>1. CASE RunAsync(r) \/ TriggerWebhook(r) \/ OnOfflineDownloadCompleted(r)
  <2>1. \E source \in Sources, dedupe \in BOOLEAN : Submit(r, source, dedupe)
    BY <1>1 DEF RunAsync, TriggerWebhook, OnOfflineDownloadCompleted, Sources
  <2>2. UNCHANGED <<row, ready, sched, handoff>>
    BY <1>1 DEF RunAsync, TriggerWebhook, OnOfflineDownloadCompleted
  <2> QED
    BY <2>1, <2>2, SubmitStep DEF AutoInv, Typed
<1>2. CASE DeleteRule(r) \/ (\E time \in NextTimes : ScheduleRule(r, time))
           \/ (\E to \in {"on", "off"} : SwitchRule(r, to))
  <2>1. UNCHANGED queueVars /\ ready' = ready
    BY <1>2 DEF DeleteRule, ScheduleRule, SwitchRule
  <2>2. /\ row' \in [Rules -> {"on", "off", "gone"}]
        /\ handoff' \in Rules \cup {NoRule}
    BY <1>2 DEF DeleteRule, ScheduleRule, SwitchRule, Stored, AutoInv, Typed
  <2> QED
    BY <2>1, <2>2, QueueKept DEF AutoInv, Typed, queueVars
<1> QED
  BY <1>1, <1>2

LEMMA AutoNext == ASSUME Ids PROVE AutoInv /\ [Next]_vars => AutoInv'
<1> SUFFICES ASSUME AutoInv, [Next]_vars PROVE AutoInv'
  OBVIOUS
<1>1. CASE ScheduleList
  BY <1>1, QueueKept DEF ScheduleList, AutoInv, Typed, queueVars
<1>2. CASE ScheduleSubmit
  <2>1. /\ handoff \in Rules /\ Submit(handoff, "schedule", TRUE) /\ handoff' = NoRule
        /\ UNCHANGED <<row, ready, sched>>
    BY <1>2 DEF ScheduleSubmit, AutoInv, Typed
  <2>2. "schedule" \in Sources
    BY DEF Sources
  <2> QED
    BY <2>1, <2>2, SubmitStep DEF AutoInv, Typed
<1>3. CASE \E g \in Goroutines : RunStep(g)
  BY <1>3, EndRunStep, RunStepKeeps DEF RunStep
<1>4. CASE UNCHANGED vars
  BY <1>4, QueueKept DEF vars, queueVars, AutoInv, Typed
<1> QED
  BY <1>1, <1>2, <1>3, <1>4, ReleaseStep, UserStep DEF Next

LEMMA AutoInvariant == ASSUME Ids PROVE Spec => []AutoInv
<1>1. Init => AutoInv
  BY AutoInit
<1>2. AutoInv /\ [Next]_vars => AutoInv'
  BY AutoNext
<1> QED
  BY <1>1, <1>2, PTL DEF Spec

-----------------------------------------------------------------------------
\* Whatever submits runs, and whenever the gate opens, the actions of two runs
\* are never under way together (submitRun, releaseStartupQueue and endRun).
THEOREM RulesRunOneAtATime == ASSUME Ids PROVE Spec => []OneRuleAtATime
<1>1. AutoInv => OneRuleAtATime
  <2> SUFFICES ASSUME AutoInv PROVE Cardinality({g \in Goroutines : Active(g)}) <= 1
    BY DEF OneRuleAtATime, Active
  <2> DEFINE S == {g \in Goroutines : Active(g)}
  <2>1. S = {} \/ \E g \in Goroutines : S = {g}
    BY DEF AutoInv, Alone
  <2> HIDE DEF S
  <2>2. Cardinality(S) = 0 \/ Cardinality(S) = 1
    BY <2>1, FS_EmptySet, FS_Singleton
  <2>3. Cardinality(S) <= 1
    BY <2>2
  <2> QED
    BY <2>3 DEF S
<1> QED
  BY <1>1, AutoInvariant, PTL

\* The runs that were accepted are those that were started followed by those that
\* wait, in the order they were accepted in: none is lost or overtaken.
THEOREM RunsStartInOrder == ASSUME Ids PROVE Spec => []FirstComeFirstServed
<1>1. AutoInv => FirstComeFirstServed
  <2> SUFFICES ASSUME AutoInv PROVE accepted = started \o Of(pending)
    BY DEF FirstComeFirstServed
  <2>1. /\ accepted \in Seq(Rules) /\ started \in Seq(Rules) /\ pending \in Seq(Queued)
        /\ Len(started) \in Nat /\ Len(pending) \in Nat
    BY DEF AutoInv, Typed
  <2>2. /\ Of(pending) \in Seq(Rules) /\ Len(Of(pending)) = Len(pending)
        /\ \A i \in 1..Len(pending) : Of(pending)[i] = pending[i].rule
    <3>1. \A i \in 1..Len(pending) : pending[i] \in Queued
      BY <2>1
    <3>2. \A i \in 1..Len(pending) : pending[i].rule \in Rules
      BY <3>1 DEF Queued
    <3> QED BY <2>1, <3>2 DEF Of
  <2> DEFINE o == Of(pending)
  <2> HIDE DEF o
  <2>0. o \in Seq(Rules) /\ Len(o) = Len(pending)
    BY <2>2 DEF o
  <2> DEFINE t == started \o o
  <2>3. t \in Seq(Rules) /\ Len(t) = Len(started) + Len(pending)
    BY SMTT(30), <2>0, <2>1
  <2>4. \A i \in 1..Len(t) :
          t[i] = IF i <= Len(started) THEN started[i] ELSE o[i - Len(started)]
    BY <2>0, <2>1
  <2>5. Len(accepted) = Len(t)
    BY <2>3 DEF AutoInv, Order
  <2>6. ASSUME NEW i \in 1..Len(t) PROVE accepted[i] = t[i]
    <3>1. CASE i <= Len(started)
      BY <2>1, <2>3, <2>4, <3>1 DEF AutoInv, Order
    <3>2. CASE i > Len(started)
      <4> DEFINE j == i - Len(started)
      <4>1. j \in 1..Len(pending) /\ i = Len(started) + j
        BY <2>1, <2>3, <3>2
      <4>2. accepted[Len(started) + j] = pending[j].rule
        BY <4>1 DEF AutoInv, Order
      <4>3. t[i] = Of(pending)[j]
        BY <2>1, <2>4, <3>2 DEF o
      <4> QED BY <2>2, <4>1, <4>2, <4>3
    <3> QED BY <2>1, <2>3, <3>1, <3>2
  <2>7. accepted = t
    <3> HIDE DEF t
    <3> QED BY <2>1, <2>3, <2>5, <2>6, SeqEqual
  <2> QED
    BY <2>7 DEF o
<1> QED
  BY <1>1, AutoInvariant, PTL

-----------------------------------------------------------------------------
\* The places of a rule in a queue.
Places(queue, r) == {i \in 1..Len(queue) : queue[i].rule = r}

LEMMA PlacesFinite ==
  ASSUME NEW queue \in Seq(Queued), NEW r
  PROVE  /\ IsFiniteSet(Places(queue, r)) /\ Cardinality(Places(queue, r)) \in Nat
         /\ Places(queue, r) \subseteq 1..Len(queue)
<1>1. Len(queue) \in Nat
  OBVIOUS
<1>2. IsFiniteSet(1..Len(queue))
  BY <1>1, FS_Interval
<1>3. Places(queue, r) \in SUBSET (1..Len(queue))
  BY DEF Places
<1>4. IsFiniteSet(Places(queue, r))
  BY <1>2, <1>3, FS_Subset
<1> QED
  BY <1>3, <1>4, FS_CardinalityType

LEMMA PlacesAppend ==
  ASSUME NEW queue \in Seq(Queued), NEW q \in Queued, NEW r
  PROVE  Cardinality(Places(Append(queue, q), r)) =
           IF q.rule = r THEN Cardinality(Places(queue, r)) + 1
           ELSE Cardinality(Places(queue, r))
<1> DEFINE n == Len(queue)
<1>1. /\ n \in Nat /\ Len(Append(queue, q)) = n + 1 /\ Append(queue, q)[n + 1] = q
      /\ \A i \in 1..n : Append(queue, q)[i] = queue[i]
  OBVIOUS
<1>2. CASE q.rule = r
  <2>1. Places(Append(queue, q), r) = Places(queue, r) \cup {n + 1}
    BY <1>1, <1>2 DEF Places
  <2>2. n + 1 \notin Places(queue, r)
    BY <1>1 DEF Places
  <2>3. IsFiniteSet(Places(queue, r))
    BY PlacesFinite
  <2>4. Cardinality(Places(queue, r) \cup {n + 1}) = Cardinality(Places(queue, r)) + 1
    BY <2>2, <2>3, FS_AddElement
  <2> QED
    BY <1>2, <2>1, <2>4
<1>3. CASE q.rule # r
  <2>1. Places(Append(queue, q), r) = Places(queue, r)
    BY <1>1, <1>3 DEF Places
  <2> QED
    BY <1>3, <2>1
<1> QED
  BY <1>2, <1>3

LEMMA PlacesTail ==
  ASSUME NEW queue \in Seq(Queued), queue # <<>>, NEW r
  PROVE  Cardinality(Places(Tail(queue), r)) =
           IF Head(queue).rule = r THEN Cardinality(Places(queue, r)) - 1
           ELSE Cardinality(Places(queue, r))
<1> DEFINE n == Len(queue)
           rest == Places(queue, r) \ {1}
           f == [i \in rest |-> i - 1]
<1>1. /\ n \in Nat /\ n > 0 /\ Len(Tail(queue)) = n - 1 /\ Head(queue) = queue[1]
      /\ \A i \in 1..(n - 1) : Tail(queue)[i] = queue[i + 1]
  OBVIOUS
<1>2. /\ IsFiniteSet(rest)
      /\ Cardinality(rest) = IF Head(queue).rule = r THEN Cardinality(Places(queue, r)) - 1
                             ELSE Cardinality(Places(queue, r))
  <2>1. 1 \in Places(queue, r) <=> Head(queue).rule = r
    BY <1>1 DEF Places
  <2> QED
    BY <2>1, PlacesFinite, FS_RemoveElement
<1>3. \A i \in rest : i \in 2..n /\ queue[i].rule = r
  BY <1>1 DEF Places
<1>4. \A i \in rest : i - 1 \in Places(Tail(queue), r)
  <2> TAKE i \in rest
  <2>1. i \in 2..n /\ i - 1 \in 1..(n - 1) /\ (i - 1) + 1 = i
    BY <1>1, <1>3
  <2>2. Tail(queue)[i - 1].rule = r
    BY <1>1, <1>3, <2>1
  <2> QED BY <1>1, <2>1, <2>2 DEF Places
<1>5. \A j \in Places(Tail(queue), r) : j + 1 \in rest /\ (j + 1) - 1 = j
  <2> TAKE j \in Places(Tail(queue), r)
  <2>1. j \in 1..(n - 1) /\ Tail(queue)[j].rule = r
    BY <1>1 DEF Places
  <2>2. queue[j + 1].rule = r /\ j + 1 \in 1..n /\ j + 1 # 1 /\ (j + 1) - 1 = j
    BY <1>1, <2>1
  <2> QED BY <2>2 DEF Places
<1>6. f \in Bijection(rest, Places(Tail(queue), r))
  <2>1. f \in [rest -> Places(Tail(queue), r)]
    BY <1>4
  <2>2. \A a, b \in rest : f[a] = f[b] => a = b
    BY <1>1, <1>3
  <2>3. \A j \in Places(Tail(queue), r) : \E a \in rest : f[a] = j
    BY <1>5
  <2> HIDE DEF f, rest
  <2> QED BY <2>1, <2>2, <2>3, Fun_IsBij
<1>7. Cardinality(Places(Tail(queue), r)) = Cardinality(rest)
  <2> HIDE DEF f, rest
  <2>1. ExistsBijection(rest, Places(Tail(queue), r))
    BY <1>6 DEF ExistsBijection
  <2> QED BY <1>2, <2>1, FS_Bijection
<1> QED
  BY <1>2, <1>7

CountInv == AutoInv /\ count \in [Rules -> Nat] /\ CountsAgree

\* What a step does to the queue and the counters.
LEMMA QueueSteps ==
  ASSUME AutoInv, [Next]_vars
  PROVE  \/ UNCHANGED <<pending, count>>
         \/ \E q \in Queued : /\ pending' = Append(pending, q)
                              /\ count' = [count EXCEPT ![q.rule] = @ + 1]
         \/ /\ pending # <<>> /\ pending' = Tail(pending)
            /\ count' = [count EXCEPT ![Head(pending).rule] = CountAfter(Head(pending).rule)]
<1>1. ASSUME NEW r \in Rules, NEW source \in Sources, NEW dedupe \in BOOLEAN,
             Submit(r, source, dedupe)
      PROVE  \/ UNCHANGED <<pending, count>>
             \/ \E q \in Queued : /\ pending' = Append(pending, q)
                                  /\ count' = [count EXCEPT ![q.rule] = @ + 1]
  <2> DEFINE q == [rule |-> r, source |-> source]
  <2>1. q \in Queued /\ q.rule = r
    BY DEF Queued
  <2> QED
    BY <1>1, <2>1 DEF Submit, queueVars
<1>2. handoff # NoRule => handoff \in Rules
  BY DEF AutoInv, Typed
<1>3. Sources = {"schedule", "offline_download", "webhook", "manual"}
  BY DEF Sources
<1>4. CASE \E r \in Rules : RunAsync(r) \/ TriggerWebhook(r) \/ OnOfflineDownloadCompleted(r)
  <2>1. \E r \in Rules, source \in Sources, dedupe \in BOOLEAN : Submit(r, source, dedupe)
    BY <1>3, <1>4 DEF RunAsync, TriggerWebhook, OnOfflineDownloadCompleted
  <2> QED BY <1>1, <2>1
<1>5. CASE ScheduleSubmit
  <2>1. \E r \in Rules, source \in Sources, dedupe \in BOOLEAN : Submit(r, source, dedupe)
    BY <1>2, <1>3, <1>5 DEF ScheduleSubmit
  <2> QED BY <1>1, <2>1
<1>6. CASE Release
  BY <1>6 DEF Release, StartNext
<1>7. CASE \E g \in Goroutines : RunStep(g)
  BY <1>7 DEF RunStep, ReadRule, WriteRule, EndRun, StartNext
<1>8. CASE \/ UNCHANGED vars \/ ScheduleList
           \/ \E r \in Rules : \/ DeleteRule(r) \/ (\E time \in NextTimes : ScheduleRule(r, time))
                               \/ (\E to \in {"on", "off"} : SwitchRule(r, to))
  BY <1>8 DEF vars, queueVars, ScheduleList, DeleteRule, ScheduleRule, SwitchRule
<1> QED
  BY <1>4, <1>5, <1>6, <1>7, <1>8 DEF Next

LEMMA CountNext == ASSUME Ids PROVE CountInv /\ [Next]_vars => CountInv'
<1> SUFFICES ASSUME CountInv, [Next]_vars PROVE CountInv'
  OBVIOUS
<1>1. AutoInv /\ AutoInv' /\ pending \in Seq(Queued) /\ count \in [Rules -> Nat]
  BY AutoNext DEF CountInv, AutoInv, Typed
<1>2. \A r \in Rules : count[r] = Cardinality(Places(pending, r))
  BY DEF CountInv, CountsAgree, Places
<1> SUFFICES count' \in [Rules -> Nat]
             /\ \A r \in Rules : count'[r] = Cardinality(Places(pending', r))
  BY <1>1 DEF CountInv, CountsAgree, Places
<1>3. CASE UNCHANGED <<pending, count>>
  BY <1>1, <1>2, <1>3
<1>4. CASE \E q \in Queued : /\ pending' = Append(pending, q)
                             /\ count' = [count EXCEPT ![q.rule] = @ + 1]
  <2>1. PICK q \in Queued : /\ pending' = Append(pending, q)
                            /\ count' = [count EXCEPT ![q.rule] = @ + 1]
    BY <1>4
  <2>2. q.rule \in Rules
    BY DEF Queued
  <2>3. count' \in [Rules -> Nat]
    BY <1>1, <2>1, <2>2
  <2>4. \A r \in Rules : count'[r] = IF q.rule = r THEN count[r] + 1 ELSE count[r]
    BY <1>1, <2>1, <2>2
  <2>5. \A r \in Rules : Cardinality(Places(pending', r)) =
          IF q.rule = r THEN Cardinality(Places(pending, r)) + 1
          ELSE Cardinality(Places(pending, r))
    BY <1>1, <2>1, PlacesAppend
  <2> QED BY <1>2, <2>3, <2>4, <2>5
<1>5. CASE /\ pending # <<>> /\ pending' = Tail(pending)
           /\ count' = [count EXCEPT ![Head(pending).rule] = CountAfter(Head(pending).rule)]
  <2> DEFINE q == Head(pending)
  <2>1. q \in Queued /\ q.rule \in Rules /\ count[q.rule] > 0
    <3>1. q \in Queued /\ q = pending[1] /\ 1 \in 1..Len(pending)
      BY <1>1, <1>5
    <3>2. q.rule \in Rules /\ 1 \in Places(pending, q.rule)
      BY <3>1 DEF Queued, Places
    <3>3. Cardinality(Places(pending, q.rule)) # 0
      BY <1>1, <3>2, PlacesFinite, FS_EmptySet
    <3> QED BY <1>1, <1>2, <3>1, <3>2, <3>3
  <2>2. \A r \in Rules : count'[r] = IF q.rule = r THEN count[r] - 1 ELSE count[r]
    BY <1>1, <1>5, <2>1 DEF CountAfter
  <2>3. count' \in [Rules -> Nat]
    BY <1>1, <1>5, <2>1 DEF CountAfter
  <2>4. \A r \in Rules : Cardinality(Places(pending', r)) =
          IF q.rule = r THEN Cardinality(Places(pending, r)) - 1
          ELSE Cardinality(Places(pending, r))
    BY <1>1, <1>5, PlacesTail
  <2> QED BY <1>2, <2>2, <2>3, <2>4
<1> QED
  BY <1>1, <1>3, <1>4, <1>5, QueueSteps

LEMMA CountInit == ASSUME Ids PROVE Init => CountInv
<1> SUFFICES ASSUME Init PROVE CountInv
  OBVIOUS
<1>1. count \in [Rules -> Nat] /\ \A r \in Rules : count[r] = 0
  BY DEF Init
<1>2. \A r \in Rules : {i \in 1..Len(pending) : pending[i].rule = r} = {}
  BY DEF Init
<1>3. CountsAgree
  BY <1>1, <1>2, FS_EmptySet DEF CountsAgree
<1> QED
  BY <1>1, <1>3, AutoInit DEF CountInv

\* pendingCount counts the waiting runs of every rule: a scheduled run is left out
\* when one of its rule waits, and only then (submitRun, takePendingRunLocked).
THEOREM CountsMatchTheQueue == ASSUME Ids PROVE Spec => []CountsAgree
<1>1. Init => CountInv
  BY CountInit
<1>2. CountInv /\ [Next]_vars => CountInv'
  BY CountNext
<1>3. CountInv => CountsAgree
  BY DEF CountInv
<1> QED
  BY <1>1, <1>2, <1>3, PTL DEF Spec

-----------------------------------------------------------------------------
\* What the scheduler holds are rules, and only accepted runs wait.
Submitted == sched \subseteq Rules /\ Len(accepted) <= MaxSubmits
QueueInv == CountInv /\ Submitted

LEMMA SubmittedNext ==
  ASSUME Ids, MaxSubmits \in Nat, AutoInv, Submitted, [Next]_vars PROVE Submitted'
<1>1. sched' \subseteq Rules
  BY DEF Submitted, Next, vars, Release, ScheduleList, ScheduleSubmit, RunAsync, TriggerWebhook,
         OnOfflineDownloadCompleted, DeleteRule, ScheduleRule, SwitchRule, RunStep, ReadRule,
         WriteRule, EndRun
<1>2. ASSUME NEW r, NEW source, NEW dedupe, Submit(r, source, dedupe)
      PROVE  \/ accepted' = accepted
             \/ Len(accepted) < MaxSubmits /\ \E x : accepted' = Append(accepted, x)
  BY <1>2 DEF Submit, queueVars
<1>3. \/ accepted' = accepted
      \/ Len(accepted) < MaxSubmits /\ \E x : accepted' = Append(accepted, x)
  <2>1. CASE \E r, source, dedupe : Submit(r, source, dedupe)
    BY <1>2, <2>1
  <2>2. CASE \/ UNCHANGED vars \/ Release \/ ScheduleList \/ \E g \in Goroutines : RunStep(g)
    BY <2>2 DEF vars, queueVars, Release, ScheduleList, RunStep, ReadRule, WriteRule, EndRun
  <2>3. CASE \E r \in Rules : \/ DeleteRule(r) \/ (\E time \in NextTimes : ScheduleRule(r, time))
                              \/ (\E to \in {"on", "off"} : SwitchRule(r, to))
    BY <2>3 DEF queueVars, DeleteRule, ScheduleRule, SwitchRule
  <2> QED
    BY <2>1, <2>2, <2>3 DEF Next, ScheduleSubmit, RunAsync, TriggerWebhook, OnOfflineDownloadCompleted
<1>4. accepted \in Seq(Rules) /\ accepted' \in Seq(Rules)
  BY AutoNext DEF AutoInv, Typed
<1>5. Len(accepted') <= MaxSubmits
  <2>1. Len(accepted) \in Nat /\ \A x : Len(Append(accepted, x)) = Len(accepted) + 1
    BY <1>4
  <2> QED
    BY <1>3, <2>1 DEF Submitted
<1> QED
  BY <1>1, <1>5 DEF Submitted

\* A rule waits no more often than runs wait.
LEMMA CountsFit == ASSUME MaxSubmits \in Nat, QueueInv PROVE count \in [Rules -> 0..MaxSubmits]
<1> DEFINE n == Len(pending)
<1>1. /\ pending \in Seq(Queued) /\ n \in Nat /\ Len(started) \in Nat /\ Len(accepted) \in Nat
      /\ Len(accepted) = Len(started) + n /\ Len(accepted) <= MaxSubmits
  BY DEF QueueInv, CountInv, Submitted, AutoInv, Typed, Order
<1>2. n <= MaxSubmits
  BY <1>1
<1>3. ASSUME NEW r \in Rules PROVE count[r] \in 0..MaxSubmits
  <2> DEFINE P == {i \in 1..Len(pending) : pending[i].rule = r}
  <2>1. count[r] = Cardinality(P) /\ count[r] \in Nat
    BY DEF QueueInv, CountInv, CountsAgree
  <2>2. IsFiniteSet(1..n) /\ Cardinality(1..n) = n
    <3> HIDE DEF n
    <3>0. 1 \in Int /\ n \in Int
      BY <1>1
    <3>1. /\ IsFiniteSet(1..n)
          /\ Cardinality(1..n) = IF 1 > n THEN 0 ELSE n - 1 + 1
      BY ONLY <3>0, FS_Interval, Zenon
    <3>2. IF 1 > n THEN 0 = n ELSE n - 1 + 1 = n
      BY <1>1
    <3> QED BY <3>1, <3>2
  <2>3. P \subseteq 1..n
    OBVIOUS
  <2> HIDE DEF P, n
  <2>4. Cardinality(P) <= n
    BY <2>2, <2>3, FS_Subset
  <2> QED
    BY <1>1, <1>2, <2>1, <2>4
<1> QED
  BY <1>3 DEF QueueInv, CountInv

\* The queue, its counters and what the goroutines hold have their types: the counter
\* of a rule is never below zero, where it would leave out no run any more, and
\* runningRuleID names a rule or none (submitRun, takePendingRunLocked).
THEOREM QueueTypes == ASSUME Ids, MaxSubmits \in Nat PROVE Spec => []TypeOK
<1>1. Init => QueueInv
  <2> SUFFICES ASSUME Init PROVE Submitted
    BY CountInit DEF QueueInv
  <2>1. sched = {} /\ accepted = <<>>
    BY DEF Init
  <2> QED BY <2>1 DEF Submitted
<1>2. QueueInv /\ [Next]_vars => QueueInv'
  BY CountNext, SubmittedNext DEF QueueInv, CountInv
<1>3. QueueInv => TypeOK
  BY CountsFit DEF QueueInv, CountInv, Submitted, AutoInv, Typed, TypeOK
<1> QED
  BY <1>1, <1>2, <1>3, PTL DEF Spec

=============================================================================

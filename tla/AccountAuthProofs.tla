-------------------------- MODULE AccountAuthProofs --------------------------
(***************************************************************************)
(* Proofs about AccountAuth, for any number of requests, driver instances  *)
(* and saves of the account: the lock of the account, the exchanges under  *)
(* it, and what the row and the events say of them.                        *)
(***************************************************************************)
EXTENDS AccountAuth, FiniteSetTheorems, TLAPS

AnyInst == Instances \cup {NoInst}
Jobs == {"refresh", "init", "inline"}
Asking == {"driver", "exchange"}   \* the steps of a tenure before the answer
Saves == [step : {"off", "ping", "write", "recover"}, kind : {"same", "new"}, st : Rows, n : Nat]

Typed ==
  /\ row \in Rows /\ announced \in {"none", "failed", "unstored", "recovered"} /\ save \in Saves
  /\ scope \in [Procs -> Scopes \cup {NoScope}]
  /\ pc \in [Procs -> {"idle", "gate", "call"} \cup Waits \cup LockSteps]
  /\ held \in [Requests -> AnyInst] /\ cached \in AnyInst

\* Whoever is at a step under the lock has it.
Locked == \A p \in Procs : pc[p] \in LockSteps => lock = p /\ scope[p] \in Scopes

\* Until the service is asked nothing is used up.
Tenure ==
  \A p \in Procs :
    /\ pc[p] \in Asking => ~scope[p].persisted /\ scope[p].exchanged = 0
    /\ pc[p] \in LockSteps => scope[p].exchanged <= 1

CoreInv == Typed /\ Locked /\ Tenure

\* A tenure that is not for the log-in of a driver has a reason to exchange.
Reuse == \A p \in Procs : pc[p] \in Asking /\ scope[p].job # "init" => ~RecentlyRefreshed(row)

-----------------------------------------------------------------------------
\* The row after a success and after a failure.
LEMMA SucceededRow ==
  ASSUME NEW s \in Rows, NEW refreshed \in BOOLEAN
  PROVE  /\ Succeeded(s, refreshed) \in Rows /\ Succeeded(s, refreshed).newest = s.newest
         /\ Succeeded(s, refreshed).status = "active"
<1> DEFINE recent == refreshed \/ s.recent
           due == s.due /\ ~refreshed
<1>1. recent \in BOOLEAN /\ due \in BOOLEAN
  OBVIOUS
<1>2. Succeeded(s, refreshed) =
        [s EXCEPT !.status = "active", !.kind = "none", !.attempts = 0, !.retry = "none",
                  !.recent = recent, !.due = due]
  BY DEF Succeeded
<1>3. 0 \in 0..FailedThreshold
  BY AuthAssumption
<1> HIDE DEF recent, due
<1> QED
  BY ZenonT(60), <1>1, <1>2, <1>3 DEF Rows

LEMMA FailedRow ==
  ASSUME NEW s \in Rows, NEW result \in Results \ {"ok"}
  PROVE  /\ Failed(s, result) \in Rows /\ Failed(s, result).newest = s.newest
         /\ Failed(s, result).status # "active"
         /\ s.status \in Bad => Failed(s, result).status \in Bad
<1>1. Counted(s, result) \in 0..FailedThreshold
  BY AuthAssumption DEF Counted, Rows
<1>2. result \in {"net", "auth", "fatal"}
  BY DEF Results
<1> DEFINE n == Counted(s, result)
<1>3. CASE result = "fatal"
  BY <1>3 DEF Failed, Rows, Bad
<1>4. CASE result = "auth" /\ n >= FailedThreshold
  BY <1>1, <1>4 DEF Failed, Rows, Bad
<1>5. CASE result # "fatal" /\ ~(result = "auth" /\ n >= FailedThreshold)
  BY <1>1, <1>2, <1>5 DEF Failed, Rows, Bad
<1> QED
  BY <1>3, <1>4, <1>5

LEMMA FreshRowType == FreshRow \in Rows
<1>1. 0 \in 0..FailedThreshold
  BY AuthAssumption
<1> QED
  BY <1>1 DEF FreshRow, Rows

LEMMA NewScopeType ==
  ASSUME Typed, NEW j \in Jobs, NEW i \in AnyInst
  PROVE  /\ NewScope(j, i) \in Scopes /\ NewScope(j, i).job = j
         /\ ~NewScope(j, i).persisted /\ NewScope(j, i).exchanged = 0
BY DEF Typed, NewScope, Scopes, Jobs, AnyInst, Results, Rows

-----------------------------------------------------------------------------
(***************************************************************************)
(* How a goroutine moves                                                   *)
(***************************************************************************)
Others == {"idle", "gate", "call"} \cup Waits
MoveTyped == scope' \in [Procs -> Scopes \cup {NoScope}]
             /\ pc' \in [Procs -> {"idle", "gate", "call"} \cup Waits \cup LockSteps]

\* Outside the lock.
LEMMA MovesOutside ==
  ASSUME CoreInv, NEW p \in Procs, NEW t \in Others, Goto(p, t), UNCHANGED <<lock, scope>>
  PROVE  MoveTyped /\ Locked' /\ Tenure'
<1>1. pc' \in [Procs -> {"idle", "gate", "call"} \cup Waits \cup LockSteps]
      /\ pc'[p] = t /\ \A q \in Procs \ {p} : pc'[q] = pc[q]
  BY DEF CoreInv, Typed, Goto, Others
<1>2. t \notin LockSteps /\ t \notin Asking
  BY DEF Others, LockSteps, Waits, Asking
<1> QED
  BY <1>1, <1>2 DEF CoreInv, Typed, Locked, Tenure, MoveTyped

\* It takes the lock.
LEMMA MovesIn ==
  ASSUME CoreInv, NEW p \in Procs, LockFree, NEW j \in Jobs, NEW i \in AnyInst,
         Acquire(p, j, i), NEW t \in Asking, Goto(p, t)
  PROVE  MoveTyped /\ Locked' /\ Tenure'
<1>1. pc' \in [Procs -> {"idle", "gate", "call"} \cup Waits \cup LockSteps]
      /\ pc'[p] = t /\ \A q \in Procs \ {p} : pc'[q] = pc[q]
  BY DEF CoreInv, Typed, Goto, Asking, LockSteps
<1>2. scope' \in [Procs -> Scopes \cup {NoScope}]
      /\ scope'[p] = NewScope(j, i) /\ lock' = p /\ NewScope(j, i) \in Scopes
  BY NewScopeType DEF CoreInv, Typed, Acquire
<1>3. \A q \in Procs : pc[q] \notin LockSteps
  BY AuthAssumption DEF CoreInv, Locked, LockFree, Procs
<1>4. Asking \subseteq LockSteps
  BY DEF Asking, LockSteps
<1>5. ~scope'[p].persisted /\ scope'[p].exchanged = 0
  BY <1>2, NewScopeType DEF CoreInv
<1> QED
  BY <1>1, <1>2, <1>3, <1>4, <1>5 DEF Locked, Tenure, MoveTyped

\* It goes on under the lock.
LEMMA MovesOn ==
  ASSUME CoreInv, NEW p \in Procs, pc[p] \in LockSteps, lock' = lock,
         NEW s \in Scopes, scope' = [scope EXCEPT ![p] = s], NEW t \in LockSteps, Goto(p, t),
         t \in Asking => ~s.persisted /\ s.exchanged = 0, s.exchanged <= 1
  PROVE  MoveTyped /\ Locked' /\ Tenure'
<1>1. pc' \in [Procs -> {"idle", "gate", "call"} \cup Waits \cup LockSteps]
      /\ pc'[p] = t /\ \A q \in Procs \ {p} : pc'[q] = pc[q]
  BY DEF CoreInv, Typed, Goto
<1>2. scope' \in [Procs -> Scopes \cup {NoScope}]
      /\ scope'[p] = s /\ \A q \in Procs \ {p} : scope'[q] = scope[q]
  BY DEF CoreInv, Typed
<1>3. Locked'
  BY <1>1, <1>2 DEF CoreInv, Locked
<1>4. Tenure'
  BY <1>1, <1>2 DEF CoreInv, Tenure
<1> QED
  BY <1>1, <1>2, <1>3, <1>4 DEF MoveTyped

\* It gives the lock back.
LEMMA MovesOut ==
  ASSUME CoreInv, NEW p \in Procs, pc[p] \in LockSteps, Release(p), NEW t \in Others, Goto(p, t)
  PROVE  MoveTyped /\ Locked' /\ Tenure'
<1>1. pc' \in [Procs -> {"idle", "gate", "call"} \cup Waits \cup LockSteps]
      /\ pc'[p] = t /\ \A q \in Procs \ {p} : pc'[q] = pc[q]
  BY DEF CoreInv, Typed, Goto, Others
<1>2. t \notin LockSteps /\ Asking \subseteq LockSteps
  BY DEF Others, LockSteps, Waits, Asking
<1>3. \A q \in Procs \ {p} : pc[q] \notin LockSteps
  BY DEF CoreInv, Locked
<1>4. scope' \in [Procs -> Scopes \cup {NoScope}]
  BY DEF CoreInv, Typed, Release
<1> QED
  BY <1>1, <1>2, <1>3, <1>4 DEF Locked, Tenure, MoveTyped

-----------------------------------------------------------------------------
(***************************************************************************)
(* The steps of the code                                                   *)
(***************************************************************************)
RowTyped == row' \in Rows /\ announced' \in {"none", "failed", "unstored", "recovered"}
InstTyped == held' \in [Requests -> AnyInst] /\ cached' \in AnyInst

LEMMA MarkSuccessType ==
  ASSUME Typed, NEW refreshed \in BOOLEAN, MarkSuccess(refreshed) PROVE RowTyped
BY SucceededRow DEF Typed, MarkSuccess, RowTyped

LEMMA RecordFailureType ==
  ASSUME Typed, NEW result \in Results \ {"ok"}, RecordFailure(row, result) PROVE RowTyped
BY FailedRow DEF Typed, RecordFailure, RowTyped

\* The end of a request or of a refresh leads out of the lock.
LEMMA ReturnGoes ==
  ASSUME Typed, NEW r, Return(r) \/ AuthError(r)
  PROVE  (\E t \in Others : Goto(r, t)) /\ held' \in [Requests -> AnyInst]
BY DEF Return, AuthError, Others, Waits, Typed, AnyInst

LEMMA RefreshEndsGoes ==
  ASSUME Typed, NEW p, NEW success \in BOOLEAN, RefreshEnds(p, success)
  PROVE  (\E t \in Others : Goto(p, t)) /\ held' \in [Requests -> AnyInst]
<1>1. CASE Return(p)
  BY <1>1, ReturnGoes
<1>2. CASE ~Return(p)
  BY <1>2 DEF RefreshEnds, callVars, Others, Waits, Typed
<1> QED
  BY <1>1, <1>2

LEMMA CallWithGoes ==
  ASSUME Typed, NEW r, NEW i \in AnyInst, CallWith(r, i)
  PROVE  (\E t \in Others : Goto(r, t)) /\ held' \in [Requests -> AnyInst]
BY DEF CallWith, Others, Typed

LEMMA FailTenureStep ==
  ASSUME CoreInv, NEW p \in Procs, pc[p] \in LockSteps, NEW result \in Results \ {"ok"},
         FailTenure(p, result)
  PROVE  RowTyped /\ InstTyped /\ MoveTyped /\ Locked' /\ Tenure'
<1>1. RecordFailure(row, result) /\ Release(p)
  BY DEF FailTenure, Reload
<1>2. (\E t \in Others : Goto(p, t)) /\ held' \in [Requests -> AnyInst]
  <2>1. RefreshEnds(p, FALSE) \/ Return(p) \/ AuthError(p)
    BY DEF FailTenure, FnFails
  <2> QED
    BY <2>1, ReturnGoes, RefreshEndsGoes DEF CoreInv
<1>3. cached' \in AnyInst
  BY DEF FailTenure, CoreInv, Typed, AnyInst
<1> QED
  BY <1>1, <1>2, <1>3, RecordFailureType, MovesOut DEF CoreInv, InstTyped

LEMMA CoreByParts ==
  ASSUME RowTyped, InstTyped, MoveTyped, Locked', Tenure', save' \in Saves PROVE CoreInv'
BY DEF RowTyped, InstTyped, MoveTyped, CoreInv, Typed

LEMMA OutsideGoes ==
  ASSUME CoreInv, NEW r \in Requests,
         Begin(r) \/ GateCheck(r) \/ Call(r) \/ Report(r) \/ GiveUp(r)
  PROVE  /\ \E t \in Others : Goto(r, t)
         /\ held' \in [Requests -> AnyInst] /\ UNCHANGED <<lock, scope>>
<1>1. CASE Return(r) \/ AuthError(r)
  BY <1>1, ReturnGoes DEF CoreInv, Begin, GateCheck, Call, Answer, Report, GiveUp, authVars
<1>2. CASE ~(Return(r) \/ AuthError(r))
  BY <1>2 DEF Begin, GateCheck, Call, Answer, Report, GiveUp, authVars, callVars, Others,
              Waits, CoreInv, Typed
<1> QED
  BY <1>1, <1>2

LEMMA OutsideStep ==
  ASSUME CoreInv, NEW r \in Requests,
         Begin(r) \/ GateCheck(r) \/ Call(r) \/ Report(r) \/ GiveUp(r)
  PROVE  CoreInv'
<1>1. r \in Procs
  BY DEF Procs
<1>2. (\E t \in Others : Goto(r, t)) /\ held' \in [Requests -> AnyInst]
  BY OutsideGoes
<1>3. UNCHANGED <<lock, scope>> /\ save' = save
  BY OutsideGoes DEF Begin, GateCheck, Call, Answer, Report, GiveUp, authVars, saveVars
<1>4. RowTyped
  <2>1. UNCHANGED <<row, announced>> \/ RecordFailure(row, "auth")
    BY DEF Begin, GateCheck, Call, Answer, Report, GiveUp, authVars
  <2>2. "auth" \in Results \ {"ok"}
    BY DEF Results
  <2> QED
    BY <2>1, <2>2, RecordFailureType DEF CoreInv, Typed, RowTyped
<1>5. cached' \in AnyInst
  BY DEF Begin, GateCheck, Call, Answer, Report, GiveUp, instVars, CoreInv, Typed, AnyInst
<1> QED
  BY <1>1, <1>2, <1>3, <1>4, <1>5, MovesOutside, CoreByParts DEF CoreInv, Typed, InstTyped

LEMMA RefreshStep == ASSUME CoreInv, NEW p \in Procs, Refresh(p) PROVE CoreInv'
<1>1. UNCHANGED <<row, announced, cached, save>> /\ LockFree
  BY DEF Refresh, instVars, saveVars
<1>2. CASE Blocked(row) \/ RecentlyRefreshed(row)
  <2>1. RefreshEnds(p, ~Blocked(row)) /\ UNCHANGED <<lock, scope>>
    BY <1>2 DEF Refresh
  <2>2. (~Blocked(row)) \in BOOLEAN
    OBVIOUS
  <2> QED
    BY <1>1, <2>1, <2>2, RefreshEndsGoes, MovesOutside, CoreByParts
       DEF CoreInv, Typed, RowTyped, InstTyped
<1>3. CASE ~(Blocked(row) \/ RecentlyRefreshed(row))
  <2>1. Acquire(p, "refresh", NoInst) /\ Goto(p, "driver") /\ UNCHANGED held
    BY <1>3 DEF Refresh, callVars
  <2>2. "refresh" \in Jobs /\ NoInst \in AnyInst /\ "driver" \in Asking
    BY DEF Jobs, AnyInst, Asking
  <2> QED
    BY <1>1, <2>1, <2>2, MovesIn, CoreByParts DEF CoreInv, Typed, RowTyped, InstTyped
<1> QED
  BY <1>2, <1>3

LEMMA GetStep == ASSUME CoreInv, NEW r \in Requests, Get(r) PROVE CoreInv'
<1>1. UNCHANGED <<row, announced, cached, save>> /\ LockFree /\ r \in Procs
  BY DEF Get, instVars, saveVars, Procs
<1>2. CASE UNCHANGED <<lock, scope>> /\ (Return(r) \/ AuthError(r) \/ CallWith(r, cached))
  <2>1. (\E t \in Others : Goto(r, t)) /\ held' \in [Requests -> AnyInst]
    BY <1>2, ReturnGoes, CallWithGoes DEF CoreInv, Typed
  <2> QED
    BY <1>1, <1>2, <2>1, MovesOutside, CoreByParts DEF CoreInv, Typed, RowTyped, InstTyped
<1>3. CASE Acquire(r, "init", NoInst) /\ Goto(r, "driver") /\ UNCHANGED callVars
  <2>1. "init" \in Jobs /\ NoInst \in AnyInst /\ "driver" \in Asking
    BY DEF Jobs, AnyInst, Asking
  <2> QED
    BY <1>1, <1>3, <2>1, MovesIn, CoreByParts DEF CoreInv, Typed, RowTyped, InstTyped, callVars
<1> QED
  BY <1>2, <1>3 DEF Get

LEMMA InlineStep == ASSUME CoreInv, NEW r \in Requests, Inline(r) PROVE CoreInv'
<1>1. UNCHANGED <<row, announced, cached, save>> /\ LockFree /\ r \in Procs
  BY DEF Inline, instVars, saveVars, Procs
<1>2. CASE AuthError(r) /\ UNCHANGED <<lock, scope>>
  <2>1. (\E t \in Others : Goto(r, t)) /\ held' \in [Requests -> AnyInst]
    BY <1>2, ReturnGoes DEF CoreInv, Typed
  <2> QED
    BY <1>1, <1>2, <2>1, MovesOutside, CoreByParts DEF CoreInv, Typed, RowTyped, InstTyped
<1>3. CASE Goto(r, "call") /\ UNCHANGED <<held, lock, scope>>
  <2>1. "call" \in Others
    BY DEF Others
  <2> QED
    BY <1>1, <1>3, <2>1, MovesOutside, CoreByParts DEF CoreInv, Typed, RowTyped, InstTyped
<1>4. CASE Acquire(r, "inline", held[r]) /\ Goto(r, "exchange") /\ UNCHANGED callVars
  <2>1. "inline" \in Jobs /\ held[r] \in AnyInst /\ "exchange" \in Asking
    BY DEF Jobs, AnyInst, Asking, CoreInv, Typed
  <2> QED
    BY <1>1, <1>4, <2>1, MovesIn, CoreByParts DEF CoreInv, Typed, RowTyped, InstTyped, callVars
<1> QED
  BY <1>2, <1>3, <1>4 DEF Inline

LEMMA AfterGetStep == ASSUME NEW s PROVE AfterGet(s) \in LockSteps /\ (AfterGet(s) \in Asking => ~s.persisted)
BY DEF AfterGet, LockSteps, Asking

LEMMA UseCachedStep == ASSUME CoreInv, NEW p \in Procs, UseCached(p) PROVE CoreInv'
<1> DEFINE s == [scope[p] EXCEPT !.obj = cached]
<1>1. /\ UNCHANGED <<row, announced, lock, held, cached, save>>
      /\ scope' = [scope EXCEPT ![p] = s] /\ Goto(p, AfterGet(scope[p])) /\ pc[p] \in Asking
  <2>1. scope' = [scope EXCEPT ![p].obj = cached]
    BY DEF UseCached
  <2>2. [scope EXCEPT ![p].obj = cached] = [scope EXCEPT ![p] = s]
    BY DEF CoreInv, Typed
  <2> QED
    BY <2>1, <2>2 DEF UseCached, callVars, instVars, saveVars, Asking
<1>2. pc[p] \in LockSteps /\ scope[p] \in Scopes /\ cached \in AnyInst
  BY <1>1 DEF Asking, LockSteps, CoreInv, Locked, Typed
<1>3. ~scope[p].persisted /\ scope[p].exchanged = 0
  BY <1>1 DEF CoreInv, Tenure
<1>4. s \in Scopes /\ s.persisted = scope[p].persisted /\ s.exchanged = scope[p].exchanged
  BY <1>2 DEF Scopes, AnyInst
<1> HIDE DEF s
<1> DEFINE t == AfterGet(scope[p])
<1>6. t \in LockSteps /\ s.exchanged <= 1 /\ (t \in Asking => ~s.persisted /\ s.exchanged = 0)
  BY <1>3, <1>4, AfterGetStep
<1>7. Goto(p, t) /\ lock' = lock /\ scope' = [scope EXCEPT ![p] = s]
  BY <1>1
<1> HIDE DEF t
<1>5. MoveTyped /\ Locked' /\ Tenure'
  BY <1>2, <1>4, <1>6, <1>7, MovesOn
<1> QED
  BY <1>1, <1>5, CoreByParts DEF CoreInv, Typed, RowTyped, InstTyped

LEMMA BuildStep == ASSUME CoreInv, NEW p \in Procs, Build(p) PROVE CoreInv'
<1>1. pc[p] \in LockSteps /\ pc[p] \in Asking /\ save' = save
  BY DEF Build, LockSteps, Asking, saveVars
<1>2. scope[p] \in Scopes /\ ~scope[p].persisted /\ scope[p].exchanged = 0
  BY <1>1 DEF CoreInv, Locked, Tenure
<1>3. ASSUME NEW i \in Instances, scope' = [scope EXCEPT ![p].obj = i, ![p].building = TRUE],
             Goto(p, "exchange"), UNCHANGED <<row, announced, lock, callVars, cached, net>>
      PROVE  CoreInv'
  <2> DEFINE s == [scope[p] EXCEPT !.obj = i, !.building = TRUE]
  <2>1. scope' = [scope EXCEPT ![p] = s]
    BY <1>3 DEF CoreInv, Typed
  <2>2. s \in Scopes /\ s.persisted = scope[p].persisted /\ s.exchanged = scope[p].exchanged
    BY <1>2 DEF Scopes, AnyInst
  <2>3. "exchange" \in LockSteps
    BY DEF LockSteps
  <2> HIDE DEF s
  <2>5. s.exchanged <= 1 /\ ~s.persisted /\ s.exchanged = 0 /\ lock' = lock
    BY <1>2, <1>3, <2>2
  <2>4. MoveTyped /\ Locked' /\ Tenure'
    BY <1>1, <1>3, <2>1, <2>2, <2>3, <2>5, MovesOn
  <2> QED
    BY <1>1, <1>3, <2>4, CoreByParts DEF CoreInv, Typed, RowTyped, InstTyped, callVars
<1>4. ASSUME NEW i \in Instances, cached' = i, UNCHANGED <<row, announced, net>>,
             CallWith(p, i), Release(p)
      PROVE  CoreInv'
  <2>1. i \in AnyInst
    BY DEF AnyInst
  <2>2. (\E t \in Others : Goto(p, t)) /\ held' \in [Requests -> AnyInst]
    BY <1>4, <2>1, CallWithGoes DEF CoreInv
  <2> QED
    BY <1>1, <1>4, <2>1, <2>2, MovesOut, CoreByParts DEF CoreInv, Typed, RowTyped, InstTyped
<1>5. ASSUME NEW i \in Instances, cached' = i, UNCHANGED <<row, announced, net>>,
             scope' = [scope EXCEPT ![p].obj = i], Goto(p, AfterGet(scope[p])),
             UNCHANGED <<lock, callVars>>
      PROVE  CoreInv'
  <2> DEFINE s == [scope[p] EXCEPT !.obj = i]
  <2>1. scope' = [scope EXCEPT ![p] = s]
    BY <1>5 DEF CoreInv, Typed
  <2>2. s \in Scopes /\ s.persisted = scope[p].persisted /\ s.exchanged = scope[p].exchanged
    BY <1>2 DEF Scopes, AnyInst
  <2> HIDE DEF s
  <2> DEFINE t == AfterGet(scope[p])
  <2>4. t \in LockSteps /\ s.exchanged <= 1 /\ (t \in Asking => ~s.persisted /\ s.exchanged = 0)
    BY <1>2, <2>2, AfterGetStep
  <2>5. Goto(p, t) /\ lock' = lock
    BY <1>5
  <2> HIDE DEF t
  <2>3. MoveTyped /\ Locked' /\ Tenure'
    BY <1>1, <2>1, <2>2, <2>4, <2>5, MovesOn
  <2> QED
    BY <1>1, <1>5, <2>3, CoreByParts DEF CoreInv, Typed, RowTyped, InstTyped, callVars, AnyInst
<1>6. ASSUME FailTenure(p, "net") PROVE CoreInv'
  <2>1. "net" \in Results \ {"ok"}
    BY DEF Results
  <2> QED
    BY <1>1, <1>6, <2>1, FailTenureStep, CoreByParts DEF CoreInv, Typed
<1> QED
  BY <1>3, <1>4, <1>5, <1>6 DEF Build

LEMMA SaveType == ASSUME Typed PROVE [save EXCEPT !.st.newest = FALSE] \in Saves
<1>1. save \in Saves /\ [save.st EXCEPT !.newest = FALSE] \in Rows
  BY DEF Typed, Saves, Rows
<1>2. [save EXCEPT !.st.newest = FALSE] = [save EXCEPT !.st = [save.st EXCEPT !.newest = FALSE]]
  BY <1>1 DEF Saves
<1> QED
  BY <1>1, <1>2 DEF Saves

LEMMA ExchangedStep == ASSUME CoreInv, NEW p \in Procs, Exchanged(p) PROVE CoreInv'
<1> DEFINE s == [scope[p] EXCEPT !.had = FALSE, !.persisted = TRUE, !.building = FALSE,
                                 !.exchanged = scope[p].exchanged + 1, !.result = "ok"]
<1>1. pc[p] \in LockSteps /\ pc[p] \in Asking
  BY DEF Exchanged, LockSteps, Asking
<1>2. scope[p] \in Scopes /\ scope[p].exchanged = 0
  BY <1>1 DEF CoreInv, Locked, Tenure
<1>9. scope[p].exchanged + 1 = 1 /\ 1 \in Nat /\ "ok" \in Results
  BY <1>2 DEF Results
<1>3. s \in Scopes /\ s.persisted /\ s.exchanged = 1 /\ s.exchanged <= 1
  <2>1. s = [scope[p] EXCEPT !.had = FALSE, !.persisted = TRUE, !.building = FALSE,
                             !.exchanged = 1, !.result = "ok"]
    BY <1>9
  <2>2. \A u \in Scopes : [u EXCEPT !.had = FALSE, !.persisted = TRUE, !.building = FALSE,
                                   !.exchanged = 1, !.result = "ok"] \in Scopes
    BY <1>9 DEF Scopes
  <2>3. s.persisted = TRUE /\ s.exchanged = 1
    BY <1>2, <2>1 DEF Scopes
  <2>4. s \in Scopes
    BY <1>2, <2>1, <2>2
  <2> HIDE DEF s
  <2> QED
    BY <2>3, <2>4
<1>4. /\ scope' = [scope EXCEPT ![p] = s] /\ lock' = lock /\ UNCHANGED <<announced, held>>
      /\ Goto(p, "settle") /\ row' = [row EXCEPT !.newest = TRUE]
      /\ save' = [save EXCEPT !.st.newest = FALSE]
      /\ cached' = IF scope[p].building THEN scope[p].obj ELSE cached
  BY <1>3 DEF Exchanged, callVars, Rotate, AfterGet
<1>5. "settle" \in LockSteps /\ "settle" \notin Asking
  BY DEF LockSteps, Asking
<1> HIDE DEF s
<1>6. MoveTyped /\ Locked' /\ Tenure'
  BY <1>1, <1>3, <1>4, <1>5, MovesOn
<1>7. RowTyped /\ save' \in Saves
  BY <1>4, SaveType DEF CoreInv, Typed, Rows, RowTyped
<1>8. InstTyped
  BY <1>2, <1>4 DEF CoreInv, Typed, Scopes, AnyInst, InstTyped
<1> QED
  BY <1>6, <1>7, <1>8, CoreByParts

LEMMA AnswerStep ==
  ASSUME CoreInv, NEW p \in Procs, Refused(p) \/ VerifyFails(p) PROVE CoreInv'
<1>1. pc[p] \in LockSteps /\ UNCHANGED <<row, announced, lock, held, cached, save>>
  BY DEF Refused, VerifyFails, LockSteps, callVars, instVars, saveVars
<1>2. PICK result \in Results : scope' = [scope EXCEPT ![p].result = result]
  BY DEF Refused, VerifyFails, Results
<1> DEFINE s == [scope[p] EXCEPT !.result = result]
<1>3. scope[p] \in Scopes /\ scope[p].exchanged <= 1
  BY <1>1 DEF CoreInv, Locked, Tenure
<1>4. s \in Scopes /\ s.persisted = scope[p].persisted /\ s.exchanged = scope[p].exchanged
  BY <1>3 DEF Scopes
<1>5. scope' = [scope EXCEPT ![p] = s]
  BY <1>2 DEF CoreInv, Typed
<1>6. Goto(p, "settle")
  <2>1. VerifyFails(p) => pc' = [pc EXCEPT ![p] = "settle"]
    BY DEF VerifyFails, CoreInv, Typed
  <2> QED
    BY <2>1 DEF Goto, Refused
<1>7. "settle" \in LockSteps /\ "settle" \notin Asking
  BY DEF LockSteps, Asking
<1> HIDE DEF s
<1>8. MoveTyped /\ Locked' /\ Tenure'
  BY <1>1, <1>3, <1>4, <1>5, <1>6, <1>7, MovesOn
<1> QED
  BY <1>1, <1>8, CoreByParts DEF CoreInv, Typed, RowTyped, InstTyped

LEMMA SettleStep == ASSUME CoreInv, NEW p \in Procs, Settle(p) PROVE CoreInv'
<1>1. pc[p] \in LockSteps /\ save' = save
  BY DEF Settle, LockSteps, saveVars
<1>2. scope[p] \in Scopes
  BY <1>1 DEF CoreInv, Locked
<1>3. CASE scope[p].result = "ok"
  <2>1. MarkSuccess(TRUE) /\ Release(p) /\ cached' = cached
    BY <1>3 DEF Settle
  <2>2. \/ RefreshEnds(p, TRUE) \/ CallWith(p, scope[p].obj)
        \/ Goto(p, "call") /\ held' = held
    BY <1>2, <1>3 DEF Settle, Scopes
  <2>3. scope[p].obj \in AnyInst /\ "call" \in Others
    BY <1>2 DEF Scopes, AnyInst, Others
  <2>4. (\E t \in Others : Goto(p, t)) /\ held' \in [Requests -> AnyInst]
    BY <2>2, <2>3, RefreshEndsGoes, CallWithGoes DEF CoreInv, Typed
  <2> QED
    BY <1>1, <2>1, <2>4, MarkSuccessType, MovesOut, CoreByParts DEF CoreInv, Typed, InstTyped
<1>4. CASE scope[p].result # "ok"
  <2>1. FailTenure(p, scope[p].result) /\ scope[p].result \in Results \ {"ok"}
    BY <1>2, <1>4 DEF Settle, Scopes
  <2> QED
    BY <1>1, <2>1, FailTenureStep, CoreByParts DEF CoreInv, Typed
<1> QED
  BY <1>3, <1>4

LEMMA CancelStep == ASSUME CoreInv, NEW r \in Requests, CancelExchange(r) PROVE CoreInv'
<1>1. r \in Procs /\ pc[r] \in LockSteps /\ Release(r) /\ UNCHANGED <<announced, cached>>
  BY DEF CancelExchange, Procs, LockSteps
<1>2. (\E t \in Others : Goto(r, t)) /\ held' \in [Requests -> AnyInst]
  BY ReturnGoes DEF CancelExchange, CoreInv
<1>3. RowTyped /\ save' \in Saves
  BY SaveType DEF CancelExchange, Rotate, CoreInv, Typed, Rows, RowTyped, saveVars
<1> QED
  BY <1>1, <1>2, <1>3, MovesOut, CoreByParts DEF CoreInv, Typed, InstTyped

LEMMA SchedStep == ASSUME CoreInv, SchedStart PROVE CoreInv'
<1>1. /\ Sched \in Procs /\ Goto(Sched, "refresh") /\ "refresh" \in Others
      /\ UNCHANGED <<row, announced, lock, scope, held, cached, save>>
  BY DEF SchedStart, Procs, Others, Waits, authVars, callVars, instVars, saveVars
<1> QED
  BY <1>1, MovesOutside, CoreByParts DEF CoreInv, Typed, RowTyped, InstTyped

\* Steps that leave every goroutine where it is.
LEMMA NobodyMoves ==
  ASSUME CoreInv, RowTyped, InstTyped, save' \in Saves, UNCHANGED <<lock, scope, pc>>
  PROVE  CoreInv'
BY DEF CoreInv, Typed, RowTyped, InstTyped, Locked, Tenure

LEMMA SaveStepKeeps == ASSUME CoreInv, SaveStep PROVE CoreInv'
<1>1. FreshRow \in Rows /\ NoInst \in AnyInst
  BY FreshRowType DEF AnyInst
<1>2. row \in Rows /\ save \in Saves /\ announced \in {"none", "failed", "unstored", "recovered"}
      /\ held \in [Requests -> AnyInst] /\ cached \in AnyInst
  BY DEF CoreInv, Typed
<1>3. ASSUME NEW k \in SaveKinds, SaveRead(k) PROVE CoreInv'
  <2>1. k \in {"same", "new"}
    BY AuthAssumption
  <2>2. RowTyped /\ InstTyped
    BY <1>2, <1>3 DEF SaveRead, Rows, RowTyped, InstTyped, callVars
  <2>3. [FreshRow EXCEPT !.newest = row.newest] \in Rows
    BY <1>1, <1>2 DEF Rows
  <2>4. save' \in Saves
    BY <1>2, <1>3, <2>1, <2>3 DEF SaveRead, Saves
  <2> QED
    BY <1>3, <2>2, <2>4, NobodyMoves DEF SaveRead
<1>4. ASSUME SavePing PROVE CoreInv'
  <2>1. RowTyped /\ InstTyped
    BY <1>2, <1>4 DEF SavePing, Rows, RowTyped, InstTyped, callVars
  <2>2. save' \in Saves
    BY <1>1, <1>2, <1>4 DEF SavePing, Saves
  <2> QED
    BY <1>4, <2>1, <2>2, NobodyMoves DEF SavePing
<1>5. ASSUME SaveWrite PROVE CoreInv'
  <2>1. [save.st EXCEPT !.newest = TRUE, !.recent = FALSE, !.due = FALSE] \in Rows
    BY <1>2 DEF Saves, Rows
  <2>2. RowTyped /\ InstTyped
    BY <1>1, <1>2, <1>5, <2>1 DEF SaveWrite, RowTyped, InstTyped, callVars
  <2>3. save' \in Saves
    BY <1>2, <1>5 DEF SaveWrite, Saves
  <2> QED
    BY <1>5, <2>2, <2>3, NobodyMoves DEF SaveWrite
<1>6. ASSUME SaveRecover PROVE CoreInv'
  <2>1. RowTyped
    BY <1>6, MarkSuccessType DEF SaveRecover, CoreInv
  <2>2. save' \in Saves /\ InstTyped
    BY <1>1, <1>2, <1>6 DEF SaveRecover, Saves, InstTyped, callVars, instVars
  <2> QED
    BY <1>6, <2>1, <2>2, NobodyMoves DEF SaveRecover
<1> QED
  BY <1>3, <1>4, <1>5, <1>6 DEF SaveStep

LEMMA TimeStep == ASSUME CoreInv, Time \/ Revoked \/ Weather \/ UNCHANGED vars PROVE CoreInv'
<1>1. RowTyped
  BY DEF Time, RetryElapses, WindowElapses, TokenExpires, BackoffElapses, Revoked, Weather,
         vars, authVars, CoreInv, Typed, Rows, RowTyped
<1>2. InstTyped /\ save' \in Saves /\ UNCHANGED <<lock, scope, pc>>
  BY DEF Time, RetryElapses, WindowElapses, TokenExpires, BackoffElapses, Revoked, Weather,
         vars, authVars, callVars, instVars, saveVars, CoreInv, Typed, InstTyped
<1> QED
  BY <1>1, <1>2, NobodyMoves

LEMMA CoreInit == Init => CoreInv
<1> SUFFICES ASSUME Init PROVE CoreInv
  OBVIOUS
<1>1. FreshRow \in Rows
  BY FreshRowType
<1>2. Typed
  BY <1>1 DEF Init, Typed, Saves, AnyInst
<1>3. Locked /\ Tenure
  BY DEF Init, Locked, Tenure, LockSteps, Asking
<1> QED
  BY <1>2, <1>3 DEF CoreInv

LEMMA CoreNext == CoreInv /\ [Next]_vars => CoreInv'
<1> SUFFICES ASSUME CoreInv, [Next]_vars PROVE CoreInv'
  OBVIOUS
<1>1. CASE \E r \in Requests : RequestStep(r) \/ GiveUp(r) \/ CancelExchange(r)
  BY <1>1, OutsideStep, GetStep, InlineStep, CancelStep DEF RequestStep
<1>2. CASE \E p \in Procs : Refresh(p) \/ LockStep(p)
  BY <1>2, RefreshStep, UseCachedStep, BuildStep, ExchangedStep, AnswerStep, SettleStep
     DEF LockStep
<1>3. CASE SchedStart \/ SaveStep
  BY <1>3, SchedStep, SaveStepKeeps
<1>4. CASE Time \/ Revoked \/ Weather \/ UNCHANGED vars
  BY <1>4, TimeStep
<1> QED
  BY <1>1, <1>2, <1>3, <1>4 DEF Next

LEMMA CoreInvariant == Spec => []CoreInv
<1> QED
  BY CoreInit, CoreNext, PTL DEF Spec

-----------------------------------------------------------------------------
\* Whoever asks, one goroutine at a time exchanges the token of the account
\* (keyedMutex; control.go:42), and also a tenure that builds the driver it
\* refreshes exchanges once (onCredentialsPersisted and refreshUnlocked of
\* refresh_runner.go).
THEOREM ExchangesSerial == Spec => []ExchangesAreOrderly
<1>1. CoreInv => OneExchange
  BY DEF CoreInv, Locked, OneExchange, LockSteps
<1>2. CoreInv => OneTokenPerTenure
  BY DEF CoreInv, Tenure, OneTokenPerTenure
<1> QED
  BY <1>1, <1>2, CoreInvariant, PTL DEF ExchangesAreOrderly

-----------------------------------------------------------------------------
(***************************************************************************)
(* What a step does to the row                                             *)
(***************************************************************************)
\* It stays as it is.
Same == UNCHANGED <<row, announced>>
\* Only the token, the access token's age or the time change.
Aged ==
  /\ announced' = announced /\ row'.status = row.status
  /\ RecentlyRefreshed(row') => RecentlyRefreshed(row)
\* A tenure that exchanged the token ends well.
Success(p) == MarkSuccess(TRUE) /\ pc[p] = "settle" /\ pc'[p] \notin LockSteps
              /\ \A q \in Procs \ {p} : pc'[q] = pc[q]
\* A save ends, or writes credentials.
Recovery == MarkSuccess(FALSE) /\ LockFree /\ UNCHANGED pc
Written == /\ row' = [save.st EXCEPT !.newest = TRUE, !.recent = FALSE, !.due = FALSE]
           /\ save.step = "write" /\ save.kind = "new" /\ UNCHANGED announced

LEMMA RowSteps ==
  ASSUME CoreInv, [Next]_vars
  PROVE  \/ Same \/ Aged \/ Recovery \/ Written
         \/ \E p \in Procs : Success(p)
         \/ \E result \in Results \ {"ok"} : RecordFailure(row, result)
<1>0. row \in Rows /\ pc \in [Procs -> {"idle", "gate", "call"} \cup Waits \cup LockSteps]
  BY DEF CoreInv, Typed
<1>1. ASSUME NEW r \in Requests, RequestStep(r) \/ GiveUp(r)
      PROVE  Same \/ \E result \in Results \ {"ok"} : RecordFailure(row, result)
  BY <1>1 DEF RequestStep, Begin, GateCheck, Call, Answer, Report, Get, Inline, GiveUp,
              authVars, Same, Results
<1>2. ASSUME NEW r \in Requests, CancelExchange(r) PROVE Same \/ Aged
  <2>1. row' = row \/ row' = [row EXCEPT !.newest = FALSE]
    BY <1>2 DEF CancelExchange
  <2> QED
    BY <1>0, <1>2, <2>1 DEF CancelExchange, Same, Aged, RecentlyRefreshed, Rows
<1>3. ASSUME NEW p \in Procs, Refresh(p) \/ UseCached(p) \/ Refused(p) \/ VerifyFails(p)
      PROVE  Same
  BY <1>3 DEF Refresh, UseCached, Refused, VerifyFails, Same
<1>4. ASSUME NEW p \in Procs, NEW result \in Results \ {"ok"}, FailTenure(p, result)
      PROVE  \E other \in Results \ {"ok"} : RecordFailure(row, other)
  BY <1>4 DEF FailTenure, Reload
<1>5. ASSUME NEW p \in Procs, Build(p)
      PROVE  Same \/ \E result \in Results \ {"ok"} : RecordFailure(row, result)
  <2>1. "net" \in Results \ {"ok"}
    BY DEF Results
  <2> QED
    BY <1>4, <1>5, <2>1 DEF Build, Same
<1>6. ASSUME NEW p \in Procs, Exchanged(p) PROVE Aged
  BY <1>0, <1>6 DEF Exchanged, Aged, RecentlyRefreshed, Rows
<1>7. ASSUME NEW p \in Procs, Settle(p)
      PROVE  Success(p) \/ \E result \in Results \ {"ok"} : RecordFailure(row, result)
  <2>1. scope[p] \in Scopes /\ pc[p] = "settle"
    BY <1>7 DEF Settle, CoreInv, Locked, LockSteps
  <2>2. CASE scope[p].result = "ok"
    <3>1. \/ RefreshEnds(p, TRUE) \/ CallWith(p, scope[p].obj)
          \/ Goto(p, "call") /\ held' = held
      BY <1>7, <2>1, <2>2 DEF Settle, Scopes
    <3>2. scope[p].obj \in AnyInst /\ "call" \in Others
      BY <2>1 DEF Scopes, AnyInst, Others
    <3>3. \E t \in Others : Goto(p, t)
      BY <3>1, <3>2, RefreshEndsGoes, CallWithGoes DEF CoreInv
    <3>4. \A t \in Others : t \notin LockSteps
      BY DEF Others, LockSteps, Waits
    <3> QED
      BY <1>0, <1>7, <2>1, <2>2, <3>3, <3>4 DEF Settle, Success, Goto
  <2>3. CASE scope[p].result # "ok"
    <3>1. FailTenure(p, scope[p].result) /\ scope[p].result \in Results \ {"ok"}
      BY <1>7, <2>1, <2>3 DEF Settle, Scopes
    <3> QED
      BY <1>4, <3>1
  <2> QED
    BY <2>2, <2>3
<1>8. ASSUME SaveStep PROVE Same \/ Aged \/ Recovery \/ Written
  <2>1. ASSUME NEW k \in SaveKinds, SaveRead(k) PROVE Same \/ Aged
    <3>1. row' = row \/ row' = [row EXCEPT !.newest = FALSE]
      BY <2>1 DEF SaveRead
    <3> QED
      BY <1>0, <2>1, <3>1 DEF SaveRead, Same, Aged, RecentlyRefreshed, Rows
  <2>2. ASSUME SavePing PROVE Same \/ Aged
    <3>1. row' = row \/ row' = [row EXCEPT !.newest = FALSE]
      BY <2>2 DEF SavePing
    <3> QED
      BY <1>0, <2>2, <3>1 DEF SavePing, Same, Aged, RecentlyRefreshed, Rows
  <2>3. ASSUME SaveWrite PROVE Same \/ Written
    <3>1. save.kind \in {"same", "new"}
      BY DEF CoreInv, Typed, Saves
    <3> QED
      BY <2>3, <3>1 DEF SaveWrite, Same, Written
  <2> QED
    BY <1>8, <2>1, <2>2, <2>3 DEF SaveStep, SaveRecover, Recovery
<1>9. ASSUME Time \/ Revoked \/ Weather \/ SchedStart \/ UNCHANGED vars PROVE Same \/ Aged
  BY <1>0, <1>9 DEF Time, RetryElapses, WindowElapses, TokenExpires, BackoffElapses, Revoked,
     Weather, SchedStart, vars, authVars, Same, Aged, RecentlyRefreshed, Rows
<1> QED
  BY <1>1, <1>2, <1>3, <1>5, <1>6, <1>7, <1>8, <1>9 DEF Next, LockStep

\* A goroutine other than the one that moves is where it was.
LEMMA MovesElsewhere ==
  ASSUME CoreInv, NEW p, NEW t, t \notin Asking, Goto(p, t),
         scope' = scope \/ \E s : scope' = [scope EXCEPT ![p] = s],
         NEW q \in Procs, pc'[q] \in Asking
  PROVE  pc[q] \in Asking /\ scope'[q] = scope[q]
<1>1. /\ pc \in [Procs -> {"idle", "gate", "call"} \cup Waits \cup LockSteps]
      /\ scope \in [Procs -> Scopes \cup {NoScope}]
  BY DEF CoreInv, Typed
<1>2. q # p
  BY <1>1 DEF Goto
<1> QED
  BY <1>1, <1>2 DEF Goto

\* A goroutine that is about to exchange the token was already, or builds a driver
\* that may log in, or has just looked at the row.
LEMMA AskingSteps ==
  ASSUME CoreInv, [Next]_vars, NEW q \in Procs, pc'[q] \in Asking, scope'[q].job # "init"
  PROVE  \/ pc[q] \in Asking /\ scope[q].job # "init"
         \/ ~RecentlyRefreshed(row) /\ row' = row
<1> DEFINE Was == pc[q] \in Asking /\ scope[q].job # "init"
           Looked == ~RecentlyRefreshed(row) /\ row' = row
<1>0. /\ pc \in [Procs -> {"idle", "gate", "call"} \cup Waits \cup LockSteps]
      /\ scope \in [Procs -> Scopes \cup {NoScope}]
  BY DEF CoreInv, Typed
<1>1. \A t \in Others \cup {"settle"} : t \notin Asking
  BY DEF Others, Waits, Asking
<1>2. CASE UNCHANGED <<pc, scope>>
  BY <1>2
<1>3. ASSUME NEW p, NEW t \in Others \cup {"settle"}, Goto(p, t),
             scope' = scope \/ \E s : scope' = [scope EXCEPT ![p] = s]
      PROVE  Was
  BY <1>1, <1>3, MovesElsewhere
<1>4. ASSUME NEW r \in Requests, Begin(r) \/ GateCheck(r) \/ Call(r) \/ Report(r) \/ GiveUp(r)
      PROVE  Was
  BY <1>3, <1>4, OutsideGoes
<1>5. ASSUME NEW r \in Requests, CancelExchange(r) PROVE Was
  BY <1>3, <1>5, ReturnGoes DEF CancelExchange, Release, CoreInv
<1>6. ASSUME NEW p \in Procs, NEW success \in BOOLEAN, RefreshEnds(p, success),
             scope' = scope \/ Release(p)
      PROVE  Was
  BY <1>3, <1>6, RefreshEndsGoes DEF Release, CoreInv
<1>7. ASSUME NEW p \in Procs, Acquire(p, "refresh", NoInst) \/ (\E i : Acquire(p, "inline", i)),
             ~RecentlyRefreshed(row), UNCHANGED row
      PROVE  Looked
  BY <1>7
<1>8. ASSUME NEW p \in Procs, Refresh(p) PROVE Was \/ Looked
  <2>1. CASE Blocked(row) \/ RecentlyRefreshed(row)
    <3>1. RefreshEnds(p, ~Blocked(row)) /\ scope' = scope /\ (~Blocked(row)) \in BOOLEAN
      BY <1>8, <2>1 DEF Refresh
    <3> QED BY <1>6, <3>1
  <2>2. CASE ~(Blocked(row) \/ RecentlyRefreshed(row))
    BY <1>8, <2>2 DEF Refresh
  <2> QED BY <2>1, <2>2
<1>9. ASSUME NEW r \in Requests, Get(r) PROVE Was
  <2>1. CASE scope' = scope /\ (Return(r) \/ AuthError(r) \/ CallWith(r, cached))
    BY <1>3, <2>1, ReturnGoes, CallWithGoes DEF CoreInv, Typed
  <2>2. CASE Acquire(r, "init", NoInst) /\ Goto(r, "driver")
    <3>1. r \in Procs /\ scope'[r].job = "init"
      BY <1>0, <2>2 DEF Acquire, NewScope, Procs
    <3>2. q # r
      BY <3>1
    <3> QED BY <1>0, <2>2, <3>2 DEF Acquire, Goto
  <2> QED BY <1>9, <2>1, <2>2 DEF Get
<1>10. ASSUME NEW r \in Requests, Inline(r) PROVE Was \/ Looked
  <2>1. CASE scope' = scope /\ (AuthError(r) \/ Goto(r, "call"))
    <3>1. "call" \in Others
      BY DEF Others
    <3> QED BY <1>3, <2>1, <3>1, ReturnGoes DEF CoreInv
  <2>2. CASE ~RecentlyRefreshed(row) /\ row' = row
    BY <2>2
  <2> QED BY <1>10, <2>1, <2>2 DEF Inline
<1>11. ASSUME NEW p \in Procs, NEW result, FailTenure(p, result) PROVE Was
  <2>1. RefreshEnds(p, FALSE) \/ Return(p) \/ AuthError(p)
    BY <1>11 DEF FailTenure, FnFails
  <2>2. \E t \in Others : Goto(p, t)
    BY <2>1, ReturnGoes, RefreshEndsGoes DEF CoreInv
  <2> QED BY <1>3, <1>11, <2>2 DEF FailTenure, Release
<1>12. ASSUME NEW p \in Procs, pc[p] \in Asking, NEW t, Goto(p, t),
              NEW s, s.job = scope[p].job, scope' = [scope EXCEPT ![p] = s]
       PROVE  Was
  BY <1>0, <1>12 DEF Goto
<1>13. ASSUME NEW p \in Procs, UseCached(p) PROVE Was
  <2>1. pc[p] \in Asking /\ scope[p] \in Scopes /\ Goto(p, AfterGet(scope[p]))
    BY <1>13 DEF UseCached, Asking, LockSteps, CoreInv, Locked
  <2>2. [scope[p] EXCEPT !.obj = cached].job = scope[p].job
        /\ scope' = [scope EXCEPT ![p] = [scope[p] EXCEPT !.obj = cached]]
    BY <1>0, <1>13, <2>1 DEF UseCached, Scopes
  <2> QED BY <1>12, <2>1, <2>2
<1>14. ASSUME NEW p \in Procs, Build(p) PROVE Was
  <2>1. pc[p] \in Asking /\ scope[p] \in Scopes
    BY <1>14 DEF Build, Asking, LockSteps, CoreInv, Locked
  <2>2. PICK i \in Instances :
          \/ scope' = [scope EXCEPT ![p].obj = i, ![p].building = TRUE] /\ Goto(p, "exchange")
          \/ CallWith(p, i) /\ Release(p)
          \/ scope' = [scope EXCEPT ![p].obj = i] /\ Goto(p, AfterGet(scope[p]))
          \/ FailTenure(p, "net")
    BY <1>14 DEF Build
  <2>3. CASE scope' = [scope EXCEPT ![p].obj = i, ![p].building = TRUE] /\ Goto(p, "exchange")
    <3> DEFINE s == [scope[p] EXCEPT !.obj = i, !.building = TRUE]
    <3>1. s.job = scope[p].job /\ scope' = [scope EXCEPT ![p] = s]
      BY <1>0, <2>1, <2>3 DEF Scopes
    <3> HIDE DEF s
    <3> QED BY <1>12, <2>1, <2>3, <3>1
  <2>4. CASE scope' = [scope EXCEPT ![p].obj = i] /\ Goto(p, AfterGet(scope[p]))
    <3> DEFINE s == [scope[p] EXCEPT !.obj = i]
    <3>1. s.job = scope[p].job /\ scope' = [scope EXCEPT ![p] = s]
      BY <1>0, <2>1, <2>4 DEF Scopes
    <3> HIDE DEF s
    <3> QED BY <1>12, <2>1, <2>4, <3>1
  <2>5. CASE CallWith(p, i) /\ Release(p)
    <3>1. i \in AnyInst
      BY DEF AnyInst
    <3> QED BY <1>3, <2>5, <3>1, CallWithGoes DEF Release, CoreInv
  <2> QED BY <1>11, <2>2, <2>3, <2>4, <2>5
<1>15. ASSUME NEW p \in Procs, Exchanged(p) \/ Refused(p) \/ VerifyFails(p) PROVE Was
  <2>1. Goto(p, "settle")
    <3>1. CASE Exchanged(p)
      <4>1. scope[p] \in Scopes
        BY <3>1 DEF Exchanged, LockSteps, CoreInv, Locked
      <4> QED BY <3>1, <4>1 DEF Exchanged, AfterGet, Scopes
    <3>2. CASE Refused(p)
      BY <3>2 DEF Refused
    <3>3. CASE VerifyFails(p)
      BY <1>0, <3>3 DEF VerifyFails, Goto
    <3> QED BY <1>15, <3>1, <3>2, <3>3
  <2>2. \E s : scope' = [scope EXCEPT ![p] = s]
    BY <1>0, <1>15 DEF Exchanged, Refused, VerifyFails
  <2> QED BY <1>3, <2>1, <2>2
<1>16. ASSUME NEW p \in Procs, Settle(p) PROVE Was
  <2>1. scope[p] \in Scopes
    BY <1>16 DEF Settle, CoreInv, Locked, LockSteps
  <2>2. CASE scope[p].result = "ok"
    <3>1. Release(p) /\ \/ RefreshEnds(p, TRUE) \/ CallWith(p, scope[p].obj)
                        \/ Goto(p, "call") /\ held' = held
      BY <1>16, <2>1, <2>2 DEF Settle, Scopes
    <3>2. scope[p].obj \in AnyInst /\ "call" \in Others
      BY <2>1 DEF Scopes, AnyInst, Others
    <3>3. \E t \in Others : Goto(p, t)
      BY <3>1, <3>2, RefreshEndsGoes, CallWithGoes DEF CoreInv
    <3> QED BY <1>3, <3>1, <3>3 DEF Release
  <2>3. CASE scope[p].result # "ok"
    BY <1>11, <1>16, <2>3 DEF Settle
  <2> QED BY <2>2, <2>3
<1>17. ASSUME SchedStart PROVE Was
  <2>1. Goto(Sched, "refresh") /\ "refresh" \in Others /\ scope' = scope
    BY <1>17 DEF SchedStart, Others, Waits, authVars
  <2> QED BY <1>3, <2>1
<1>18. CASE SaveStep \/ Time \/ Revoked \/ Weather \/ UNCHANGED vars
  BY <1>2, <1>18 DEF SaveStep, SaveRead, SavePing, SaveWrite, SaveRecover, Time, RetryElapses,
     WindowElapses, TokenExpires, BackoffElapses, Revoked, Weather, vars, authVars
<1> QED
  BY <1>4, <1>5, <1>8, <1>9, <1>10, <1>13, <1>14, <1>15, <1>16, <1>17, <1>18
     DEF Next, RequestStep, LockStep

-----------------------------------------------------------------------------
LEMMA ReuseNext == CoreInv /\ Reuse /\ [Next]_vars => Reuse'
<1> SUFFICES ASSUME CoreInv, Reuse, [Next]_vars, NEW q \in Procs, pc'[q] \in Asking,
                    scope'[q].job # "init", RecentlyRefreshed(row')
             PROVE  FALSE
  BY DEF Reuse
<1>0. row \in Rows /\ save \in Saves /\ CoreInv'
  BY CoreNext DEF CoreInv, Typed
<1>1. row' # row \/ ~RecentlyRefreshed(row)
  BY AskingSteps DEF Reuse
<1>2. ~RecentlyRefreshed(row) => ~Same /\ ~Aged
  BY DEF Same, Aged
<1>3. ~RecentlyRefreshed(row)
  BY <1>1, AskingSteps DEF Reuse
<1>4. ~Same /\ ~Aged
  BY <1>2, <1>3
<1>5. pc[q] \in Asking
  BY <1>4, AskingSteps DEF Same, Aged
<1>6. lock = q /\ q # NoProc
  BY <1>5, AuthAssumption DEF CoreInv, Locked, Asking, LockSteps, Procs
<1>7. CASE Recovery
  BY <1>6, <1>7 DEF Recovery, LockFree
<1>8. CASE Written
  BY <1>0, <1>8 DEF Written, Saves, Rows, RecentlyRefreshed
<1>9. ASSUME NEW p \in Procs, Success(p) PROVE FALSE
  <2>1. lock = p
    BY <1>9 DEF Success, CoreInv, Locked, LockSteps
  <2> QED
    BY <1>5, <1>6, <1>9, <2>1 DEF Success, Asking
<1>10. ASSUME NEW result \in Results \ {"ok"}, RecordFailure(row, result) PROVE FALSE
  BY <1>0, <1>3, <1>10, FailedRow DEF RecordFailure, RecentlyRefreshed
<1> QED
  BY <1>4, <1>7, <1>8, <1>9, <1>10, RowSteps

LEMMA ReuseInvariant == Spec => [](CoreInv /\ Reuse)
<1>1. Init => Reuse
  BY DEF Init, Reuse, Asking
<1> QED
  BY <1>1, CoreInit, CoreNext, ReuseNext, PTL DEF Spec

\* From the look at the row to the answer of the service, nothing makes the token
\* fresh: what somebody else has just refreshed is not refreshed again (control.go:70).
THEOREM FreshTokensAreReused == Spec => FreshTokenIsReused
<1>1. CoreInv /\ Reuse /\ [Next]_vars
        => [\A p \in Procs : pc[p] = "exchange" /\ pc'[p] = "settle" /\ scope[p].job # "init"
              => ~RecentlyRefreshed(row)]_vars
  BY DEF Reuse, Asking
<1> QED
  BY <1>1, ReuseInvariant, PTL DEF Spec, FreshTokenIsReused

-----------------------------------------------------------------------------
\* Until new credentials are written, and from then on, the newest token is stored
\* or has gone to somebody who did not store it.
Kept == row.newest \/ lost \/ (save.step \in {"ping", "write"} /\ save.kind = "new")

LEMMA TokenNext == CoreInv /\ Kept /\ [Next]_vars => Kept'
<1> SUFFICES ASSUME CoreInv, Kept, [Next]_vars PROVE Kept'
  OBVIOUS
<1>0. row \in Rows /\ save \in Saves
  BY DEF CoreInv, Typed
<1>1. CASE UNCHANGED <<row, lost, save>>
  BY <1>1 DEF Kept
<1>2. ASSUME row'.newest = row.newest, UNCHANGED saveVars PROVE Kept'
  BY <1>2 DEF Kept, saveVars
<1>3. ASSUME NEW p \in Procs, NEW result \in Results \ {"ok"}, FailTenure(p, result)
      PROVE  row'.newest = row.newest
  BY <1>0, <1>3, FailedRow DEF FailTenure, Reload, RecordFailure
<1>4. ASSUME NEW r \in Requests, RequestStep(r) \/ GiveUp(r) PROVE Kept'
  <2>1. UNCHANGED saveVars
    BY <1>4 DEF RequestStep, Begin, GateCheck, Call, Answer, Report, Get, Inline, GiveUp
  <2>2. row' = row \/ RecordFailure(row, "auth")
    BY <1>4 DEF RequestStep, Begin, GateCheck, Call, Answer, Report, Get, Inline, GiveUp,
                authVars
  <2>3. "auth" \in Results \ {"ok"}
    BY DEF Results
  <2> QED
    BY <1>0, <1>2, <2>1, <2>2, <2>3, FailedRow DEF RecordFailure
<1>5. ASSUME NEW r \in Requests, CancelExchange(r) PROVE Kept'
  BY <1>5 DEF CancelExchange, Kept, saveVars
<1>6. ASSUME NEW p \in Procs, Refresh(p) \/ UseCached(p) \/ Refused(p) \/ VerifyFails(p)
      PROVE  Kept'
  BY <1>1, <1>6 DEF Refresh, UseCached, Refused, VerifyFails, saveVars
<1>7. ASSUME NEW p \in Procs, Build(p) PROVE Kept'
  <2>1. "net" \in Results \ {"ok"}
    BY DEF Results
  <2> QED
    BY <1>2, <1>3, <1>7, <2>1 DEF Build
<1>8. ASSUME NEW p \in Procs, Exchanged(p) PROVE Kept'
  BY <1>0, <1>8 DEF Exchanged, Kept, Rows
<1>9. ASSUME NEW p \in Procs, Settle(p) PROVE Kept'
  <2>1. scope[p] \in Scopes /\ UNCHANGED saveVars
    BY <1>9 DEF Settle, CoreInv, Locked, LockSteps
  <2>2. CASE scope[p].result = "ok"
    <3>1. row' = Succeeded(row, TRUE)
      BY <1>9, <2>2 DEF Settle, MarkSuccess
    <3> QED BY <1>0, <1>2, <2>1, <3>1, SucceededRow
  <2>3. CASE scope[p].result # "ok"
    <3>1. FailTenure(p, scope[p].result) /\ scope[p].result \in Results \ {"ok"}
      BY <1>9, <2>1, <2>3 DEF Settle, Scopes
    <3> QED BY <1>2, <1>3, <2>1, <3>1
  <2> QED BY <2>2, <2>3
<1>10. ASSUME SaveStep PROVE Kept'
  <2>1. ASSUME NEW k \in SaveKinds, SaveRead(k) PROVE Kept'
    <3>1. k \in {"same", "new"}
      BY AuthAssumption
    <3>2. CASE k = "new"
      BY <2>1, <3>2 DEF SaveRead, Kept
    <3>3. CASE k = "same"
      BY <2>1, <3>3 DEF SaveRead, Kept
    <3> QED BY <3>1, <3>2, <3>3
  <2>2. ASSUME SavePing PROVE Kept'
    BY <1>0, <2>2 DEF SavePing, Kept, Saves
  <2>3. ASSUME SaveWrite PROVE Kept'
    BY <1>0, <2>3 DEF SaveWrite, Kept, Saves, Rows
  <2>4. ASSUME SaveRecover PROVE Kept'
    <3>1. row' = Succeeded(row, FALSE) /\ lost' = lost /\ save.step = "recover"
      BY <2>4 DEF SaveRecover, MarkSuccess
    <3>2. row'.newest = row.newest
      BY <1>0, <3>1, SucceededRow
    <3> QED BY <3>1, <3>2 DEF Kept
  <2> QED BY <1>10, <2>1, <2>2, <2>3, <2>4 DEF SaveStep
<1>11. ASSUME Time \/ Revoked \/ Weather \/ SchedStart \/ UNCHANGED vars PROVE Kept'
  <2>1. row'.newest = row.newest
    BY <1>0, <1>11 DEF Time, RetryElapses, WindowElapses, TokenExpires, BackoffElapses,
       Revoked, Weather, SchedStart, vars, authVars, Rows
  <2>2. UNCHANGED saveVars
    BY <1>11 DEF Time, RetryElapses, WindowElapses, TokenExpires, BackoffElapses,
       Revoked, Weather, SchedStart, vars
  <2> QED BY <1>2, <2>1, <2>2
<1> QED
  BY <1>4, <1>5, <1>6, <1>7, <1>8, <1>9, <1>10, <1>11 DEF Next, LockStep

\* Whatever fails after the service has rotated the token, and whoever saves the
\* account meanwhile, the row has the newest token, unless the one who got it went
\* away (control.go:153).
THEOREM TokensAreKept == Spec => []TokenKept
<1>1. Init => Kept
  BY DEF Init, Kept, FreshRow
<1>2. CoreInv /\ Kept => TokenKept
  BY DEF Kept, TokenKept
<1> QED
  BY <1>1, <1>2, CoreInit, CoreNext, TokenNext, PTL DEF Spec

-----------------------------------------------------------------------------
\* The row and the last event agree, also while the lock is held.
Agree == (row.status \in Bad) <=> (announced = "failed")

\* The user does not change the credentials of an account.
OnlyRenamed == SaveKinds \subseteq {"same"}
Renamed == save.kind = "same" /\ Agree

LEMMA AgreeNext == ASSUME OnlyRenamed PROVE CoreInv /\ Renamed /\ [Next]_vars => Renamed'
<1> SUFFICES ASSUME CoreInv, Renamed, [Next]_vars PROVE Renamed'
  OBVIOUS
<1>0. row \in Rows /\ save \in Saves
  BY DEF CoreInv, Typed
<1>1. save'.kind = "same"
  <2>1. save' = save \/ save' = [save EXCEPT !.st.newest = FALSE] \/ SaveStep
    BY DEF Next, RequestStep, LockStep, Begin, GateCheck, Call, Answer, Report, Get, Inline,
       GiveUp, CancelExchange, Refresh, UseCached, Build, Exchanged, Refused, VerifyFails,
       Settle, Rotate, SchedStart, Time, RetryElapses, WindowElapses, TokenExpires,
       BackoffElapses, Revoked, Weather, vars, saveVars
  <2>2. SaveStep => save'.kind = "same"
    <3>1. ASSUME NEW k \in SaveKinds, SaveRead(k) PROVE save'.kind = "same"
      BY <3>1 DEF SaveRead, OnlyRenamed
    <3>2. SavePing \/ SaveWrite \/ SaveRecover => save'.kind = "same"
      BY <1>0 DEF SavePing, SaveWrite, SaveRecover, Renamed, Saves
    <3> QED BY <3>1, <3>2 DEF SaveStep
  <2> QED
    BY <1>0, <2>1, <2>2 DEF Renamed, Saves
<1>2. Agree'
  <2>1. CASE Same \/ Aged
    BY <2>1 DEF Same, Aged, Renamed, Agree
  <2>2. ASSUME NEW refreshed \in BOOLEAN, MarkSuccess(refreshed) PROVE Agree'
    BY <1>0, <2>2, SucceededRow DEF MarkSuccess, Renamed, Agree, Bad
  <2>3. ASSUME NEW result \in Results \ {"ok"}, RecordFailure(row, result) PROVE Agree'
    BY <1>0, <2>3, FailedRow DEF RecordFailure, Renamed, Agree
  <2>4. ~Written
    BY DEF Written, Renamed
  <2> QED
    BY <2>1, <2>2, <2>3, <2>4, RowSteps DEF Recovery, Success
<1> QED
  BY <1>1, <1>2 DEF Renamed

\* As long as nobody gives the account other credentials, its failures and its
\* recoveries are announced: whoever was paused is resumed (state_machine.go), unless
\* the failure was announced and could not be written.
\* With other credentials it is not so, as the run accounts_overwritten shows.
THEOREM EventsFollowTheRow == ASSUME OnlyRenamed PROVE Spec => []EventsFollow
<1>1. Init => Renamed
  BY DEF Init, Renamed, Agree, FreshRow, Bad
<1>2. CoreInv /\ Renamed => EventsFollow
  BY DEF Renamed, Agree, EventsFollow
<1>3. CoreInv /\ Renamed /\ [Next]_vars => Renamed'
  BY AgreeNext
<1> QED
  BY <1>1, <1>2, <1>3, CoreInit, CoreNext, PTL DEF Spec

-----------------------------------------------------------------------------
(***************************************************************************)
(* The back-off after network failures (executor.go: recordNetFail).       *)
(***************************************************************************)
\* The scheduler takes the lock for a refresh, never to build or to call a driver.
SchedRefreshes == pc[Sched] \in LockSteps => scope[Sched].job = "refresh"

LEMMA SchedNext == CoreInv /\ SchedRefreshes /\ [Next]_vars => SchedRefreshes'
<1> SUFFICES ASSUME CoreInv, SchedRefreshes, [Next]_vars, pc'[Sched] \in LockSteps
             PROVE  scope'[Sched].job = "refresh"
  BY DEF SchedRefreshes
<1>0. /\ pc \in [Procs -> {"idle", "gate", "call"} \cup Waits \cup LockSteps]
      /\ scope \in [Procs -> Scopes \cup {NoScope}]
      /\ Sched \in Procs /\ Sched \notin Requests
  BY AuthAssumption DEF CoreInv, Typed, Procs
<1>1. \A t \in Others : t \notin LockSteps
  BY DEF Others, Waits, LockSteps
<1>2. CASE UNCHANGED <<pc, scope>>
  BY <1>2 DEF SchedRefreshes
<1>3. ASSUME NEW p, p # Sched, NEW t, Goto(p, t),
             scope' = scope \/ \E s : scope' = [scope EXCEPT ![p] = s]
      PROVE  scope'[Sched].job = "refresh"
  BY <1>0, <1>3 DEF Goto, SchedRefreshes
<1>4. ASSUME NEW t \in Others, Goto(Sched, t) PROVE FALSE
  BY <1>0, <1>1, <1>4 DEF Goto
<1>5. ASSUME NEW p \in Procs, NEW t, Goto(p, t), pc[p] \in LockSteps,
             NEW s, s.job = scope[p].job, scope' = [scope EXCEPT ![p] = s]
      PROVE  scope'[Sched].job = "refresh"
  BY <1>0, <1>5 DEF Goto, SchedRefreshes
<1>6. ASSUME NEW p \in Procs, NEW t \in Others, Goto(p, t),
             scope' = scope \/ \E s : scope' = [scope EXCEPT ![p] = s]
      PROVE  scope'[Sched].job = "refresh"
  BY <1>3, <1>4, <1>6
<1>7. ASSUME NEW r \in Requests,
             RequestStep(r) \/ GiveUp(r) \/ CancelExchange(r)
      PROVE  scope'[Sched].job = "refresh"
  <2>1. r # Sched
    BY <1>0
  <2>2. CASE Begin(r) \/ GateCheck(r) \/ Call(r) \/ Report(r) \/ GiveUp(r)
    BY <1>3, <2>1, <2>2, OutsideGoes
  <2>3. CASE CancelExchange(r)
    BY <1>3, <2>1, <2>3, ReturnGoes DEF CancelExchange, Release, CoreInv
  <2>4. CASE Get(r)
    BY <1>3, <2>1, <2>4, ReturnGoes DEF Get, CallWith, Return, AuthError, Acquire
  <2>5. CASE Inline(r)
    BY <1>3, <2>1, <2>5, ReturnGoes DEF Inline, AuthError, Acquire
  <2> QED
    BY <1>7, <2>2, <2>3, <2>4, <2>5 DEF RequestStep
<1>8. ASSUME NEW p \in Procs, Refresh(p) PROVE scope'[Sched].job = "refresh"
  <2>1. CASE Blocked(row) \/ RecentlyRefreshed(row)
    <3>1. RefreshEnds(p, ~Blocked(row)) /\ scope' = scope /\ (~Blocked(row)) \in BOOLEAN
      BY <1>8, <2>1 DEF Refresh
    <3>2. \E t \in Others : Goto(p, t)
      BY <3>1, RefreshEndsGoes DEF CoreInv
    <3> QED BY <1>6, <3>1, <3>2
  <2>2. CASE Acquire(p, "refresh", NoInst) /\ Goto(p, "driver")
    <3>1. scope'[p].job = "refresh"
      BY <1>0, <2>2 DEF Acquire, NewScope
    <3> QED BY <1>3, <2>2, <3>1 DEF Acquire
  <2> QED BY <1>8, <2>1, <2>2 DEF Refresh
<1>9. ASSUME NEW p \in Procs, NEW result, FailTenure(p, result)
      PROVE  scope'[Sched].job = "refresh"
  <2>1. RefreshEnds(p, FALSE) \/ Return(p) \/ AuthError(p)
    BY <1>9 DEF FailTenure, FnFails
  <2>2. \E t \in Others : Goto(p, t)
    BY <2>1, ReturnGoes, RefreshEndsGoes DEF CoreInv
  <2> QED BY <1>6, <1>9, <2>2 DEF FailTenure, Release
<1>10. ASSUME NEW p \in Procs, UseCached(p) PROVE scope'[Sched].job = "refresh"
  <2>1. pc[p] \in LockSteps /\ scope[p] \in Scopes /\ Goto(p, AfterGet(scope[p]))
    BY <1>10 DEF UseCached, LockSteps, CoreInv, Locked
  <2> DEFINE s == [scope[p] EXCEPT !.obj = cached]
  <2>2. s.job = scope[p].job /\ scope' = [scope EXCEPT ![p] = s]
    BY <1>0, <1>10, <2>1 DEF UseCached, Scopes
  <2> HIDE DEF s
  <2> QED BY <1>5, <2>1, <2>2
<1>11. ASSUME NEW p \in Procs, Build(p) PROVE scope'[Sched].job = "refresh"
  <2>1. pc[p] \in LockSteps /\ scope[p] \in Scopes
    BY <1>11 DEF Build, LockSteps, CoreInv, Locked
  <2>2. PICK i \in Instances :
          \/ scope' = [scope EXCEPT ![p].obj = i, ![p].building = TRUE] /\ Goto(p, "exchange")
          \/ CallWith(p, i) /\ Release(p)
          \/ scope' = [scope EXCEPT ![p].obj = i] /\ Goto(p, AfterGet(scope[p]))
          \/ FailTenure(p, "net")
    BY <1>11 DEF Build
  <2>3. CASE scope' = [scope EXCEPT ![p].obj = i, ![p].building = TRUE] /\ Goto(p, "exchange")
    <3> DEFINE s == [scope[p] EXCEPT !.obj = i, !.building = TRUE]
    <3>1. s.job = scope[p].job /\ scope' = [scope EXCEPT ![p] = s]
      BY <1>0, <2>1, <2>3 DEF Scopes
    <3> HIDE DEF s
    <3> QED BY <1>5, <2>1, <2>3, <3>1
  <2>4. CASE scope' = [scope EXCEPT ![p].obj = i] /\ Goto(p, AfterGet(scope[p]))
    <3> DEFINE s == [scope[p] EXCEPT !.obj = i]
    <3>1. s.job = scope[p].job /\ scope' = [scope EXCEPT ![p] = s]
      BY <1>0, <2>1, <2>4 DEF Scopes
    <3> HIDE DEF s
    <3> QED BY <1>5, <2>1, <2>4, <3>1
  <2>5. CASE CallWith(p, i) /\ Release(p)
    <3>1. "call" \in Others
      BY DEF Others
    <3> QED BY <1>6, <2>5, <3>1 DEF Release, CallWith
  <2> QED BY <1>9, <2>2, <2>3, <2>4, <2>5
<1>12. ASSUME NEW p \in Procs, Exchanged(p) \/ Refused(p) \/ VerifyFails(p)
       PROVE  scope'[Sched].job = "refresh"
  <2>1. pc[p] \in LockSteps /\ scope[p] \in Scopes
    BY <1>12 DEF Exchanged, Refused, VerifyFails, LockSteps, CoreInv, Locked
  <2>2. \E t : Goto(p, t)
    BY <1>0, <1>12 DEF Exchanged, Refused, VerifyFails, Goto
  <2>3. \E s : s.job = scope[p].job /\ scope' = [scope EXCEPT ![p] = s]
    <3>1. CASE Exchanged(p)
      <4> DEFINE s == [scope[p] EXCEPT !.had = FALSE, !.persisted = TRUE, !.building = FALSE,
                         !.exchanged = scope[p].exchanged + 1, !.result = "ok"]
      <4>1. s.job = scope[p].job /\ scope' = [scope EXCEPT ![p] = s]
        BY <2>1, <3>1 DEF Exchanged, Scopes
      <4> HIDE DEF s
      <4> QED BY <4>1
    <3>2. CASE Refused(p) \/ VerifyFails(p)
      <4>1. PICK result : scope' = [scope EXCEPT ![p].result = result]
        BY <3>2 DEF Refused, VerifyFails
      <4> DEFINE s == [scope[p] EXCEPT !.result = result]
      <4>2. s.job = scope[p].job /\ scope' = [scope EXCEPT ![p] = s]
        BY <2>1, <4>1 DEF Scopes
      <4> HIDE DEF s
      <4> QED BY <4>2
    <3> QED BY <1>12, <3>1, <3>2
  <2> QED BY <1>5, <2>1, <2>2, <2>3
<1>13. ASSUME NEW p \in Procs, Settle(p) PROVE scope'[Sched].job = "refresh"
  <2>1. scope[p] \in Scopes
    BY <1>13 DEF Settle, CoreInv, Locked, LockSteps
  <2>2. CASE scope[p].result = "ok"
    <3>1. Release(p) /\ \/ RefreshEnds(p, TRUE) \/ CallWith(p, scope[p].obj)
                        \/ Goto(p, "call")
      BY <1>13, <2>1, <2>2 DEF Settle, Scopes
    <3>2. "call" \in Others
      BY DEF Others
    <3>3. \E t \in Others : Goto(p, t)
      BY <3>1, <3>2, RefreshEndsGoes DEF CoreInv, CallWith
    <3> QED BY <1>6, <3>1, <3>3 DEF Release
  <2>3. CASE scope[p].result # "ok"
    BY <1>9, <1>13, <2>3 DEF Settle
  <2> QED BY <2>2, <2>3
<1>14. ASSUME SchedStart PROVE scope'[Sched].job = "refresh"
  <2>1. Goto(Sched, "refresh") /\ "refresh" \in Others
    BY <1>14 DEF SchedStart, Others, Waits
  <2> QED BY <1>4, <2>1
<1>15. CASE SaveStep \/ Time \/ Revoked \/ Weather \/ UNCHANGED vars
  BY <1>2, <1>15 DEF SaveStep, SaveRead, SavePing, SaveWrite, SaveRecover, Time, RetryElapses,
     WindowElapses, TokenExpires, BackoffElapses, Revoked, Weather, vars, authVars
<1> QED
  BY <1>7, <1>8, <1>10, <1>11, <1>12, <1>13, <1>14, <1>15 DEF Next, LockStep

\* The requests under way, i.e. past the check of the back-off.
Busy == {r \in Requests : pc[r] # "idle"}

NetTyped == net \in [count : Nat, until : {"none", "on", "past"}]

\* Below the threshold there is no back-off; once it is there, every failure counted
\* beyond the threshold is that of a request that has ended since.
Bounded ==
  /\ net.until = "none" => net.count < NetThreshold
  /\ net.until = "on" => net.count + Cardinality(Busy) < NetThreshold + Cardinality(Requests)
  /\ net.until = "past" => net.count < NetThreshold + Cardinality(Requests)

\* A failure is counted as its request ends; during the back-off no request begins.
NetMove ==
  \/ net' = net /\ (Busy' \subseteq Busy \/ net.until # "on")
  \/ net' = [count |-> 0, until |-> "none"]
  \/ net' = NetFailed /\ \E r \in Busy : Busy' \subseteq Busy \ {r}
  \/ net.until = "on" /\ net' = [net EXCEPT !.until = "past"] /\ Busy' = Busy

LEMMA NetMoves == ASSUME CoreInv, SchedRefreshes, [Next]_vars PROVE NetMove
<1>0. pc \in [Procs -> {"idle", "gate", "call"} \cup Waits \cup LockSteps]
      /\ \A r \in Requests : r \in Procs
  BY DEF CoreInv, Typed, Procs
<1>1. ASSUME NEW p \in Procs, pc[p] # "idle" \/ p = Sched, NEW t, Goto(p, t), net' = net
      PROVE  NetMove
  BY <1>0, <1>1, AuthAssumption DEF Goto, NetMove, Busy
<1>2. ASSUME NEW r \in Requests, pc[r] # "idle", Return(r), net' = NetFailed PROVE NetMove
  BY <1>0, <1>2 DEF Return, Goto, NetMove, Busy
<1>3. ASSUME pc' = pc, net' = net PROVE NetMove
  BY <1>3 DEF NetMove, Busy
<1>4. "idle" \notin LockSteps /\ "idle" \notin Waits
  BY DEF LockSteps, Waits
<1>5. ASSUME NEW p \in Procs, pc[p] \in LockSteps, NEW result, FailTenure(p, result)
      PROVE  NetMove
  <2>1. CASE scope[p].job = "refresh"
    <3>1. (\E t \in Others : Goto(p, t)) /\ net' = net
      BY <1>5, <2>1, RefreshEndsGoes DEF FailTenure, CoreInv
    <3> QED BY <1>1, <1>4, <1>5, <3>1
  <2>2. CASE scope[p].job # "refresh"
    <3>1. p \in Requests
      BY <1>5, <2>2 DEF Procs, SchedRefreshes
    <3>2. FnFails(p, result)
      BY <1>5, <2>2 DEF FailTenure
    <3>3. CASE result = "net"
      BY <1>2, <1>4, <1>5, <3>1, <3>2, <3>3 DEF FnFails
    <3>4. CASE result # "net"
      <4>1. AuthError(p) /\ net' = net
        BY <3>2, <3>4 DEF FnFails
      <4> QED BY <1>1, <1>4, <1>5, <4>1, ReturnGoes DEF CoreInv
    <3> QED BY <3>3, <3>4
  <2> QED BY <2>1, <2>2
<1>6. ASSUME NEW r \in Requests, Begin(r) PROVE NetMove
  BY <1>6 DEF Begin, NetMove
<1>7. ASSUME NEW r \in Requests, Call(r) PROVE NetMove
  <2>1. PICK result : Answer(r, result)
    BY <1>7 DEF Call
  <2>2. pc[r] # "idle"
    BY <2>1 DEF Answer
  <2>3. CASE result = "ok"
    BY <2>1, <2>3 DEF Answer, NetMove
  <2>4. CASE result = "net"
    BY <1>2, <2>1, <2>2, <2>4 DEF Answer
  <2>5. CASE result \notin {"ok", "net"}
    <3>1. (Goto(r, "inline") \/ AuthError(r)) /\ net' = net
      BY <2>1, <2>5 DEF Answer
    <3> QED BY <1>0, <1>1, <2>2, <3>1, ReturnGoes DEF CoreInv
  <2> QED BY <2>3, <2>4, <2>5
<1>8. ASSUME NEW r \in Requests, GateCheck(r) \/ Report(r) \/ GiveUp(r) PROVE NetMove
  BY <1>0, <1>1, <1>4, <1>8, OutsideGoes DEF GateCheck, Report, GiveUp
<1>9. ASSUME NEW r \in Requests, Get(r) \/ Inline(r) \/ CancelExchange(r) PROVE NetMove
  <2>1. pc[r] # "idle" /\ net' = net
    BY <1>9 DEF Get, Inline, CancelExchange
  <2>2. \E t : Goto(r, t)
    BY <1>9 DEF Get, Inline, CancelExchange, Return, AuthError, CallWith
  <2> QED BY <1>0, <1>1, <2>1, <2>2
<1>10. ASSUME NEW p \in Procs, Refresh(p) PROVE NetMove
  <2>1. pc[p] # "idle" /\ net' = net
    BY <1>10 DEF Refresh
  <2>2. \E t : Goto(p, t)
    BY <1>10 DEF Refresh, RefreshEnds, Return
  <2> QED BY <1>1, <2>1, <2>2
<1>11. ASSUME NEW p \in Procs, UseCached(p) \/ Exchanged(p) \/ Refused(p) \/ VerifyFails(p)
       PROVE  NetMove
  <2>1. pc[p] # "idle" /\ net' = net
    BY <1>11 DEF UseCached, Exchanged, Refused, VerifyFails
  <2>2. pc' = pc \/ \E t : Goto(p, t)
    BY <1>11 DEF UseCached, Exchanged, Refused, VerifyFails
  <2> QED BY <1>1, <1>3, <2>1, <2>2
<1>12. ASSUME NEW p \in Procs, Build(p) PROVE NetMove
  <2>1. pc[p] \in LockSteps
    BY <1>12 DEF Build, LockSteps
  <2>2. \/ (\E t : Goto(p, t)) /\ net' = net
        \/ FailTenure(p, "net")
    BY <1>12 DEF Build, CallWith
  <2> QED BY <1>1, <1>4, <1>5, <2>1, <2>2
<1>13. ASSUME NEW p \in Procs, Settle(p) PROVE NetMove
  <2>1. pc[p] \in LockSteps /\ scope[p] \in Scopes
    BY <1>13 DEF Settle, LockSteps, CoreInv, Locked
  <2>2. \/ (\E t : Goto(p, t)) /\ net' = net
        \/ FailTenure(p, scope[p].result)
    BY <1>13, <2>1 DEF Settle, Scopes, RefreshEnds, Return, CallWith
  <2> QED BY <1>1, <1>4, <1>5, <2>1, <2>2
<1>14. ASSUME SchedStart PROVE NetMove
  BY <1>1, <1>14 DEF SchedStart, Procs
<1>15. CASE BackoffElapses
  BY <1>15 DEF BackoffElapses, NetMove, Busy
<1>16. CASE \/ SaveStep \/ RetryElapses \/ WindowElapses \/ TokenExpires
            \/ Revoked \/ Weather \/ UNCHANGED vars
  BY <1>3, <1>16 DEF SaveStep, SaveRead, SavePing, SaveWrite, SaveRecover, RetryElapses,
     WindowElapses, TokenExpires, Revoked, Weather, vars
<1> QED
  BY <1>6, <1>7, <1>8, <1>9, <1>10, <1>11, <1>12, <1>13, <1>14, <1>15, <1>16
     DEF Next, RequestStep, LockStep, Time

LEMMA BoundedNext ==
  ASSUME CoreInv, SchedRefreshes, NetTyped, Bounded, [Next]_vars
  PROVE  NetTyped' /\ Bounded'
<1>0. /\ NetThreshold \in Nat /\ NetThreshold > 0 /\ IsFiniteSet(Requests)
      /\ Cardinality(Requests) \in Nat
  BY AuthAssumption, FS_CardinalityType
<1>1. /\ Busy \subseteq Requests /\ Busy' \subseteq Requests
      /\ IsFiniteSet(Busy) /\ IsFiniteSet(Busy')
      /\ Cardinality(Busy) \in Nat /\ Cardinality(Busy') \in Nat
      /\ Cardinality(Busy) <= Cardinality(Requests)
  <2>1. Busy \in SUBSET Requests /\ Busy' \in SUBSET Requests
    BY DEF Busy
  <2>2. IsFiniteSet(Busy) /\ IsFiniteSet(Busy') /\ Cardinality(Busy) <= Cardinality(Requests)
    BY <1>0, <2>1, FS_Subset
  <2> QED
    BY <2>1, <2>2, FS_CardinalityType
<1>2. net.count \in Nat /\ net.until \in {"none", "on", "past"}
      /\ net = [count |-> net.count, until |-> net.until]
  BY DEF NetTyped
<1>3. CASE net' = net /\ (Busy' \subseteq Busy \/ net.until # "on")
  <2>1. Busy' \subseteq Busy => Cardinality(Busy') <= Cardinality(Busy)
    BY <1>1, FS_Subset
  <2> QED
    BY <1>0, <1>1, <1>2, <1>3, <2>1 DEF Bounded, NetTyped
<1>4. CASE net' = [count |-> 0, until |-> "none"]
  BY <1>0, <1>4 DEF Bounded, NetTyped
<1>5. ASSUME net' = NetFailed, NEW r \in Busy, Busy' \subseteq Busy \ {r}
      PROVE  NetTyped' /\ Bounded'
  <2>1. Cardinality(Busy') <= Cardinality(Busy) - 1
    <3>1. IsFiniteSet(Busy \ {r}) /\ Cardinality(Busy \ {r}) = Cardinality(Busy) - 1
      BY <1>1, FS_RemoveElement
    <3> QED
      BY <1>5, <3>1, FS_Subset
  <2> DEFINE n == IF net.until = "past" THEN 1 ELSE net.count + 1
             u == IF n >= NetThreshold THEN "on"
                  ELSE IF net.until = "past" THEN "none" ELSE net.until
  <2>2. net'.count = n /\ net'.until = u
    BY <1>5 DEF NetFailed
  <2>3. n \in Nat /\ u \in {"none", "on", "past"}
    BY <1>2
  <2>4. net' \in [count : Nat, until : {"none", "on", "past"}]
    BY <1>5, <2>3 DEF NetFailed
  <2>5. u = "none" => n < NetThreshold
    BY <1>0, <1>2 DEF Bounded
  <2>6. u # "past"
    BY <1>2
  <2>7. u = "on" => n + Cardinality(Busy') < NetThreshold + Cardinality(Requests)
    <3>1. CASE net.until = "on"
      BY <1>0, <1>1, <1>2, <2>1, <3>1 DEF Bounded
    <3>2. CASE net.until = "past"
      BY <1>0, <1>1, <1>2, <2>1, <3>2
    <3>3. CASE net.until = "none"
      <4>1. n <= NetThreshold
        BY <1>0, <1>2, <3>3 DEF Bounded
      <4> QED
        BY <1>0, <1>1, <1>2, <2>1, <2>3, <4>1
    <3> QED
      BY <1>2, <3>1, <3>2, <3>3
  <2> HIDE DEF n, u
  <2> QED
    BY <2>2, <2>4, <2>5, <2>6, <2>7 DEF Bounded, NetTyped
<1>6. CASE net.until = "on" /\ net' = [net EXCEPT !.until = "past"] /\ Busy' = Busy
  <2>1. net' = [count |-> net.count, until |-> "past"]
    BY <1>2, <1>6
  <2> QED
    BY <1>0, <1>1, <1>2, <1>6, <2>1 DEF Bounded, NetTyped
<1> QED
  BY <1>3, <1>4, <1>5, <1>6, NetMoves DEF NetMove

\* Once the threshold is reached, only the requests that were under way by then are
\* still counted, whatever answers they get and in whatever order: the back-off ends
\* with fewer failures than the threshold and the requests together.
THEOREM BackoffBounds == Spec => []BackoffLimitsFailures
<1>0. /\ NetThreshold \in Nat /\ NetThreshold > 0 /\ IsFiniteSet(Requests)
      /\ Cardinality(Requests) \in Nat
  BY AuthAssumption, FS_CardinalityType
<1>1. Init => SchedRefreshes /\ NetTyped /\ Bounded
  BY <1>0, AuthAssumption DEF Init, SchedRefreshes, NetTyped, Bounded, LockSteps, Procs
<1>2. NetTyped /\ Bounded => BackoffLimitsFailures
  <2> SUFFICES ASSUME NetTyped, Bounded PROVE BackoffLimitsFailures
    OBVIOUS
  <2>1. IsFiniteSet(Busy) /\ Cardinality(Busy) \in Nat
    <3>1. Busy \in SUBSET Requests
      BY DEF Busy
    <3> QED
      BY <1>0, <3>1, FS_Subset, FS_CardinalityType
  <2> QED
    BY <1>0, <2>1 DEF NetTyped, Bounded, BackoffLimitsFailures
<1>3. CoreInv /\ SchedRefreshes /\ NetTyped /\ Bounded /\ [Next]_vars
        => SchedRefreshes' /\ NetTyped' /\ Bounded'
  BY SchedNext, BoundedNext
<1> QED
  BY <1>1, <1>2, <1>3, CoreInvariant, PTL DEF Spec

=============================================================================

----------------------------- MODULE AccountAuth -----------------------------
(***************************************************************************)
(* The credentials of one account: internal/auth, the driver registry      *)
(* (internal/driver/manager.go), the executor every driver call goes       *)
(* through (internal/core/driverexec) and the saving of an account         *)
(* (internal/account).  Accounts share nothing but the maps that hold      *)
(* their state, so one account stands for all.                             *)
(*                                                                         *)
(* Requests run Executor.Run; Sched is the active refresh of the           *)
(* scheduler.  The remote service rotates the refresh token at every       *)
(* exchange: a holder of one (the row of account_auth_states or a driver   *)
(* instance) has the newest or a dead one, which is all the model keeps of *)
(* it.  Times are reduced to the side of a deadline they are on.           *)
(***************************************************************************)
EXTENDS Naturals, FiniteSets

CONSTANTS
  Requests,        \* goroutines that call a driver through the executor
  Sched,           \* the goroutine of the active scheduler
  Instances,       \* driver instances, enough for those in use at once
  NoInst, NoProc,
  FailedThreshold, \* activeFailedThreshold
  NetThreshold,    \* netFailThreshold
  SaveKinds,       \* the credentials an account is saved with: "same", "new"
  MaxSaves         \* bound on the number of saves

ASSUME AuthAssumption ==
  /\ IsFiniteSet(Requests)
  /\ Sched \notin Requests /\ NoProc \notin Requests \cup {Sched}
  /\ NoInst \notin Instances
  /\ FailedThreshold \in Nat \ {0} /\ NetThreshold \in Nat \ {0}
  /\ SaveKinds \subseteq {"same", "new"} /\ MaxSaves \in Nat

VARIABLES
  row,       \* the account's row: status, failures, deadlines, token
  announced, \* the last event published for the account; "unstored" when it told of a
             \* failure that could not be written to the row
  lock,      \* holder of the account's channel in keyedMutex
  scope,     \* per goroutine: its refreshScope and what it took the lock for
  pc,        \* per goroutine: its next step
  try,       \* per request: the first or the second attempt of WithRetry
  inlined,   \* per request: the driver refreshed inside the present call
  held,      \* per request: the instance it calls
  cached,    \* the instance in Manager.instances
  current,   \* the instances that hold the newest token
  net,       \* netFails of the account
  up,        \* whether the remote service answers correctly
  valid,     \* whether the newest access token is accepted
  save,      \* the account.Service.Update under way
  lost       \* history: a token went to somebody who did not store it

authVars  == <<row, announced, lock, scope>>
callVars  == <<try, inlined, held>>
instVars  == <<cached, current>>
cloudVars == <<up, valid>>
saveVars == <<save, lost>>
vars == <<authVars, pc, callVars, instVars, cloudVars, net, saveVars>>

Procs == Requests \cup {Sched}
Bad == {"failed", "token_expired"}
LockSteps == {"driver", "exchange", "settle"}
Waits == {"refresh", "get", "inline", "report"}   \* waiting for the lock
Results == {"ok", "net", "auth", "fatal"}

\* newest: the row holds the newest token; recent: LastRefreshAt lies within
\* passiveReuseWindow; due: TokenExpires or CookieExpires has passed.
Rows == [status : {"active", "cooldown"} \cup Bad, kind : {"none", "net", "auth"},
         attempts : 0..FailedThreshold, retry : {"none", "wait", "due"},
         recent : BOOLEAN, due : BOOLEAN, newest : BOOLEAN]
FreshRow == [status |-> "active", kind |-> "none", attempts |-> 0, retry |-> "none",
             recent |-> FALSE, due |-> FALSE, newest |-> TRUE]

\* had: the state loaded with the lock still holds the newest token; building:
\* drv.Init is under way; exchanged counts the exchanges that succeeded under this lock (history).
Scopes == [job : {"refresh", "init", "inline"}, had : BOOLEAN, obj : Instances \cup {NoInst},
           building : BOOLEAN, persisted : BOOLEAN, exchanged : Nat, result : Results]
NoScope == [job |-> "none"]
NewScope(j, i) == [job |-> j, had |-> row.newest, obj |-> i, building |-> FALSE,
                   persisted |-> FALSE, exchanged |-> 0, result |-> "ok"]

TypeOK ==
  /\ row \in Rows /\ announced \in {"none", "failed", "unstored", "recovered"}
  /\ lock \in Procs \cup {NoProc}
  /\ scope \in [Procs -> Scopes \cup {NoScope}]
  /\ pc \in [Procs -> {"idle", "gate", "call"} \cup Waits \cup LockSteps]
  /\ try \in [Requests -> 1..2] /\ inlined \in [Requests -> BOOLEAN]
  /\ held \in [Requests -> Instances \cup {NoInst}]
  /\ cached \in Instances \cup {NoInst} /\ current \subseteq Instances
  /\ net \in [count : Nat, until : {"none", "on", "past"}]
  /\ up \in BOOLEAN /\ valid \in BOOLEAN
  /\ save.n \in 0..MaxSaves /\ lost \in BOOLEAN

Init ==
  /\ row = FreshRow /\ announced = "none"
  /\ lock = NoProc /\ scope = [p \in Procs |-> NoScope]
  /\ pc = [p \in Procs |-> "idle"]
  /\ try = [r \in Requests |-> 1] /\ inlined = [r \in Requests |-> FALSE]
  /\ held = [r \in Requests |-> NoInst]
  /\ cached = NoInst /\ current = {}
  /\ net = [count |-> 0, until |-> "none"]
  /\ up = TRUE /\ valid \in BOOLEAN
  /\ save = [step |-> "off", kind |-> "same", st |-> FreshRow, n |-> 0] /\ lost = FALSE

-----------------------------------------------------------------------------
(***************************************************************************)
(* The state machine of the row                                            *)
(***************************************************************************)
Blocked(s) == s.retry # "due" /\ (s.status \in Bad \/ (s.status = "cooldown" /\ s.retry = "wait"))
RecentlyRefreshed(s) == s.status = "active" /\ s.recent /\ ~s.due

\* markSuccess; applyTokenSchedule has moved the deadlines of a real refresh.
Succeeded(s, refreshed) ==
  [s EXCEPT !.status = "active", !.kind = "none", !.attempts = 0, !.retry = "none",
            !.recent = refreshed \/ s.recent, !.due = s.due /\ ~refreshed]

\* handleFailure: a fatal answer, the fifth authentication failure, any other.
Counted(s, result) ==
  IF result = "auth" /\ s.attempts < FailedThreshold THEN s.attempts + 1 ELSE s.attempts
Failed(s, result) ==
  LET n == Counted(s, result)
  IN  IF result = "fatal"
      THEN [s EXCEPT !.status = "token_expired", !.kind = "auth", !.retry = "wait"]
      ELSE IF result = "auth" /\ n >= FailedThreshold
      THEN [s EXCEPT !.status = "failed", !.kind = "auth", !.attempts = n, !.retry = "wait"]
      ELSE [s EXCEPT !.status = IF s.status \in Bad THEN s.status ELSE "cooldown",
                     !.kind = result, !.attempts = n, !.retry = "wait"]

MarkSuccessUnlessExpired(refreshed) ==
  /\ row' = Succeeded(row, refreshed)
  /\ announced' = IF row.status = "failed" THEN "recovered" ELSE announced
MarkSuccess(refreshed) ==
  /\ row' = Succeeded(row, refreshed)
  /\ announced' = IF row.status # "active" THEN "recovered" ELSE announced

\* handleFailure with the events of toTokenExpired and toFailed, which go out also
\* when the row cannot be written.
RecordFailure(s, result) ==
  LET to == Failed(s, result).status
      told == to \in Bad /\ to # s.status
  IN  \/ row' = Failed(s, result) /\ announced' = IF told THEN "failed" ELSE announced
      \/ /\ UNCHANGED row
         /\ announced' = IF told /\ row.status \notin Bad THEN "unstored" ELSE announced

\* recordRefreshFailure reads the row again: the driver may have stored a token.
Snapshot(p) == [row EXCEPT !.newest = scope[p].had]
Reload(p) == row

-----------------------------------------------------------------------------
(***************************************************************************)
(* What a request does when a step under the lock ends, or is not taken    *)
(***************************************************************************)
Goto(p, step) == pc' = [pc EXCEPT ![p] = step]
Return(r) ==
  /\ Goto(r, "idle") /\ held' = [held EXCEPT ![r] = NoInst]
  /\ try' = [try EXCEPT ![r] = 1] /\ inlined' = [inlined EXCEPT ![r] = FALSE]

\* WithRetry: fn has returned an authentication error.
AuthError(r) ==
  /\ held' = [held EXCEPT ![r] = NoInst]
  /\ inlined' = [inlined EXCEPT ![r] = FALSE]
  /\ IF try[r] = 1 THEN Goto(r, "refresh") /\ try' = [try EXCEPT ![r] = 2]
                   ELSE Goto(r, "report") /\ UNCHANGED try

\* recordNetFail
NetFailed ==
  LET n == IF net.until = "past" THEN 1 ELSE net.count + 1
  IN  [count |-> n, until |-> IF n >= NetThreshold THEN "on"
                              ELSE IF net.until = "past" THEN "none" ELSE net.until]

\* Refresh has returned: to the scheduler, or to Check or WithRetry.
RefreshEnds(p, success) ==
  IF p = Sched THEN Goto(p, "idle") /\ UNCHANGED callVars
  ELSE IF success THEN Goto(p, "get") /\ UNCHANGED callVars
  ELSE Return(p)

\* The instance is there, the call may start.
CallWith(r, i) ==
  /\ Goto(r, "call") /\ held' = [held EXCEPT ![r] = i]
  /\ inlined' = [inlined EXCEPT ![r] = FALSE] /\ UNCHANGED try

\* drivers.Get, or a call after an inline refresh, ends with an error.
FnFails(r, result) ==
  IF result = "net" THEN Return(r) /\ net' = NetFailed
  ELSE AuthError(r) /\ UNCHANGED net

LockForgotten == TRUE
LockFree == lock = NoProc
Acquire(p, j, i) == lock' = p /\ scope' = [scope EXCEPT ![p] = NewScope(j, i)]
Release(p) == lock' = NoProc /\ scope' = [scope EXCEPT ![p] = NoScope]

-----------------------------------------------------------------------------
(***************************************************************************)
(* A request: Executor.Run, Gate.Check and WithRetry                       *)
(***************************************************************************)
\* backoffRemaining: during the back-off the request is refused at once.
BeginUnchecked(r) ==
  /\ pc[r] = "idle" /\ Goto(r, "gate")
  /\ UNCHANGED <<authVars, callVars, instVars, cloudVars, net, saveVars>>
Begin(r) ==
  /\ pc[r] = "idle" /\ net.until # "on"
  /\ Goto(r, "gate")
  /\ UNCHANGED <<authVars, callVars, instVars, cloudVars, net, saveVars>>

\* Gate.Check reads the row without the lock.
GateCheck(r) ==
  /\ pc[r] = "gate"
  /\ IF row.status = "active" THEN Goto(r, "get") /\ UNCHANGED callVars
     ELSE IF Blocked(row) THEN Return(r)
     ELSE Goto(r, "refresh") /\ UNCHANGED callVars
  /\ UNCHANGED <<authVars, instVars, cloudVars, net, saveVars>>

\* The driver's answer.  ok: clearNetFail; a network error resets the account's
\* cached instance, whichever one the call used; on an authentication error the
\* driver refreshes by itself, once in a call, or hands the error up.
Answer(r, result) ==
  /\ pc[r] = "call"
  /\ \/ /\ result = "ok" /\ Return(r)
        /\ net' = [count |-> 0, until |-> "none"] /\ UNCHANGED cached
     \/ /\ result = "net" /\ Return(r)
        /\ net' = NetFailed /\ cached' = NoInst
     \/ /\ result = "auth" /\ ~inlined[r]
        /\ Goto(r, "inline") /\ UNCHANGED <<callVars, net, cached>>
     \/ /\ result = "auth" /\ AuthError(r) /\ UNCHANGED <<net, cached>>
  /\ UNCHANGED <<authVars, current, cloudVars, saveVars>>

Call(r) ==
  \/ up /\ (held[r] \notin current \/ valid) /\ Answer(r, "ok")
  \/ ~up /\ Answer(r, "net")
  \/ (~up \/ ~valid \/ held[r] \notin current) /\ Answer(r, "auth")

\* Gate.HandleRetryFailure: only the first of several failures is recorded.
Report(r) ==
  /\ pc[r] = "report" /\ LockFree
  /\ IF row.status = "active" THEN RecordFailure(row, "auth") ELSE UNCHANGED <<row, announced>>
  /\ Return(r)
  /\ UNCHANGED <<lock, scope, instVars, cloudVars, net, saveVars>>

\* The request is canceled while it waits for the lock (mutex.go: ctx.Done).
GiveUp(r) ==
  /\ pc[r] \in Waits /\ Return(r)
  /\ UNCHANGED <<authVars, instVars, cloudVars, net, saveVars>>

-----------------------------------------------------------------------------
(***************************************************************************)
(* Taking the account's lock                                               *)
(***************************************************************************)
\* The scheduler refreshes an account that is due (executeCheck).
SchedStart ==
  /\ pc[Sched] = "idle" /\ (row.retry = "due" \/ (row.status = "active" /\ row.due))
  /\ Goto(Sched, "refresh")
  /\ UNCHANGED <<authVars, callVars, instVars, cloudVars, net, saveVars>>

\* Refresh
RefreshUnchecked(p) ==
  /\ pc[p] = "refresh" /\ LockFree
  /\ IF Blocked(row) THEN RefreshEnds(p, FALSE) /\ UNCHANGED <<lock, scope>>
     ELSE Acquire(p, "refresh", NoInst) /\ Goto(p, "driver") /\ UNCHANGED callVars
  /\ UNCHANGED <<row, announced, instVars, cloudVars, net, saveVars>>
Refresh(p) ==
  /\ pc[p] = "refresh" /\ LockFree
  /\ IF Blocked(row) \/ RecentlyRefreshed(row)
     THEN RefreshEnds(p, ~Blocked(row)) /\ UNCHANGED <<lock, scope>>
     ELSE Acquire(p, "refresh", NoInst) /\ Goto(p, "driver") /\ UNCHANGED callVars
  /\ UNCHANGED <<row, announced, instVars, cloudVars, net, saveVars>>

\* Manager.Get under initializeDriver.  An account in a cooldown after network
\* trouble is refused with an error that is not about authentication.
Get(r) ==
  /\ pc[r] = "get" /\ LockFree
  /\ IF Blocked(row) THEN (IF row.status = "cooldown" /\ row.kind = "net" THEN Return(r) ELSE AuthError(r))
                          /\ UNCHANGED <<lock, scope>>
     ELSE IF cached # NoInst THEN CallWith(r, cached) /\ UNCHANGED <<lock, scope>>
     ELSE Acquire(r, "init", NoInst) /\ Goto(r, "driver") /\ UNCHANGED callVars
  /\ UNCHANGED <<row, announced, instVars, cloudVars, net, saveVars>>

\* refreshInline: the present call goes on when somebody refreshed just now.
Inline(r) ==
  /\ pc[r] = "inline" /\ LockFree
  /\ IF Blocked(row) THEN AuthError(r) /\ UNCHANGED <<lock, scope>>
     ELSE IF RecentlyRefreshed(row)
     THEN /\ Goto(r, "call") /\ inlined' = [inlined EXCEPT ![r] = TRUE]
          /\ UNCHANGED <<try, held, lock, scope>>
     ELSE Acquire(r, "inline", held[r]) /\ Goto(r, "exchange") /\ UNCHANGED callVars
  /\ UNCHANGED <<row, announced, instVars, cloudVars, net, saveVars>>

-----------------------------------------------------------------------------
(***************************************************************************)
(* Under the account's lock                                                *)
(***************************************************************************)
InUse == {cached} \cup {held[r] : r \in Requests}
         \cup {scope[p].obj : p \in {q \in Procs : pc[q] \in LockSteps}}

\* The error of a Refresh, of drivers.Get or of a driver call ends the tenure.
FailTenure(p, result) ==
  LET j == scope[p].job
  IN  /\ RecordFailure(Reload(p), result) /\ Release(p)
      /\ IF j = "refresh" THEN RefreshEnds(p, FALSE) /\ UNCHANGED <<net, cached>>
         ELSE FnFails(p, result)
              /\ cached' = IF j = "inline" /\ result = "net" THEN NoInst ELSE cached

\* refreshUnlocked has its driver; one that logged in while it was built has done
\* what the refresh is for.
AfterGet(s) == IF s.persisted THEN "settle" ELSE "exchange"

\* refreshUnlocked has an instance: another goroutine may have built it since.
UseCached(p) ==
  /\ pc[p] = "driver" /\ cached # NoInst
  /\ scope' = [scope EXCEPT ![p].obj = cached] /\ Goto(p, AfterGet(scope[p]))
  /\ UNCHANGED <<row, announced, lock, callVars, instVars, cloudVars, net, saveVars>>

\* buildDriver takes the token from the row.  Init logs in, succeeds without,
\* or fails.
Build(p) ==
  /\ pc[p] = "driver" /\ cached = NoInst
  /\ \E i \in Instances \ InUse :
       /\ current' = IF row.newest THEN current \cup {i} ELSE current \ {i}
       /\ \/ /\ scope' = [scope EXCEPT ![p].obj = i, ![p].building = TRUE]
             /\ Goto(p, "exchange")
             /\ UNCHANGED <<row, announced, lock, callVars, cached, net>>
          \/ /\ up /\ cached' = i
             /\ IF scope[p].job = "init" THEN CallWith(p, i) /\ Release(p)
                ELSE /\ scope' = [scope EXCEPT ![p].obj = i]
                     /\ Goto(p, AfterGet(scope[p])) /\ UNCHANGED <<lock, callVars>>
             /\ UNCHANGED <<row, announced, net>>
          \/ ~up /\ FailTenure(p, "net")
  /\ UNCHANGED <<cloudVars, saveVars>>

\* The remote service rotates the token: whoever holds the old one has a dead one.
Rotate(keep) ==
  /\ current' = keep /\ valid' = TRUE
  /\ save' = [save EXCEPT !.st.newest = FALSE] /\ UNCHANGED up

\* RefreshAuth or Init's log-in succeeds; persistAuth writes the token at once,
\* onCredentialsPersisted marks the scope.
Exchanged(p) ==
  LET s == scope[p]
      after == [s EXCEPT !.had = FALSE, !.persisted = TRUE, !.building = FALSE,
                         !.exchanged = s.exchanged + 1, !.result = "ok"]
  IN  /\ pc[p] = "exchange" /\ up /\ s.obj \in current
      /\ Rotate({s.obj}) /\ row' = [row EXCEPT !.newest = TRUE]
      /\ scope' = [scope EXCEPT ![p] = after]
      /\ cached' = IF s.building THEN s.obj ELSE cached
      /\ Goto(p, IF s.building THEN AfterGet(after) ELSE "settle")
      /\ UNCHANGED <<announced, lock, callVars, net, lost>>

\* A dead token is refused for good; a service in trouble answers anything.
Refused(p) ==
  /\ pc[p] = "exchange"
  /\ \E result \in Results \ {"ok"} :
       /\ IF up THEN scope[p].obj \notin current /\ result = "fatal" ELSE TRUE
       /\ scope' = [scope EXCEPT ![p].result = result]
  /\ Goto(p, "settle")
  /\ UNCHANGED <<row, announced, lock, callVars, instVars, cloudVars, net, saveVars>>

\* RefreshAuth has stored the new token and then fails to verify the session.
VerifyFails(p) ==
  /\ pc[p] = "settle" /\ scope[p].job = "refresh" /\ scope[p].result = "ok" /\ ~up
  /\ scope' = [scope EXCEPT ![p].result = "net"]
  /\ UNCHANGED <<row, announced, lock, pc, callVars, instVars, cloudVars, net, saveVars>>

\* finishRefresh, or recordRefreshFailure; then the lock is released.
Settle(p) ==
  LET s == scope[p]
  IN  /\ pc[p] = "settle"
      /\ IF s.result = "ok"
         THEN /\ MarkSuccess(TRUE) /\ Release(p)
              /\ CASE s.job = "refresh" -> RefreshEnds(p, TRUE)
                   [] s.job = "init" -> CallWith(p, s.obj)
                   [] s.job = "inline" -> /\ Goto(p, "call") /\ inlined' = [inlined EXCEPT ![p] = TRUE]
                                          /\ UNCHANGED <<try, held>>
              /\ UNCHANGED <<net, cached>>
         ELSE FailTenure(p, s.result)
      /\ UNCHANGED <<current, cloudVars, saveVars>>

\* The client goes away during the exchange: the failure is not recorded, and
\* neither is the token when the service had already rotated it.
CancelExchange(r) ==
  /\ pc[r] = "exchange" /\ Release(r) /\ Return(r)
  /\ \/ UNCHANGED <<row, current, cloudVars, saveVars>>
     \/ /\ up /\ scope[r].obj \in current /\ Rotate({})
        /\ row' = [row EXCEPT !.newest = FALSE] /\ lost' = TRUE
  /\ UNCHANGED <<announced, cached, net>>

-----------------------------------------------------------------------------
(***************************************************************************)
(* account.Service.Update: reads the state, tests the connection with an   *)
(* instance of its own, writes, and lets the auth service recover.         *)
(***************************************************************************)
\* "new": the user has authorised again, which ends the old grant.
SaveRead(k) ==
  /\ save.step = "off" /\ save.n < MaxSaves
  /\ save' = [step |-> "ping", kind |-> k, n |-> save.n + 1,
              st |-> IF k = "new" THEN row ELSE [FreshRow EXCEPT !.newest = row.newest]]
  /\ IF k = "new" THEN current' = {} /\ valid' = TRUE /\ row' = [row EXCEPT !.newest = FALSE]
                  ELSE UNCHANGED <<row, current, valid>>
  /\ UNCHANGED <<announced, lock, scope, pc, callVars, cached, up, net, lost>>

\* The connection test of a token whose access part has expired exchanges it,
\* and nobody stores the result.
SavePing ==
  /\ save.step = "ping"
  /\ \/ /\ ~up \/ (save.kind = "same" /\ ~save.st.newest)
        /\ save' = [save EXCEPT !.step = "off", !.st = FreshRow]
        /\ lost' = (lost \/ save.kind = "new")
        /\ UNCHANGED <<row, current, cloudVars>>
     \/ /\ up /\ valid /\ save' = [save EXCEPT !.step = "write"]
        /\ UNCHANGED <<row, current, cloudVars, lost>>
     \/ /\ up /\ ~valid /\ save.kind = "same" /\ save.st.newest
        /\ current' = {} /\ valid' = TRUE /\ row' = [row EXCEPT !.newest = FALSE]
        /\ save' = [save EXCEPT !.step = "write"]
        /\ lost' = TRUE /\ UNCHANGED up
  /\ UNCHANGED <<announced, lock, scope, pc, callVars, cached, net>>

\* upsertAuthFromFields writes the whole row from the state read before the test.
SaveWrite ==
  /\ save.step = "write"
  /\ IF save.kind = "new"
     THEN row' = [save.st EXCEPT !.newest = TRUE, !.recent = FALSE, !.due = FALSE]
     ELSE UNCHANGED row
  /\ cached' = NoInst /\ save' = [save EXCEPT !.step = "recover"]
  /\ UNCHANGED <<announced, lock, scope, pc, callVars, current, cloudVars, net, lost>>

\* RecoverAccount
SaveRecover ==
  /\ save.step = "recover" /\ LockFree
  /\ MarkSuccess(FALSE) /\ save' = [save EXCEPT !.step = "off", !.st = FreshRow]
  /\ UNCHANGED <<lock, scope, pc, callVars, instVars, cloudVars, net, lost>>

-----------------------------------------------------------------------------
(***************************************************************************)
(* Time and the remote service                                             *)
(***************************************************************************)
RetryElapses ==
  /\ row.retry = "wait" /\ row' = [row EXCEPT !.retry = "due"]
  /\ UNCHANGED <<announced, lock, scope, pc, callVars, instVars, cloudVars, net, saveVars>>
WindowElapses ==
  /\ row.recent /\ row' = [row EXCEPT !.recent = FALSE]
  /\ UNCHANGED <<announced, lock, scope, pc, callVars, instVars, cloudVars, net, saveVars>>
TokenExpires ==
  /\ ~row.due /\ row' = [row EXCEPT !.due = TRUE, !.recent = FALSE] /\ valid' = FALSE
  /\ UNCHANGED <<announced, lock, scope, pc, callVars, instVars, up, net, saveVars>>
BackoffElapses ==
  /\ net.until = "on" /\ net' = [net EXCEPT !.until = "past"]
  /\ UNCHANGED <<authVars, pc, callVars, instVars, cloudVars, saveVars>>
Revoked ==
  /\ valid /\ valid' = FALSE
  /\ UNCHANGED <<authVars, pc, callVars, instVars, up, net, saveVars>>
Weather ==
  /\ up' = ~up
  /\ UNCHANGED <<authVars, pc, callVars, instVars, valid, net, saveVars>>

RequestStep(r) ==
  \/ Begin(r) \/ GateCheck(r) \/ Call(r) \/ Report(r) \/ Get(r) \/ Inline(r)
LockStep(p) ==
  \/ UseCached(p) \/ Build(p) \/ Exchanged(p) \/ Refused(p) \/ VerifyFails(p) \/ Settle(p)
SaveStep == (\E k \in SaveKinds : SaveRead(k)) \/ SavePing \/ SaveWrite \/ SaveRecover
Time == RetryElapses \/ WindowElapses \/ TokenExpires \/ BackoffElapses

Next ==
  \/ \E r \in Requests : RequestStep(r) \/ GiveUp(r) \/ CancelExchange(r)
  \/ \E p \in Procs : Refresh(p) \/ LockStep(p)
  \/ SchedStart \/ SaveStep \/ Time \/ Revoked \/ Weather

Spec == Init /\ [][Next]_vars

\* A goroutine that can go on does; the channel of the account's lock serves its
\* waiters in order; deadlines pass; the scheduler's timer fires.
FairSpec ==
  /\ Spec
  /\ \A r \in Requests : WF_vars(GateCheck(r)) /\ WF_vars(Call(r))
       /\ SF_vars(Report(r)) /\ SF_vars(Get(r)) /\ SF_vars(Inline(r))
  /\ \A p \in Procs : WF_vars(LockStep(p)) /\ SF_vars(Refresh(p))
  /\ WF_vars(SchedStart) /\ WF_vars(RetryElapses)

-----------------------------------------------------------------------------
(***************************************************************************)
(* Properties                                                              *)
(***************************************************************************)
\* Never two exchanges of the account's token at once, whoever asks for them
\* (control.go:42: several requests must not refresh each for itself).
OneExchange ==
  \A p, q \in Procs : pc[p] = "exchange" /\ pc[q] = "exchange" => p = q

\* A tenure of the lock uses up one token at most, also when building the driver
\* logged in and a refresh was what the lock was taken for.
OneTokenPerTenure ==
  \A p \in Procs : pc[p] \in LockSteps => scope[p].exchanged <= 1

\* The account's single-use tokens are spent one after the other: nobody
\* exchanges beside another, and nobody twice in one tenure of the lock.
ExchangesAreOrderly == OneExchange /\ OneTokenPerTenure

\* The database keeps the newest token whatever fails after it was stored
\* (control.go:153: an old snapshot must not overwrite a new token).
TokenKept == row.newest \/ lost \/ (save.step # "off" /\ save.kind = "new")

\* Background tasks are paused by AccountAuthFailed and resumed by
\* AccountAuthRecovered: the last event agrees with the row, unless it told of a
\* failure that could not be written.
EventsFollow ==
  lock = NoProc /\ save.step # "recover" => ((row.status \in Bad) <=> (announced = "failed"))

\* Requests that failed together share one refresh: from the check to the answer
\* of the service, a token that was obtained within the reuse window and is not
\* due is not exchanged (control.go:70).  Building a driver is exempt: its log-in
\* is the driver's.
FreshTokenIsReused ==
  [][\A p \in Procs : pc[p] = "exchange" /\ pc'[p] = "settle" /\ scope[p].job # "init"
       => ~RecentlyRefreshed(row)]_vars

\* The network back-off bounds the failures it waits out: past the threshold
\* only the calls that had begun before it was reached are counted.
BackoffLimitsFailures == net.count < NetThreshold + Cardinality(Requests)

\* When the service works again, so does the account, without its user: as long
\* as the manager's instance does not hold a dead token, it becomes active again
\* and again.
RecoversWithTheService ==
  (<>[](up /\ row.newest /\ (cached = NoInst \/ cached \in current))) => []<>(row.status = "active")

=============================================================================

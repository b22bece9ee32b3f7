---------------------------- MODULE AuthScheduler ----------------------------
(***************************************************************************)
(* The loop of internal/auth.Scheduler and those who start and stop it:    *)
(* the application (InitActiveRefresh, Stop) and the handlers of           *)
(* PUT /settings, which apply the value they find after they have written  *)
(* theirs.  startupReady is the gate the upload queue, the automation and  *)
(* the other background services wait for.                                 *)
(*                                                                         *)
(* A goroutine of the loop is named by its number, which is also the       *)
(* number of the channels startLoop made for it; sch.stop and sch.done     *)
(* are the channels of the number `made'.  What a round of checks does is  *)
(* the subject of AccountAuth; it may last longer than the 200 ms a stop   *)
(* waits.                                                                  *)
(***************************************************************************)
EXTENDS Naturals

CONSTANTS Handlers,  \* goroutines of PUT /settings
          MaxLoops,  \* bound: goroutines startLoop starts
          MaxSaves   \* bound: requests of all handlers

VARIABLES setting,   \* auth_active_refresh as stored
          made,      \* number of the channels in sch.stop and sch.done
          running,   \* sch.running
          stopped,   \* the stop channels that are closed
          done,      \* the done channels that are closed
          ready,     \* startupReady is closed
          loop,      \* step of every goroutine of the loop
          caller,    \* step of the handlers and of the application
          shutdown,  \* the application's context is canceled
          stuck,     \* a handler panicked with sch.mu held
          crashed,   \* a goroutine outside net/http panicked
          saves,     \* number of requests so far
          round      \* history: "owed", "done" or "waived" first round

vars == <<setting, made, running, stopped, done, ready, loop, caller,
          shutdown, stuck, crashed, saves, round>>
loopVars == <<made, running, stopped, done, ready, loop, round>>

Loops == 1..MaxLoops
App == "app"
Callers == Handlers \cup {App}
Alive == {"delay", "first", "main", "check"}
Acts == [step : {"boot", "idle", "read", "end"}] \cup [step : {"act"}, on : BOOLEAN]
        \cup [step : {"wait"}, n : Loops]
Idle == [step |-> "idle"]

TypeOK ==
  /\ setting \in BOOLEAN /\ running \in BOOLEAN /\ ready \in BOOLEAN
  /\ made \in 0..MaxLoops /\ stopped \subseteq Loops /\ done \subseteq Loops
  /\ loop \in [Loops -> {"none", "ending", "closing", "gone"} \cup Alive]
  /\ caller \in [Callers -> Acts]
  /\ shutdown \in BOOLEAN /\ stuck \in BOOLEAN /\ crashed \in BOOLEAN
  /\ saves \in 0..MaxSaves /\ round \in {"owed", "done", "waived"}

Init ==
  /\ setting \in BOOLEAN
  /\ made = 0 /\ running = FALSE /\ stopped = {} /\ done = {} /\ ready = FALSE
  /\ loop = [n \in Loops |-> "none"]
  /\ caller = [c \in Callers |-> IF c = App THEN [step |-> "boot"] ELSE Idle]
  /\ shutdown = FALSE /\ stuck = FALSE /\ crashed = FALSE /\ saves = 0 /\ round = "owed"

-----------------------------------------------------------------------------
MuFree == ~stuck /\ ~crashed
Move(c, s) == caller' = [caller EXCEPT ![c] = s]
Booted == caller[App].step # "boot"

\* startLoop: nothing when a loop is running, even one that was told to stop.
AlwaysStarts == TRUE
CanStart == ~running
StartLoop(jitter) ==
  IF CanStart /\ made < MaxLoops
  THEN /\ made' = made + 1 /\ running' = TRUE
       /\ loop' = [loop EXCEPT ![made + 1] = IF jitter THEN "delay" ELSE "main"]
       /\ UNCHANGED <<stopped, done, ready, round>>
  ELSE UNCHANGED loopVars

\* InitActiveRefresh
Boot ==
  /\ caller[App].step = "boot" /\ Move(App, Idle)
  /\ IF setting THEN StartLoop(TRUE)
     ELSE ready' = TRUE /\ round' = "waived" /\ UNCHANGED <<made, running, stopped, done, loop>>
  /\ UNCHANGED <<setting, shutdown, stuck, crashed, saves>>

\* PUT /settings: the value is stored, and read again later.
Store(h, on) ==
  /\ caller[h] = Idle /\ Booted /\ saves < MaxSaves
  /\ setting' = on /\ saves' = saves + 1 /\ Move(h, [step |-> "read"])
  /\ UNCHANGED <<loopVars, shutdown, stuck, crashed>>
ReadBack(h) ==
  /\ caller[h].step = "read" /\ Move(h, [step |-> "act", on |-> setting])
  /\ UNCHANGED <<setting, loopVars, shutdown, stuck, crashed, saves>>

\* SetActiveRefreshEnabled(true, _)
Enable(h) ==
  /\ caller[h].step = "act" /\ caller[h].on /\ MuFree
  /\ StartLoop(FALSE) /\ Move(h, Idle)
  /\ UNCHANGED <<setting, shutdown, stuck, crashed, saves>>

\* The process is asked to end (context) or to restart after a restore (not).
Signal(canceled) ==
  /\ caller[App] = Idle /\ Move(App, [step |-> "act", on |-> FALSE])
  /\ shutdown' = canceled
  /\ UNCHANGED <<setting, loopVars, stuck, crashed, saves>>

\* stopLoop: closing a channel that is closed panics with sch.mu held; net/http
\* recovers the panic of a handler.
StopLoop(c) ==
  LET next == IF c = App THEN [step |-> "end"] ELSE Idle
  IN  /\ caller[c].step = "act" /\ ~caller[c].on /\ MuFree
      /\ IF ~running THEN Move(c, next) /\ UNCHANGED <<stopped, stuck, crashed>>
         ELSE IF made \in stopped
         THEN /\ stuck' = (c # App) /\ crashed' = (c = App)
              /\ Move(c, next) /\ UNCHANGED stopped
         ELSE /\ stopped' = stopped \cup {made} /\ Move(c, [step |-> "wait", n |-> made])
              /\ UNCHANGED <<stuck, crashed>>
      /\ UNCHANGED <<setting, made, running, done, ready, loop, shutdown, saves, round>>

\* ... and waits for the end of the loop, 200 ms at most.
StopReturns(c) ==
  /\ caller[c].step = "wait"
  /\ Move(c, IF c = App THEN [step |-> "end"] ELSE Idle)
  /\ UNCHANGED <<setting, loopVars, shutdown, stuck, crashed, saves>>

-----------------------------------------------------------------------------
(***************************************************************************)
(* The loop                                                                *)
(***************************************************************************)
Told(n) == n \in stopped \/ shutdown
Step(n, from, to) == loop[n] = from /\ loop' = [loop EXCEPT ![n] = to]

\* The start-up delay, the first round over all accounts, then the gate.
OpensGate(r) == ready' = TRUE /\ round' = IF round = "owed" THEN r ELSE round
FirstRound(n) ==
  \/ Step(n, "delay", "first") /\ UNCHANGED <<ready, round>>
  \/ Step(n, "delay", "ending") /\ Told(n) /\ OpensGate("waived")
  \/ Step(n, "first", "main") /\ OpensGate(IF Told(n) THEN "waived" ELSE "done")

\* mainLoop
MainLoop(n) ==
  \/ Step(n, "main", "check") \/ Step(n, "check", "main")
  \/ Told(n) /\ Step(n, "main", "ending")

\* The deferred function: running is cleared under sch.mu, sch.done is closed
\* after it.
Ends(n) ==
  /\ MuFree /\ Step(n, "ending", "closing") /\ running' = FALSE
Closes(n) ==
  /\ Step(n, "closing", "gone")
  /\ done' = done \cup {made} /\ crashed' = (made \in done)

LoopStep(n) ==
  /\ ~crashed
  /\ \/ FirstRound(n) /\ UNCHANGED <<running, done, crashed>>
     \/ MainLoop(n) /\ UNCHANGED <<running, done, crashed, ready, round>>
     \/ Ends(n) /\ UNCHANGED <<done, crashed, ready, round>>
     \/ Closes(n) /\ UNCHANGED <<running, ready, round>>
  /\ UNCHANGED <<setting, made, stopped, caller, shutdown, stuck, saves>>

Next ==
  \/ Boot
  \/ ~crashed /\ \E h \in Handlers : (\E on \in BOOLEAN : Store(h, on)) \/ ReadBack(h) \/ Enable(h)
  \/ ~crashed /\ \E canceled \in BOOLEAN : Signal(canceled)
  \/ ~crashed /\ \E c \in Callers : StopLoop(c) \/ StopReturns(c)
  \/ \E n \in Loops : LoopStep(n)

Spec == Init /\ [][Next]_vars

\* Goroutines run, the start-up delay and the rounds end; the timer of the main
\* loop need not fire, and a select that finds the timer and the stop again and
\* again takes the stop some time.
LoopGoesOn(n) == LoopStep(n) /\ loop'[n] # "check"
ObeysStop(n) == LoopStep(n) /\ loop[n] = "main" /\ loop'[n] = "ending"
FairSpec ==
  /\ Spec /\ WF_vars(Boot)
  /\ \A n \in Loops : WF_vars(LoopGoesOn(n)) /\ SF_vars(ObeysStop(n))
  /\ \A c \in Callers : WF_vars(StopReturns(c))

-----------------------------------------------------------------------------
\* Two rounds never run side by side: one goroutine of the loop at a time.
OneLoop == \A m, n \in Loops : loop[m] \in Alive /\ loop[n] \in Alive => m = n

\* The gate opens after the first round, unless the refresh is switched off or
\* the process ends before (scheduler.go:137).
GateAfterFirstRound == ready => round # "owed"

\* The services behind the gate are let in at last, whatever the settings do
\* (a goroutine that panics ends the process).
GateOpens == []<>(Booted => ready \/ crashed)

\* A loop that was told to stop ends, unless a second stop has panicked.
StopIsObeyed ==
  []<>(stuck \/ crashed \/ \A n \in Loops : n \in stopped => loop[n] = "gone")

\* While the refresh is switched on and nothing is under way there is a loop
\* (scheduler.go:75: switched on again, it is started again).
EnabledHasLoop ==
  (/\ setting /\ Booted /\ ~stuck /\ ~crashed /\ made < MaxLoops
   /\ \A c \in Callers : caller[c] = Idle /\ \A n \in Loops : loop[n] \notin {"ending", "closing"})
  => \E n \in Loops : loop[n] \in Alive

=============================================================================

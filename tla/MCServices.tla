----------------------------- MODULE MCServices -----------------------------
(***************************************************************************)
(* The event bus together with one instance each of four components that   *)
(* share no state with it: a behaviour is about one of the five, the focus, *)
(* and the others stay where they start.                                   *)
(*                                                                         *)
(* The constants of a component bear its name (those of the bus are the    *)
(* ones of EventBus), so that the .cfg chooses a small instance and        *)
(* ServicesProofs speaks of all of them.                                   *)
(***************************************************************************)
EXTENDS EventBus, FiniteSets, TLC

CONSTANTS
  one, two, three, four, file1,               \* ids of goroutines, pages and files
  RestoreChanges, RestorePrepares, RestoreFaults, RestoreBreakable,
  CacheReaders, CacheWriters, CacheBus, CacheNames, NoList, CacheChanges,
  SchedHandlers, SchedLoops, SchedSaves,
  PageTasks, PageClients, LastPageLeaves, PageMutators, PageCapacity, PageVersions

ASSUME ServicesAssumption ==
  /\ RestoreChanges \in Nat /\ RestorePrepares \in Nat /\ RestoreFaults \in Nat
  /\ CacheBus \notin CacheWriters /\ CacheChanges \in Nat
  /\ SchedLoops \in Nat /\ SchedSaves \in Nat
  /\ "timer" \notin PageMutators /\ PageCapacity \in Nat \ {0} /\ PageVersions \in Nat \ {0}

VARIABLE focus   \* the component that this behaviour is about

VARIABLES backupMain, backupStage, backupPlan, backupResult, backupCopy, backupProc,
          backupStep, backupFaults, backupPrepares, backupChanges, backupBefore,
          backupAsked
Backup == INSTANCE PendingRestore WITH
  MaxChanges <- RestoreChanges, MaxPrepares <- RestorePrepares, MaxFaults <- RestoreFaults,
  Breakable <- RestoreBreakable, main <- backupMain, stage <- backupStage,
  plan <- backupPlan, result <- backupResult, copy <- backupCopy, proc <- backupProc,
  step <- backupStep, faults <- backupFaults, prepares <- backupPrepares,
  changes <- backupChanges, before <- backupBefore, asked <- backupAsked
backupVars == <<backupMain, backupStage, backupPlan, backupResult, backupCopy,
                backupProc, backupStep, backupFaults, backupPrepares, backupChanges,
                backupBefore, backupAsked>>

VARIABLES cacheRemote, cacheCached, cacheCooling, cacheReader, cacheCall, cacheWriter,
          cacheQueue, cacheDisk, cacheWrites, cacheLate
Cache == INSTANCE FileCache WITH
  Readers <- CacheReaders, Writers <- CacheWriters, Bus <- CacheBus, Names <- CacheNames,
  MaxWrites <- CacheChanges, remote <- cacheRemote, cached <- cacheCached,
  cooling <- cacheCooling, reader <- cacheReader, call <- cacheCall,
  writer <- cacheWriter, queue <- cacheQueue, disk <- cacheDisk, writes <- cacheWrites,
  late <- cacheLate
cacheVars == <<cacheRemote, cacheCached, cacheCooling, cacheReader, cacheCall,
               cacheWriter, cacheQueue, cacheDisk, cacheWrites, cacheLate>>

VARIABLES schedSetting, schedMade, schedRunning, schedStopped, schedDone, schedReady,
          schedLoop, schedCaller, schedShutdown, schedStuck, schedCrashed, schedSaves,
          schedRound
Sched == INSTANCE AuthScheduler WITH
  Handlers <- SchedHandlers, MaxLoops <- SchedLoops, MaxSaves <- SchedSaves, setting <- schedSetting,
  made <- schedMade, running <- schedRunning, stopped <- schedStopped,
  done <- schedDone, ready <- schedReady, loop <- schedLoop, caller <- schedCaller,
  shutdown <- schedShutdown, stuck <- schedStuck, crashed <- schedCrashed,
  saves <- schedSaves, round <- schedRound
schedVars == <<schedSetting, schedMade, schedRunning, schedStopped, schedDone,
               schedReady, schedLoop, schedCaller, schedShutdown, schedStuck,
               schedCrashed, schedSaves, schedRound>>

VARIABLES pagesTruth, pagesSubs, pagesQueue, pagesClient, pagesView, pagesDirty,
          pagesDeleted, pagesPending, pagesWindow, pagesPc
Pages == INSTANCE UploadBroadcast WITH
  Tasks <- PageTasks, Clients <- PageClients, LastLeaves <- LastPageLeaves,
  Mutators <- PageMutators, Capacity <- PageCapacity, MaxVersion <- PageVersions, truth <- pagesTruth, subs <- pagesSubs,
  queue <- pagesQueue, client <- pagesClient, view <- pagesView, dirty <- pagesDirty,
  deleted <- pagesDeleted, pending <- pagesPending, window <- pagesWindow,
  pc <- pagesPc
pagesVars == <<pagesTruth, pagesSubs, pagesQueue, pagesClient, pagesView, pagesDirty,
               pagesDeleted, pagesPending, pagesWindow, pagesPc>>

sumVars == <<focus, vars, backupVars, cacheVars, schedVars, pagesVars>>

SumInit ==
  /\ focus \in {"bus", "backup", "cache", "sched", "pages"}
  /\ Init /\ Backup!Init /\ Cache!Init /\ Sched!Init /\ Pages!Init
  \* of the starts of a component that nobody looks at one will do
  /\ (focus # "cache" => cacheRemote = {}) /\ (focus # "sched" => schedSetting)

\* The focus moves and the others do not.
SumNext ==
  /\ UNCHANGED focus
  /\ \/ /\ focus = "bus" /\ Next
        /\ UNCHANGED <<backupVars, cacheVars, schedVars, pagesVars>>
     \/ /\ focus = "backup" /\ Backup!Next
        /\ UNCHANGED <<vars, cacheVars, schedVars, pagesVars>>
     \/ /\ focus = "cache" /\ Cache!Next
        /\ UNCHANGED <<vars, backupVars, schedVars, pagesVars>>
     \/ /\ focus = "sched" /\ Sched!Next
        /\ UNCHANGED <<vars, backupVars, cacheVars, pagesVars>>
     \/ /\ focus = "pages" /\ Pages!Next
        /\ UNCHANGED <<vars, backupVars, cacheVars, schedVars>>

\* The fairness of each component, as its module gives and explains it.
BusFairness ==
  /\ WF_vars(focus = "bus" /\ Take) /\ WF_vars(focus = "bus" /\ CallHandler)
  /\ WF_vars(focus = "bus" /\ Drain) /\ WF_vars(focus = "bus" /\ Exit)
  /\ \A p \in Publishers : /\ WF_vars(focus = "bus" /\ Enqueue(p))
                           /\ WF_vars(focus = "bus" /\ Discard(p))
BackupFairness ==
  WF_backupVars(focus = "backup" /\ Backup!Start) /\ WF_backupVars(focus = "backup" /\ Backup!Boot)
CacheFairness == \A r \in CacheReaders : WF_cacheVars(focus = "cache" /\ Cache!Read(r))
SchedFairness ==
  /\ WF_schedVars(focus = "sched" /\ Sched!Boot)
  /\ \A n \in 1..SchedLoops :
                     /\ WF_schedVars(focus = "sched" /\ Sched!LoopGoesOn(n))
                     /\ SF_schedVars(focus = "sched" /\ Sched!ObeysStop(n))
  /\ \A h \in SchedHandlers \cup {"app"} : WF_schedVars(focus = "sched" /\ Sched!StopReturns(h))
PagesFairness ==
  /\ \A p \in PageMutators :
       WF_pagesVars(focus = "pages" /\ (Pages!Broadcast(p) \/ Pages!BroadcastDeleted(p)))
  /\ \A p \in PageMutators \cup {"timer"} : WF_pagesVars(focus = "pages" /\ Pages!Flush(p))
  /\ WF_pagesVars(focus = "pages" /\ Pages!FinishWindow)
  /\ \A p \in PageClients :
       WF_pagesVars(focus = "pages" /\ (Pages!WriteSnapshot(p) \/ Pages!Receive(p)))
SumFairness == BusFairness /\ BackupFairness /\ CacheFairness /\ SchedFairness /\ PagesFairness

SumSpec == SumInit /\ [][SumNext]_sumVars /\ SumFairness

-----------------------------------------------------------------------------
\* PendingRestore: the application never starts on half a restore, and what a
\* plan that waits refers to stays complete (pending.go:80, service.go:558).
RestoreIsWhole == Backup!TypeOK /\ Backup!StartsWhole /\ Backup!StageKept

\* PendingRestore: a prepared restore ends with a result, a restore that was
\* rolled back has changed no file, and whatever fails or crashes on the way the
\* application starts again (pending.go:187).
RestoreEnds ==
  Backup!RolledBackIsUntouched /\ Backup!PreparedEndsWithResult /\ Backup!StartsAgain

\* FileCache: once no change is under way the cached list is the remote one, and
\* readers that miss at once share one call of the driver (service.go:163,
\* group.go:33).
ListsAreFresh == Cache!TypeOK /\ Cache!QuietIsFresh /\ Cache!OneLoad

\* FileCache: everyone who reads is answered, whoever loads and however it ends
\* (group.go:33).
ReadersAnswered == Cache!ReadersAnswered

\* AuthScheduler: two rounds never run side by side, the gate opens after the
\* first round unless that is waived, it does open however the round and the
\* settings go, and a loop that was told to stop ends (scheduler.go:126, 152).
LoopIsOrderly ==
  /\ [](Sched!TypeOK /\ Sched!OneLoop /\ Sched!GateAfterFirstRound)
  /\ Sched!GateOpens /\ Sched!StopIsObeyed

\* UploadBroadcast: one flush or one armed window at a time, no page's channel
\* beyond its capacity, and when all is delivered every page shows the tasks as
\* they are (sse.go:51, 98, 118).
PagesAgree == Pages!TypeOK /\ Pages!OneFlusher /\ Pages!Converged

\* UploadBroadcast: a page that stays connected gets to see every task as it is
\* (sse.go:170).
PagesCatchUp == Pages!PagesCatchUp

=============================================================================

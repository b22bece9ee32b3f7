------------------------------ MODULE FileCache ------------------------------
(***************************************************************************)
(* The list of one remote directory in internal/cache: readers come with   *)
(* file.Service.List and share a load (pkg/singleflight); writers change   *)
(* the directory through the driver, apply the change to the cache         *)
(* (ApplyMutation) and publish it, and the bus applies it once more        *)
(* (Cleaner).  The three seconds of dirMutationCooling, the TTL and the    *)
(* snapshots on disk may end or happen at any time.                        *)
(*                                                                         *)
(* A list is the set of its names, and NoList when the key is absent.      *)
(***************************************************************************)
EXTENDS Naturals, Sequences, FiniteSets

CONSTANTS Readers, Writers,
          Bus,        \* the dispatcher, which applies the events in order
          Names,      \* files the directory may hold
          NoList,
          MaxWrites   \* bound: changes of the directory

VARIABLES remote,   \* the directory
          cached,   \* its list in the cache
          cooling,  \* the directory is in mutationFence.until
          reader,   \* step of every reader
          call,     \* the entry of the key in singleflight.Group.m
          writer,   \* step and change of every writer and of the bus
          queue,    \* the events of the bus
          disk,     \* the list in the snapshot file
          writes,
          late      \* history: the cached list was not the directory's when it was stored

cacheVars == <<cached, cooling>>
vars == <<remote, cacheVars, reader, call, writer, queue, disk, writes, late>>

Lists == (SUBSET Names) \cup {NoList}
Changes == [op : {"create", "delete"}, name : Names]
Appliers == Writers \cup {Bus}
Loading == {"again", "fetch", "set", "close", "drop"}
NoCall == [at |-> "none"]
Done == [at |-> "idle"]

TypeOK ==
  /\ remote \subseteq Names /\ cached \in Lists /\ disk \in Lists /\ cooling \in BOOLEAN
  /\ reader \in [Readers -> {"idle", "check", "lookup", "join", "wait"} \cup Loading]
  /\ call = NoCall \/ call \in [at : {"run", "done"}, list : Lists]
  /\ writer \in [Appliers -> [at : {"idle"}] \cup [at : {"apply", "upsert", "store", "thaw", "fence", "publish"},
                                                 change : Changes, base : Lists]]
  /\ queue \in Seq(Changes) /\ writes \in 0..MaxWrites
  /\ late \in BOOLEAN

Init ==
  /\ remote \in SUBSET Names /\ cached = NoList /\ cooling = FALSE
  /\ reader = [r \in Readers |-> "idle"] /\ call = NoCall
  /\ writer = [a \in Appliers |-> Done] /\ queue = <<>>
  /\ disk = NoList /\ writes = 0
  /\ late = FALSE

-----------------------------------------------------------------------------
(***************************************************************************)
(* Readers                                                                 *)
(***************************************************************************)
Goto(r, s) == reader' = [reader EXCEPT ![r] = s]
writerVars == <<remote, writer, queue, writes>>

\* List; a forced refresh drops the cached list first.
Begin(r, forced) ==
  /\ reader[r] = "idle" /\ Goto(r, "check")
  /\ cached' = IF forced THEN NoList ELSE cached
  /\ late' = (late /\ ~forced)
  /\ UNCHANGED <<writerVars, cooling, call, disk>>
\* During the cooling the driver is asked, and its list is not kept.
Check(r) ==
  /\ reader[r] = "check" /\ Goto(r, IF cooling THEN "idle" ELSE "lookup")
  /\ UNCHANGED <<writerVars, cacheVars, call, disk, late>>
Lookup(r) ==
  /\ reader[r] = "lookup" /\ Goto(r, IF cached # NoList THEN "idle" ELSE "join")
  /\ UNCHANGED <<writerVars, cacheVars, call, disk, late>>

\* DoCtx: the first caller runs the load, the others wait for it; one that finds
\* a call that is done takes its answer.
MayLoad == call = NoCall
Join(r) ==
  /\ reader[r] = "join"
  /\ IF MayLoad THEN Goto(r, "again") /\ call' = [at |-> "run", list |-> NoList]
     ELSE Goto(r, IF call.at = "done" THEN "idle" ELSE "wait") /\ UNCHANGED call
  /\ UNCHANGED <<writerVars, cacheVars, disk, late>>
LookAgain(r) ==
  /\ reader[r] = "again"
  /\ call' = [call EXCEPT !.list = cached]
  /\ Goto(r, IF cached # NoList THEN "close" ELSE "fetch")
  /\ UNCHANGED <<writerVars, cacheVars, disk, late>>

\* The loader looks at the fence once more, but returns the driver's list either
\* way, and GetOrLoad stores what it is given.
Fetch(r) ==
  /\ reader[r] = "fetch"
  /\ \/ call' = [call EXCEPT !.list = remote] /\ Goto(r, "set")
     \/ Goto(r, "close") /\ UNCHANGED call
  /\ UNCHANGED <<writerVars, cacheVars, disk, late>>
Set(r) ==
  /\ reader[r] = "set" /\ Goto(r, "close")
  /\ cached' = call.list /\ late' = (call.list # remote)
  /\ UNCHANGED <<writerVars, cooling, call, disk>>

\* close(c.done) answers those who wait, also with an error; then the call goes.
NobodyAnswered == reader
Answered == [r \in Readers |-> IF reader[r] = "wait" THEN "idle" ELSE reader[r]]
Close(r) ==
  /\ reader[r] = "close" /\ call' = [call EXCEPT !.at = "done"]
  /\ reader' = [Answered EXCEPT ![r] = "drop"]
  /\ UNCHANGED <<writerVars, cacheVars, disk, late>>
Drop(r) ==
  /\ reader[r] = "drop" /\ call' = NoCall /\ Goto(r, "idle")
  /\ UNCHANGED <<writerVars, cacheVars, disk, late>>

-----------------------------------------------------------------------------
(***************************************************************************)
(* Writers and the bus                                                     *)
(***************************************************************************)
readerVars == <<reader, call, disk>>
Step(a, s) == writer' = [writer EXCEPT ![a] = s]
Quiet == queue = <<>> /\ \A a \in Appliers : writer[a] = Done
Applying(a, at) == writer[a].at = at

\* The driver has made the change.  (DeleteFiles and the like drop the list once
\* before publishMutation drops it: one step here.)
Write(w, c) ==
  /\ writer[w] = Done /\ writes < MaxWrites /\ writes' = writes + 1
  /\ (c.op = "create") <=> (c.name \notin remote)
  /\ remote' = IF c.op = "create" THEN remote \cup {c.name} ELSE remote \ {c.name}
  /\ Step(w, [at |-> "apply", change |-> c, base |-> NoList])
  /\ UNCHANGED <<readerVars, cacheVars, queue, late>>

\* The bus hands the next event to Cleaner.
Deliver ==
  /\ writer[Bus] = Done /\ queue # <<>> /\ queue' = Tail(queue)
  /\ Step(Bus, [at |-> "apply", change |-> Head(queue), base |-> NoList])
  /\ UNCHANGED <<readerVars, remote, cacheVars, writes, late>>

\* ApplyMutation: a create reads the cached list to add to it, anything else
\* drops the list; then comes the fence.
FenceOnly(a) ==
  /\ Applying(a, "apply") /\ Step(a, [writer[a] EXCEPT !.at = "fence"])
  /\ UNCHANGED <<readerVars, remote, cacheVars, queue, writes, late>>
Apply(a) ==
  LET c == writer[a].change
  IN  /\ Applying(a, "apply")
      /\ IF c.op = "create" /\ cached # NoList
         THEN /\ Step(a, [writer[a] EXCEPT !.at = "upsert", !.base = cached])
              /\ UNCHANGED <<cached, late>>
         ELSE /\ Step(a, [writer[a] EXCEPT !.at = "fence"]) /\ cached' = NoList /\ late' = FALSE
      /\ UNCHANGED <<readerVars, remote, cooling, queue, writes>>

\* tryUpsertDirOnCreate: unless the key is gone, the list with the new file is
\* stored, whatever happened to the key meanwhile.
Upsert(a) ==
  /\ Applying(a, "upsert")
  /\ Step(a, IF cached # NoList THEN [writer[a] EXCEPT !.at = "store"]
             ELSE [writer[a] EXCEPT !.at = "fence", !.base = NoList])
  /\ UNCHANGED <<readerVars, remote, cacheVars, queue, writes, late>>
StoreList(a) ==
  /\ Applying(a, "store")
  /\ cached' = writer[a].base \cup {writer[a].change.name} /\ late' = (cached' # remote)
  /\ Step(a, [writer[a] EXCEPT !.at = "thaw", !.base = NoList])
  /\ UNCHANGED <<readerVars, remote, cooling, queue, writes>>
\* ClearDirCooling
Thaw(a) ==
  /\ Applying(a, "thaw") /\ cooling' = FALSE
  /\ Step(a, [writer[a] EXCEPT !.at = "publish"])
  /\ UNCHANGED <<readerVars, remote, cached, queue, writes, late>>
Fence(a) ==
  /\ Applying(a, "fence") /\ cooling' = TRUE
  /\ Step(a, [writer[a] EXCEPT !.at = "publish"])
  /\ UNCHANGED <<readerVars, remote, cached, queue, writes, late>>
Finish(a) ==
  /\ Applying(a, "publish") /\ Step(a, Done)
  /\ queue' = IF a = Bus THEN queue ELSE Append(queue, writer[a].change)
  /\ UNCHANGED <<readerVars, remote, cacheVars, writes, late>>

-----------------------------------------------------------------------------
(***************************************************************************)
(* Time and restarts                                                       *)
(***************************************************************************)
Cooled ==
  /\ cooling /\ cooling' = FALSE
  /\ UNCHANGED <<readerVars, writerVars, cached, late>>
Expire ==
  /\ cached # NoList /\ cached' = NoList /\ late' = FALSE
  /\ UNCHANGED <<readerVars, writerVars, cooling>>
SaveSnapshot ==
  /\ disk' = cached
  /\ UNCHANGED <<reader, call, writerVars, cacheVars, late>>

\* The process ends anywhere, and starts with the snapshot.
Restart ==
  /\ reader' = [r \in Readers |-> "idle"] /\ call' = NoCall
  /\ writer' = [a \in Appliers |-> Done] /\ queue' = <<>>
  /\ cached' = disk /\ cooling' = FALSE /\ late' = (disk # NoList /\ disk # remote)
  /\ UNCHANGED <<remote, disk, writes>>

Load(r) == LookAgain(r) \/ Fetch(r) \/ Set(r) \/ Close(r) \/ Drop(r)
Read(r) == Check(r) \/ Lookup(r) \/ Join(r) \/ Load(r)
Applies(a) == Apply(a) \/ Upsert(a) \/ StoreList(a) \/ Thaw(a) \/ Fence(a) \/ Finish(a)
Next ==
  \/ \E r \in Readers : (\E forced \in BOOLEAN : Begin(r, forced)) \/ Read(r)
  \/ \E w \in Writers, c \in Changes : Write(w, c)
  \/ Deliver \/ \E a \in Appliers : Applies(a)
  \/ Cooled \/ Expire \/ SaveSnapshot \/ Restart

Spec == Init /\ [][Next]_vars

\* Readers go on, the driver answers.
Fairness == \A r \in Readers : WF_vars(Read(r))
FairSpec == Spec /\ Fairness

-----------------------------------------------------------------------------
\* When no change is under way or waits in the bus, a list that was right when
\* it was stored still is: every change reaches the list it makes stale, whoever
\* stored it and whenever, or removes it.
QuietIsFresh == Quiet /\ cached # NoList /\ ~late => cached = remote

\* Readers that miss at once share one call of the driver.
OneLoad == \A r, s \in Readers : reader[r] \in Loading /\ reader[s] \in Loading => r = s

\* Everyone who reads is answered, the one who loads and those who wait for it,
\* also when the load fails.
ReadersAnswered == \A r \in Readers : []<>(reader[r] = "idle")

\* During the cooling no list is written back (fence.go:73).
NoWriteBackWhileCooling ==
  [][\A r \in Readers : cooling /\ reader[r] = "set" /\ reader'[r] = "close" => cached' = cached]_vars

=============================================================================

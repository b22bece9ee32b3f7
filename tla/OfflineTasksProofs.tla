------------------------- MODULE OfflineTasksProofs -------------------------
(***************************************************************************)
(* Proofs about OfflineTasks, for any tasks, requests and settings: the    *)
(* counters of the slots, the life of the BitTorrent client, what becomes  *)
(* of a download that was accepted, and what a clean-up leaves alone.      *)
(***************************************************************************)
EXTENDS OfflineTasks, FiniteSetTheorems, TLAPS

\* OfflineAssumption, as the lemmas use it: finitely many tasks at any time.
Finite == IsFiniteSet(Tasks) /\ Magnets \subseteq Tasks /\ MaxLimit \in Nat

PCs == Waiting \cup Granted \cup {"off", "close", "clear"}

Typed ==
  /\ proc \in {"off", "boot", "up", "stopping"}
  /\ rec \in [Tasks -> States] /\ row \in [Tasks -> States]
  /\ born \in [Tasks -> {"no", "live", "deleted"}]
  /\ dir \subseteq Tasks /\ cancelled \subseteq Tasks
  /\ upload \in [Tasks -> {"none", "active", "done"}]
  /\ run \in [Tasks -> PCs]
  /\ slots \in [limit : 1..MaxLimit, running : Nat, magnets : Nat]
  /\ magnet \in [pending : BOOLEAN, restarting : BOOLEAN, open : BOOLEAN]
  /\ saver \in [Savers -> {"idle", "close"}]

Holders(S) == {t \in S : run[t] \in Granted}
Counted == /\ slots.running = Cardinality(Holders(Tasks))
           /\ slots.magnets = Cardinality(Holders(Magnets))

\* The client is closed by the one who has decided to restart it, and until then
\* no task that uses it gets a slot.
Restart ==
  /\ \A t \in Tasks : run[t] = "close" => magnet.restarting
  /\ \A c \in Savers : saver[c] = "close" => magnet.restarting
  /\ \A t, u \in Tasks : run[t] = "close" /\ run[u] = "close" => t = u
  /\ \A c, d \in Savers : saver[c] = "close" /\ saver[d] = "close" => c = d
  /\ \A t \in Tasks, c \in Savers : ~(run[t] = "close" /\ saver[c] = "close")
  /\ magnet.restarting => \A t \in Magnets : run[t] \notin Granted

\* The record of a download is removed only after an upload has taken it over.
Handed == \A t \in Tasks : run[t] = "handed" => upload[t] # "none"

\* Before a task is created it has no runner, and no record.
Fresh == \A t \in Tasks : born[t] = "no" => run[t] = "off" /\ rec[t] = "none" /\ row[t] = "none"

OffInv == Typed /\ Counted /\ Restart /\ ClientStaysOpen /\ Handed /\ AcceptedIsKept /\ Fresh

-----------------------------------------------------------------------------
(***************************************************************************)
(* How the runners move                                                    *)
(***************************************************************************)
\* One goes on; of the others those that were parked may have been woken.
Moves(t, to) ==
  /\ run' \in [Tasks -> PCs] /\ run'[t] = to
  /\ \A u \in Tasks \ {t} : run'[u] = run[u] \/ (run[u] = "parked" /\ run'[u] = "acquire")
Wakes ==
  /\ run' \in [Tasks -> PCs]
  /\ \A u \in Tasks : run'[u] = run[u] \/ (run[u] = "parked" /\ run'[u] = "acquire")

LEMMA GoesMoves ==
  ASSUME Typed, NEW t \in Tasks, NEW to \in PCs,
         Goes(t, to) \/ (WakesAnd(t, to) /\ to # "parked")
  PROVE  Moves(t, to)
<1>1. CASE Goes(t, to)
  BY <1>1 DEF Goes, Moves, Typed
<1>2. CASE WakesAnd(t, to) /\ to # "parked"
  <2>1. \A u \in Tasks : run'[u] = IF [run EXCEPT ![t] = to][u] = "parked" THEN "acquire"
                                   ELSE [run EXCEPT ![t] = to][u]
    BY <1>2 DEF WakesAnd, Woken
  <2>2. \A u \in Tasks : [run EXCEPT ![t] = to][u] = IF u = t THEN to ELSE run[u]
    BY DEF Typed
  <2>3. \A u \in Tasks : run'[u] \in PCs
    BY <2>1, <2>2 DEF Typed, PCs, Waiting
  <2>4. run' = [u \in Tasks |-> run'[u]]
    BY <1>2 DEF WakesAnd, Woken
  <2>5. run' \in [Tasks -> PCs]
    BY <2>3, <2>4
  <2> QED
    BY <1>2, <2>1, <2>2, <2>5 DEF Moves
<1> QED
  BY <1>1, <1>2

LEMMA WokenWakes == ASSUME Typed, run' = Woken(run) PROVE Wakes
<1>1. \A u \in Tasks : run'[u] = IF run[u] = "parked" THEN "acquire" ELSE run[u]
  BY DEF Woken
<1>2. run' \in [Tasks -> PCs]
  BY DEF Woken, Typed, PCs, Waiting
<1> QED
  BY <1>1, <1>2 DEF Wakes

LEMMA WaitingIsNotGranted == "parked" \notin Granted /\ "acquire" \notin Granted
BY DEF Granted

\* The holders of slots stay the same, gain one or lose one.
LEMMA HoldersKept ==
  ASSUME NEW S \in SUBSET Tasks,
         Wakes \/ \E t \in Tasks, to \in PCs : Moves(t, to) /\ (to \in Granted <=> run[t] \in Granted)
  PROVE  Holders(S)' = Holders(S)
BY WaitingIsNotGranted DEF Wakes, Moves, Holders

LEMMA HoldersMoved ==
  ASSUME NEW S \in SUBSET Tasks, NEW t \in Tasks, NEW to \in PCs, Moves(t, to)
  PROVE  /\ to \in Granted => Holders(S)' = Holders(S) \cup (S \cap {t})
         /\ to \notin Granted => Holders(S)' = Holders(S) \ {t}
BY WaitingIsNotGranted DEF Moves, Holders

LEMMA HoldersFinite ==
  ASSUME Finite, NEW S \in SUBSET Tasks
  PROVE  IsFiniteSet(Holders(S)) /\ Cardinality(Holders(S)) \in Nat
<1>1. Holders(S) \in SUBSET Tasks
  BY DEF Holders
<1>2. IsFiniteSet(Holders(S))
  BY <1>1, FS_Subset DEF Finite
<1> QED
  BY <1>2, FS_CardinalityType

\* A step that moves no slot keeps the counters.
LEMMA CountKept ==
  ASSUME Finite, Counted, UNCHANGED <<slots.running, slots.magnets>>,
         Wakes \/ \E t \in Tasks, to \in PCs : Moves(t, to) /\ (to \in Granted <=> run[t] \in Granted)
  PROVE  Counted'
<1>1. Holders(Tasks)' = Holders(Tasks) /\ Holders(Magnets)' = Holders(Magnets)
  BY HoldersKept DEF Finite
<1> QED
  BY <1>1 DEF Counted

-----------------------------------------------------------------------------
(***************************************************************************)
(* Steps of a runner that keep its slot, or its lack of one                *)
(***************************************************************************)
\* What the other parts of the invariant see of such a step.
LEMMA Quietly ==
  ASSUME Finite, OffInv, UNCHANGED <<slots, saver, magnet>>,
         Wakes \/ \E t \in Tasks, to \in PCs :
                    /\ Moves(t, to) /\ (to \in Granted <=> run[t] \in Granted) /\ to # "close"
                    /\ to \in {"busy", "loaded", "handed"} => run[t] \in {"busy", "loaded", "handed"}
  PROVE  Counted' /\ Restart' /\ ClientStaysOpen'
<1>1. Counted'
  BY CountKept DEF OffInv
<1>2. Restart' /\ ClientStaysOpen'
  BY WaitingIsNotGranted DEF OffInv, Restart, ClientStaysOpen, Wakes, Moves, Finite
<1> QED
  BY <1>1, <1>2

\* Uploads, rows and births as they are, but for those of one task.
LEMMA TablesKept ==
  ASSUME OffInv, UNCHANGED <<rec, row, born, upload>>,
         Wakes \/ \E t \in Tasks, to \in PCs \ {"handed"} : Moves(t, to) /\ run[t] # "off"
  PROVE  Handed' /\ AcceptedIsKept' /\ Fresh'
BY DEF OffInv, Handed, AcceptedIsKept, Fresh, Wakes, Moves

LEMMA AcquireStep == ASSUME Finite, OffInv, NEW t \in Tasks, Acquire(t) PROVE OffInv'
<1>0. run[t] = "acquire" /\ UNCHANGED <<proc, rec, row, born, dir, upload, cancelled, magnet, saver>>
  BY DEF Acquire, tables
<1>1. CASE UNCHANGED slots /\ (Goes(t, "clear") \/ Goes(t, "parked"))
  <2>1. PICK to \in {"clear", "parked"} : Goes(t, to)
    BY <1>1
  <2>2. to \in PCs /\ to \notin Granted /\ to \notin {"close", "busy", "loaded", "handed"}
        /\ run[t] \notin Granted
    BY <1>0 DEF PCs, Waiting, Granted
  <2>3. Moves(t, to)
    BY <2>1, <2>2, GoesMoves DEF OffInv
  <2>4. Counted' /\ Restart' /\ ClientStaysOpen'
    BY <1>0, <1>1, <2>2, <2>3, Quietly
  <2>5. Handed' /\ AcceptedIsKept' /\ Fresh'
    BY <1>0, <2>2, <2>3, TablesKept
  <2> QED
    BY <1>0, <1>1, <2>3, <2>4, <2>5 DEF OffInv, Typed, Moves
<1>2. CASE /\ ~MagnetBlocked(t) /\ Goes(t, "work")
           /\ slots' = [slots EXCEPT !.running = @ + 1,
                                     !.magnets = IF t \in Magnets THEN @ + 1 ELSE @]
  <2>1. "work" \in PCs /\ "work" \in Granted /\ run[t] \notin Granted
    BY <1>0 DEF PCs, Granted
  <2>2. Moves(t, "work")
    BY <1>2, <2>1, GoesMoves DEF OffInv
  <2>3. /\ slots'.running = slots.running + 1
        /\ slots'.magnets = IF t \in Magnets THEN slots.magnets + 1 ELSE slots.magnets
        /\ slots' \in [limit : 1..MaxLimit, running : Nat, magnets : Nat]
    <3> DEFINE m == IF t \in Magnets THEN slots.magnets + 1 ELSE slots.magnets
    <3>1. slots \in [limit : 1..MaxLimit, running : Nat, magnets : Nat]
      BY DEF OffInv, Typed
    <3>2. slots.running + 1 \in Nat /\ m \in Nat
      BY <3>1
    <3>3. slots' = [slots EXCEPT !.running = slots.running + 1, !.magnets = m]
      BY <1>2, <3>1
    <3> HIDE DEF m
    <3>4. slots'.running = slots.running + 1 /\ slots'.magnets = m
          /\ slots' \in [limit : 1..MaxLimit, running : Nat, magnets : Nat]
      BY <3>1, <3>2, <3>3
    <3> QED
      BY <3>4 DEF m
  <2>4. ASSUME NEW S \in SUBSET Tasks
        PROVE  Cardinality(Holders(S)') =
                 IF t \in S THEN Cardinality(Holders(S)) + 1 ELSE Cardinality(Holders(S))
    <3>1. Holders(S)' = Holders(S) \cup (S \cap {t}) /\ t \notin Holders(S)
      BY <2>1, <2>2, HoldersMoved DEF Holders
    <3>2. CASE t \in S
      <4>1. Holders(S)' = Holders(S) \cup {t}
        BY <3>1, <3>2
      <4>2. Cardinality(Holders(S) \cup {t}) = Cardinality(Holders(S)) + 1
        BY <3>1, HoldersFinite, FS_AddElement
      <4> QED BY <3>2, <4>1, <4>2
    <3>3. CASE t \notin S
      <4>1. Holders(S)' = Holders(S)
        BY <3>1, <3>3
      <4> QED BY <3>3, <4>1
    <3> QED BY <3>2, <3>3
  <2>5. Counted'
    BY <2>3, <2>4 DEF OffInv, Counted, Finite
  <2>6. Restart' /\ ClientStaysOpen'
    BY <1>0, <1>2, <2>2, WaitingIsNotGranted
       DEF OffInv, Restart, ClientStaysOpen, Moves, Finite, MagnetBlocked
  <2>7. Handed' /\ AcceptedIsKept' /\ Fresh'
    BY <1>0, <2>1, <2>2, TablesKept
  <2> QED
    BY <1>0, <2>2, <2>3, <2>5, <2>6, <2>7 DEF OffInv, Typed, Moves
<1> QED
  BY <1>1, <1>2 DEF Acquire

LEMMA OpenStep == ASSUME Finite, OffInv, NEW t \in Tasks, Open(t) PROVE OffInv'
<1>0. /\ run[t] = "work" /\ dir' = dir \cup {t} /\ magnet' = [magnet EXCEPT !.open = @ \/ t \in Magnets]
      /\ UNCHANGED <<proc, rec, row, born, upload, cancelled, slots, saver>>
  BY DEF Open
<1>1. "busy" \in PCs /\ "busy" \in Granted /\ "work" \in Granted
  BY DEF PCs, Granted
<1>2. Moves(t, "busy")
  BY <1>1, GoesMoves DEF Open, OffInv
<1>3. Counted'
  BY <1>0, <1>1, <1>2, CountKept DEF OffInv
<1>4. /\ magnet'.pending = magnet.pending /\ magnet'.restarting = magnet.restarting
      /\ (magnet.open => magnet'.open) /\ (t \in Magnets => magnet'.open)
      /\ magnet' \in [pending : BOOLEAN, restarting : BOOLEAN, open : BOOLEAN]
  <2>1. (magnet.open \/ t \in Magnets) \in BOOLEAN
    OBVIOUS
  <2> QED
    BY <1>0, <2>1 DEF OffInv, Typed
<1>5. Restart'
  BY <1>0, <1>1, <1>2, <1>4, WaitingIsNotGranted DEF OffInv, Restart, Moves, Finite
<1>6. ClientStaysOpen'
  BY <1>0, <1>2, <1>4 DEF OffInv, ClientStaysOpen, Moves, Finite
<1>7. Handed' /\ AcceptedIsKept' /\ Fresh'
  BY <1>0, <1>1, <1>2, TablesKept
<1> QED
  BY <1>0, <1>2, <1>3, <1>4, <1>5, <1>6, <1>7 DEF OffInv, Typed, Moves

\* Between the opening and the release of the slot.
LEMMA WorkStep ==
  ASSUME Finite, OffInv, NEW t \in Tasks,
         Downloaded(t) \/ Quit(t) \/ Fail(t) \/ HandOver(t) \/ Complete(t)
  PROVE  OffInv'
<1>1. /\ run[t] \in {"busy", "loaded", "handed"}
      /\ UNCHANGED <<proc, born, dir, cancelled, slots, magnet, saver>>
  BY DEF Downloaded, Quit, Fail, HandOver, Complete, tables, gates
<1>2. PICK to \in {"loaded", "handed", "release"} : Goes(t, to)
  BY DEF Downloaded, Quit, Fail, HandOver, Complete
<1>3. {"busy", "loaded", "handed", "release"} \subseteq Granted /\ Granted \subseteq PCs
      /\ "close" \notin Granted
  BY DEF Granted, PCs
<1>4. Moves(t, to)
  BY <1>2, <1>3, GoesMoves DEF OffInv
<1>5. Counted' /\ Restart' /\ ClientStaysOpen'
  BY <1>1, <1>2, <1>3, <1>4, Quietly
<1>6. /\ upload' \in [Tasks -> {"none", "active", "done"}]
      /\ rec' \in [Tasks -> States] /\ row' \in [Tasks -> States]
      /\ \A u \in Tasks : upload[u] # "none" => upload'[u] # "none"
      /\ \A u \in Tasks \ {t} : row'[u] = row[u] /\ rec'[u] = rec[u]
  BY DEF Downloaded, Quit, Fail, HandOver, Complete, Becomes, tables, OffInv, Typed, States
<1>7. run'[t] = "handed" => upload'[t] # "none"
  BY <1>4 DEF Downloaded, Quit, Fail, HandOver, Complete, Goes, OffInv, Typed, Moves
<1>8. born[t] = "live" => row'[t] # "none" \/ upload'[t] # "none"
  <2>1. CASE Complete(t)
    BY <1>6, <2>1 DEF Complete, OffInv, Handed
  <2>2. CASE ~Complete(t)
    <3>1. row'[t] = row[t] \/ row'[t] = "failed"
      BY <2>2 DEF Downloaded, Quit, Fail, HandOver, Becomes, tables, OffInv, Typed
    <3> QED
      BY <1>6, <3>1 DEF OffInv, AcceptedIsKept
  <2> QED BY <2>1, <2>2
<1>9. Handed' /\ AcceptedIsKept' /\ Fresh'
  BY <1>1, <1>4, <1>6, <1>7, <1>8 DEF OffInv, Handed, AcceptedIsKept, Fresh, Moves
<1> QED
  BY <1>1, <1>4, <1>5, <1>6, <1>9 DEF OffInv, Typed, Moves

-----------------------------------------------------------------------------
(***************************************************************************)
(* The end of a run                                                        *)
(***************************************************************************)
\* The client is in nobody's hands when the counter of its users is 0.
LEMMA NoUser ==
  ASSUME Finite, Holders(Magnets) = {}
  PROVE  \A u \in Magnets : run[u] \notin Granted
BY DEF Holders

LEMMA NoneCounted ==
  ASSUME Finite, NEW S \in SUBSET Tasks, Cardinality(Holders(S)) = 0
  PROVE  Holders(S) = {}
BY HoldersFinite, FS_EmptySet

LEMMA ReleaseStep == ASSUME Finite, OffInv, NEW t \in Tasks, Release(t) PROVE OffInv'
<1>0. /\ run[t] = "release" /\ slots' = Released(t)
      /\ UNCHANGED <<proc, rec, row, born, dir, upload, cancelled, saver>>
  BY DEF Release, tables
<1>1. /\ {"close", "clear"} \subseteq PCs /\ run[t] \in Granted /\ "close" \notin Granted
      /\ "clear" \notin Granted /\ {"busy", "loaded", "handed"} \subseteq Granted
  BY <1>0 DEF PCs, Granted
<1>2. PICK to \in {"close", "clear"} :
        /\ Moves(t, to)
        /\ to = "close" => magnet' = Restarting /\ MayRestart(Released(t).magnets)
        /\ to = "clear" => magnet' = magnet
  <2>1. CASE magnet' = Restarting /\ Goes(t, "close") /\ MayRestart(Released(t).magnets)
    BY <1>1, <2>1, GoesMoves DEF OffInv
  <2>2. CASE WakesAnd(t, "clear") /\ UNCHANGED magnet
    BY <1>1, <2>2, GoesMoves DEF OffInv
  <2> QED
    BY <2>1, <2>2 DEF Release
<1>3. to \in PCs /\ to \notin Granted
  BY <1>1
<1>4. ASSUME NEW S \in SUBSET Tasks
      PROVE  /\ Cardinality(Holders(S)') =
                  IF t \in S THEN Cardinality(Holders(S)) - 1 ELSE Cardinality(Holders(S))
             /\ Cardinality(Holders(S)') \in Nat
  <2>1. Holders(S)' = Holders(S) \ {t}
    BY <1>2, <1>3, HoldersMoved
  <2>2. IsFiniteSet(Holders(S)) /\ Cardinality(Holders(S)) \in Nat
    BY HoldersFinite
  <2>3. t \in S <=> t \in Holders(S)
    BY <1>1 DEF Holders
  <2>4. CASE t \in S
    <3>1. Cardinality(Holders(S) \ {t}) = Cardinality(Holders(S)) - 1
          /\ IsFiniteSet(Holders(S) \ {t})
      BY <2>2, <2>3, <2>4, FS_RemoveElement
    <3>2. Cardinality(Holders(S) \ {t}) \in Nat
      BY <3>1, FS_CardinalityType
    <3> QED BY <2>1, <2>4, <3>1, <3>2
  <2>5. CASE t \notin S
    <3>1. Holders(S) \ {t} = Holders(S)
      BY <2>3, <2>5
    <3> QED BY <2>1, <2>2, <2>5, <3>1
  <2> QED BY <2>4, <2>5
<1>5. /\ slots'.running = slots.running - 1
      /\ slots'.magnets = IF t \in Magnets THEN slots.magnets - 1 ELSE slots.magnets
      /\ slots'.limit = slots.limit
      /\ slots' = [limit |-> slots'.limit, running |-> slots'.running, magnets |-> slots'.magnets]
  <2> DEFINE m == IF t \in Magnets THEN slots.magnets - 1 ELSE slots.magnets
  <2>1. slots \in [limit : 1..MaxLimit, running : Nat, magnets : Nat]
    BY DEF OffInv, Typed
  <2>2. slots' = [slots EXCEPT !.running = slots.running - 1, !.magnets = m]
    BY <1>0, <2>1 DEF Released
  <2> HIDE DEF m
  <2>3. slots'.running = slots.running - 1 /\ slots'.magnets = m /\ slots'.limit = slots.limit
        /\ slots' = [limit |-> slots'.limit, running |-> slots'.running, magnets |-> slots'.magnets]
    BY <2>1, <2>2
  <2> QED BY <2>3 DEF m
<1>6. /\ slots'.running = Cardinality(Holders(Tasks)') /\ slots'.running \in Nat
      /\ slots'.magnets = Cardinality(Holders(Magnets)') /\ slots'.magnets \in Nat
  BY <1>4, <1>5 DEF OffInv, Counted, Finite
<1>7. Counted' /\ slots' \in [limit : 1..MaxLimit, running : Nat, magnets : Nat]
  BY <1>5, <1>6 DEF Counted, OffInv, Typed
<1>8. to = "close" => \A u \in Magnets : run'[u] \notin Granted
  <2>1. SUFFICES ASSUME to = "close" PROVE \A u \in Magnets : run'[u] \notin Granted
    OBVIOUS
  <2>2. Cardinality(Holders(Magnets)') = 0
    BY <1>0, <1>2, <1>6, <2>1 DEF MayRestart
  <2>3. Holders(Magnets)' = Holders(Magnets) \ {t} /\ IsFiniteSet(Holders(Magnets)')
    <3>1. Holders(Magnets)' = Holders(Magnets) \ {t}
      BY <1>2, <1>3, HoldersMoved DEF Finite
    <3>2. IsFiniteSet(Holders(Magnets))
      BY HoldersFinite DEF Finite
    <3> QED BY <3>1, <3>2, FS_Subset
  <2>4. Holders(Magnets)' = {}
    BY <2>2, <2>3, FS_EmptySet
  <2> QED BY <2>4 DEF Holders
<1>9. /\ magnet'.open = magnet.open
      /\ magnet' \in [pending : BOOLEAN, restarting : BOOLEAN, open : BOOLEAN]
      /\ to = "close" => magnet'.restarting /\ ~magnet.restarting
      /\ to = "clear" => magnet'.restarting = magnet.restarting
  BY <1>2 DEF Restarting, MayRestart, OffInv, Typed
<1>10. Restart'
  BY <1>0, <1>1, <1>2, <1>3, <1>8, <1>9, WaitingIsNotGranted DEF OffInv, Restart, Moves, Finite
<1>11. ClientStaysOpen'
  BY <1>1, <1>2, <1>9 DEF OffInv, ClientStaysOpen, Moves, Finite
<1>12. Handed' /\ AcceptedIsKept' /\ Fresh'
  <2>1. to \in PCs \ {"handed"} /\ run[t] # "off"
    BY <1>0, <1>3 DEF Granted
  <2> QED BY <1>0, <1>2, <2>1, TablesKept
<1> QED
  BY <1>0, <1>2, <1>7, <1>9, <1>10, <1>11, <1>12 DEF OffInv, Typed, Moves

\* Whoever restarts the client is alone, and finds no user.
LEMMA ReopenedFields ==
  ASSUME OffInv, magnet' = Reopened
  PROVE  /\ magnet'.restarting = FALSE
         /\ magnet' \in [pending : BOOLEAN, restarting : BOOLEAN, open : BOOLEAN]
BY DEF Reopened, OffInv, Typed

LEMMA CloseStep == ASSUME Finite, OffInv, NEW t \in Tasks, Close(t) PROVE OffInv'
<1>0. /\ run[t] = "close" /\ magnet' = Reopened /\ WakesAnd(t, "clear")
      /\ UNCHANGED <<proc, rec, row, born, dir, upload, cancelled, slots, saver>>
  BY DEF Close, tables
<1>1. /\ "clear" \in PCs /\ run[t] \notin Granted /\ "clear" \notin Granted
      /\ {"busy", "loaded", "handed"} \subseteq Granted
  BY <1>0 DEF PCs, Granted
<1>2. Moves(t, "clear")
  BY <1>0, <1>1, GoesMoves DEF OffInv
<1>3. Counted'
  BY <1>0, <1>1, <1>2, CountKept DEF OffInv
<1>4. \A u \in Magnets : run'[u] \notin Granted
  BY <1>0, <1>1, <1>2, WaitingIsNotGranted DEF OffInv, Restart, Moves, Finite
<1>5. Restart' /\ ClientStaysOpen'
  BY <1>0, <1>1, <1>2, <1>4, ReopenedFields DEF OffInv, Restart, ClientStaysOpen, Moves, Finite
<1>6. Handed' /\ AcceptedIsKept' /\ Fresh'
  BY <1>0, <1>1, <1>2, TablesKept
<1> QED
  BY <1>0, <1>2, <1>3, <1>5, <1>6, ReopenedFields DEF OffInv, Typed, Moves

LEMMA LeaveStep == ASSUME Finite, OffInv, NEW t \in Tasks, Leave(t) \/ Clear(t) PROVE OffInv'
<1>1. /\ run[t] \in {"parked", "clear"} /\ cancelled' \subseteq Tasks
      /\ UNCHANGED <<proc, rec, row, born, dir, upload, slots, magnet, saver>>
  BY DEF Leave, Clear, tables, gates, OffInv, Typed
<1>2. PICK to \in {"clear", "off"} : Goes(t, to) \/ WakesAnd(t, to)
  BY DEF Leave, Clear
<1>3. /\ to \in PCs /\ run[t] \notin Granted /\ to \notin Granted /\ to # "parked"
      /\ to \notin {"close", "busy", "loaded", "handed"}
  BY <1>1 DEF PCs, Granted
<1>4. Moves(t, to)
  BY <1>2, <1>3, GoesMoves DEF OffInv
<1>5. Counted' /\ Restart' /\ ClientStaysOpen'
  BY <1>1, <1>3, <1>4, Quietly
<1>6. Handed' /\ AcceptedIsKept' /\ Fresh'
  BY <1>1, <1>3, <1>4, TablesKept
<1> QED
  BY <1>1, <1>4, <1>5, <1>6 DEF OffInv, Typed, Moves

-----------------------------------------------------------------------------
(***************************************************************************)
(* Settings                                                                *)
(***************************************************************************)
LEMMA SaveStep ==
  ASSUME Finite, OffInv, NEW c \in Savers, NEW l \in 1..MaxLimit, NEW p \in BOOLEAN, Save(c, l, p)
  PROVE  OffInv'
<1>0. /\ slots' = [slots EXCEPT !.limit = l]
      /\ UNCHANGED <<proc, rec, row, born, dir, upload, cancelled>>
  BY DEF Save, tables
<1>1. /\ slots'.running = slots.running /\ slots'.magnets = slots.magnets
      /\ slots' \in [limit : 1..MaxLimit, running : Nat, magnets : Nat]
  BY <1>0 DEF OffInv, Typed
<1>2. CASE /\ MayRestart(slots.magnets) /\ magnet' = Restarting
           /\ saver' = [saver EXCEPT ![c] = "close"] /\ UNCHANGED run
  <2>1. Holders(Magnets) = {}
    BY <1>2, NoneCounted DEF MayRestart, OffInv, Counted, Finite
  <2>2. \A u \in Magnets : run[u] \notin Granted
    BY <2>1, NoUser
  <2>3. /\ magnet'.restarting = TRUE /\ ~magnet.restarting /\ magnet'.open = magnet.open
        /\ magnet' \in [pending : BOOLEAN, restarting : BOOLEAN, open : BOOLEAN]
    BY <1>2 DEF Restarting, MayRestart, OffInv, Typed
  <2>4. saver' \in [Savers -> {"idle", "close"}]
        /\ \A d \in Savers : saver'[d] = "close" => d = c \/ saver[d] = "close"
    BY <1>2 DEF OffInv, Typed
  <2>5. Counted'
    BY <1>1, <1>2 DEF OffInv, Counted, Holders
  <2>6. Restart' /\ ClientStaysOpen'
    BY <1>2, <2>2, <2>3, <2>4 DEF OffInv, Restart, ClientStaysOpen, Finite
  <2> QED
    BY <1>0, <1>1, <1>2, <2>3, <2>4, <2>5, <2>6
       DEF OffInv, Typed, Handed, AcceptedIsKept, Fresh
<1>3. CASE /\ magnet' = [magnet EXCEPT !.pending = magnet.pending \/ p]
           /\ run' = Woken(run) /\ UNCHANGED saver
  <2>1. Wakes
    BY <1>3, WokenWakes DEF OffInv
  <2>2. /\ magnet'.restarting = magnet.restarting /\ magnet'.open = magnet.open
        /\ magnet' \in [pending : BOOLEAN, restarting : BOOLEAN, open : BOOLEAN]
    BY <1>3 DEF OffInv, Typed
  <2>3. Counted'
    BY <1>1, <2>1, CountKept DEF OffInv
  <2>4. Restart' /\ ClientStaysOpen'
    BY <1>3, <2>1, <2>2, WaitingIsNotGranted DEF OffInv, Restart, ClientStaysOpen, Wakes, Finite
  <2>5. Handed' /\ AcceptedIsKept' /\ Fresh'
    BY <1>0, <2>1, TablesKept
  <2> QED
    BY <1>0, <1>1, <1>3, <2>1, <2>2, <2>3, <2>4, <2>5 DEF OffInv, Typed, Wakes
<1> QED
  BY <1>2, <1>3 DEF Save

LEMMA SaveClosesStep == ASSUME Finite, OffInv, NEW c \in Savers, SaveCloses(c) PROVE OffInv'
<1>0. /\ saver[c] = "close" /\ saver' = [saver EXCEPT ![c] = "idle"]
      /\ magnet' = Reopened /\ run' = Woken(run)
      /\ UNCHANGED <<proc, rec, row, born, dir, upload, cancelled, slots>>
  BY DEF SaveCloses, tables
<1>1. Wakes
  BY <1>0, WokenWakes DEF OffInv
<1>2. Counted'
  BY <1>0, <1>1, CountKept DEF OffInv
<1>3. \A u \in Magnets : run'[u] \notin Granted
  BY <1>0, <1>1, WaitingIsNotGranted DEF OffInv, Restart, Wakes, Finite
<1>4. \A d \in Savers : saver'[d] = "idle"
  BY <1>0 DEF OffInv, Restart, Typed
<1>5. {"busy", "loaded", "handed"} \subseteq Granted
  BY DEF Granted
<1>6. Restart' /\ ClientStaysOpen'
  BY <1>0, <1>1, <1>3, <1>4, <1>5, ReopenedFields
     DEF OffInv, Restart, ClientStaysOpen, Wakes, Finite
<1>7. Handed' /\ AcceptedIsKept' /\ Fresh'
  BY <1>0, <1>1, TablesKept
<1> QED
  BY <1>0, <1>1, <1>2, <1>4, <1>6, <1>7, ReopenedFields DEF OffInv, Typed, Wakes

-----------------------------------------------------------------------------
(***************************************************************************)
(* The process, creation, clean-up, uploads and deletion                   *)
(***************************************************************************)
\* Steps that leave the runners and the gates alone.
LEMMA Apart ==
  ASSUME OffInv, UNCHANGED <<run, slots, magnet, saver>>
  PROVE  Counted' /\ Restart' /\ ClientStaysOpen'
BY DEF OffInv, Counted, Holders, Restart, ClientStaysOpen

LEMMA ApartStep ==
  ASSUME OffInv,
         Boot \/ Start \/ Stop \/ CleanTick \/ Cleaner
         \/ \E t \in Tasks : Uploaded(t) \/ DeleteGoesOn(t)
  PROVE  OffInv'
<1>1. UNCHANGED <<run, slots, magnet, saver, cancelled>>
  BY DEF Boot, Start, Stop, CleanTick, Cleaner, CleanTasks, CleanUploads, CleanRemove,
         Uploaded, DeleteGoesOn, gates
<1>2. Counted' /\ Restart' /\ ClientStaysOpen'
  BY <1>1, Apart
<1>3. CASE Boot
  BY <1>1, <1>2, <1>3 DEF Boot, OffInv, Typed, Handed, AcceptedIsKept, Fresh
<1>4. CASE Start \/ Stop \/ CleanTick \/ Cleaner
  <2>1. /\ UNCHANGED <<rec, row, born, upload>> /\ dir' \subseteq Tasks
        /\ proc' \in {"off", "boot", "up", "stopping"}
    BY <1>4 DEF Start, Stop, CleanTick, Cleaner, CleanTasks, CleanUploads, CleanRemove,
                tables, OffInv, Typed
  <2> QED
    BY <1>1, <1>2, <2>1 DEF OffInv, Typed, Handed, AcceptedIsKept, Fresh
<1>5. ASSUME NEW t \in Tasks, Uploaded(t) PROVE OffInv'
  BY <1>1, <1>2, <1>5 DEF Uploaded, OffInv, Typed, Handed, AcceptedIsKept, Fresh
<1>6. ASSUME NEW t \in Tasks, DeleteGoesOn(t) PROVE OffInv'
  BY <1>1, <1>2, <1>6
     DEF DeleteGoesOn, Becomes, OffInv, Typed, Handed, AcceptedIsKept, Fresh, States
<1> QED
  BY <1>3, <1>4, <1>5, <1>6

LEMMA LaunchStep == ASSUME Finite, OffInv, Launch PROVE OffInv'
<1>0. UNCHANGED <<proc, rec, row, born, dir, upload, cancelled, slots, magnet, saver>>
  BY DEF Launch, tables, gates
<1>1. /\ run' \in [Tasks -> PCs]
      /\ \A u \in Tasks : run'[u] = run[u]
                          \/ (run[u] = "off" /\ rec[u] = "active" /\ run'[u] = "acquire")
  BY DEF Launch, Active, OffInv, Typed, PCs, Waiting
<1>2. "off" \notin Granted /\ "acquire" \notin Granted
  BY DEF Granted
<1>3. Holders(Tasks)' = Holders(Tasks) /\ Holders(Magnets)' = Holders(Magnets)
  BY <1>1, <1>2 DEF Holders, Finite
<1>4. Counted'
  BY <1>0, <1>3 DEF OffInv, Counted
<1>5. Restart' /\ ClientStaysOpen'
  BY <1>0, <1>1, <1>2 DEF OffInv, Restart, ClientStaysOpen, Finite
<1>6. Handed' /\ AcceptedIsKept' /\ Fresh'
  BY <1>0, <1>1 DEF OffInv, Handed, AcceptedIsKept, Fresh
<1> QED
  BY <1>0, <1>1, <1>4, <1>5, <1>6 DEF OffInv, Typed

\* Nothing that was in memory is left.
LEMMA NobodyHolds ==
  ASSUME Finite, run = [t \in Tasks |-> "off"]
  PROVE  Cardinality(Holders(Tasks)) = 0 /\ Cardinality(Holders(Magnets)) = 0
<1>1. Holders(Tasks) = {} /\ Holders(Magnets) = {}
  BY DEF Holders, Granted, Finite
<1> QED
  BY <1>1, FS_EmptySet

LEMMA OffStep == ASSUME Finite, OffInv, Off PROVE OffInv'
<1>0. /\ proc' = "off" /\ rec' = [t \in Tasks |-> "none"]
      /\ run' = [t \in Tasks |-> "off"] /\ cancelled' = {}
      /\ magnet' = [pending |-> FALSE, restarting |-> FALSE, open |-> FALSE]
      /\ saver' = [c \in Savers |-> "idle"]
      /\ UNCHANGED <<row, born, dir, upload>>
  BY DEF Off
<1>1. /\ slots'.running = 0 /\ slots'.magnets = 0
      /\ slots' \in [limit : 1..MaxLimit, running : Nat, magnets : Nat]
  BY DEF Off, OffInv, Typed
<1>2. Holders(Tasks)' = {} /\ Holders(Magnets)' = {}
  BY <1>0 DEF Holders, Granted, Finite
<1>3. Counted'
  BY <1>1, <1>2, FS_EmptySet DEF Counted
<1>4. Restart' /\ ClientStaysOpen'
  BY <1>0 DEF Restart, ClientStaysOpen, Finite
<1>5. Handed' /\ AcceptedIsKept' /\ Fresh'
  BY <1>0 DEF OffInv, Handed, AcceptedIsKept, Fresh
<1>6. Typed'
  BY <1>0, <1>1 DEF OffInv, Typed, States, PCs
<1> QED
  BY <1>3, <1>4, <1>5, <1>6 DEF OffInv

LEMMA AddStep == ASSUME Finite, OffInv, NEW t \in Tasks, Add(t) PROVE OffInv'
<1>0. /\ born[t] = "no" /\ run[t] = "off" /\ Becomes(t, "active")
      /\ born' = [born EXCEPT ![t] = "live"] /\ Goes(t, "acquire")
      /\ UNCHANGED <<proc, dir, upload, cancelled, slots, magnet, saver>>
  BY DEF Add, gates, OffInv, Fresh
<1>1. /\ "acquire" \in PCs /\ run[t] \notin Granted /\ "acquire" \notin Granted
  BY <1>0 DEF PCs, Granted, Waiting
<1>2. Moves(t, "acquire")
  BY <1>0, <1>1, GoesMoves DEF OffInv
<1>3. Counted' /\ Restart' /\ ClientStaysOpen'
  BY <1>0, <1>1, <1>2, Quietly
<1>4. Handed' /\ AcceptedIsKept' /\ Fresh'
  BY <1>0, <1>2 DEF OffInv, Typed, Handed, AcceptedIsKept, Fresh, Moves, Becomes
<1> QED
  BY <1>0, <1>2, <1>3, <1>4 DEF OffInv, Typed, Moves, Becomes, States

LEMMA DeleteStep == ASSUME Finite, OffInv, NEW t \in Tasks, Delete(t) PROVE OffInv'
<1>0. /\ run' = Woken(run) /\ cancelled' \subseteq Tasks
      /\ UNCHANGED <<proc, rec, row, born, dir, upload, slots, magnet, saver>>
  BY DEF Delete, tables, gates, OffInv, Typed
<1>1. Wakes
  BY <1>0, WokenWakes DEF OffInv
<1>2. Counted' /\ Restart' /\ ClientStaysOpen'
  BY <1>0, <1>1, Quietly
<1>3. Handed' /\ AcceptedIsKept' /\ Fresh'
  BY <1>0, <1>1, TablesKept
<1> QED
  BY <1>0, <1>1, <1>2, <1>3 DEF OffInv, Typed, Wakes

-----------------------------------------------------------------------------
(***************************************************************************)
(* The invariant                                                           *)
(***************************************************************************)
LEMMA OffInit == ASSUME Finite, Init PROVE OffInv
<1>1. slots \in [limit : 1..MaxLimit, running : Nat, magnets : Nat]
      /\ slots.running = 0 /\ slots.magnets = 0
  BY DEF Init
<1>2. Counted
  BY <1>1, NobodyHolds DEF Init, Counted
<1>3. Typed
  BY <1>1 DEF Init, Typed, States, PCs
<1>4. Restart /\ ClientStaysOpen /\ Handed /\ AcceptedIsKept /\ Fresh
  BY DEF Init, Restart, ClientStaysOpen, Handed, AcceptedIsKept, Fresh, Finite
<1> QED
  BY <1>2, <1>3, <1>4 DEF OffInv

LEMMA OffNext == ASSUME Finite, OffInv, [Next]_vars PROVE OffInv'
<1>1. ASSUME NEW t \in Tasks, Runner(t) PROVE OffInv'
  BY <1>1, AcquireStep, OpenStep, WorkStep, ReleaseStep, CloseStep, LeaveStep DEF Runner
<1>2. ASSUME NEW t \in Tasks, Add(t) \/ Uploaded(t) \/ Delete(t) \/ DeleteGoesOn(t) PROVE OffInv'
  BY <1>2, AddStep, ApartStep, DeleteStep
<1>3. ASSUME NEW c \in Savers, SaveCloses(c) PROVE OffInv'
  BY <1>3, SaveClosesStep
<1>4. ASSUME NEW c \in Savers, NEW l \in 1..MaxLimit, NEW p \in BOOLEAN, Save(c, l, p) PROVE OffInv'
  BY <1>4, SaveStep
<1>5. CASE Boot \/ Start \/ Stop \/ CleanTick \/ Cleaner
  BY <1>5, ApartStep
<1>6. CASE Launch
  BY <1>6, LaunchStep
<1>7. CASE Off
  BY <1>7, OffStep
<1>8. CASE UNCHANGED vars
  <2>1. UNCHANGED <<proc, rec, row, born, dir, upload, run, cancelled, slots, magnet, saver>>
    BY <1>8 DEF vars, tables, gates
  <2>2. Counted' /\ Restart' /\ ClientStaysOpen'
    BY <2>1, Apart
  <2> QED
    BY <2>1, <2>2 DEF OffInv, Typed, Handed, AcceptedIsKept, Fresh
<1> QED
  BY <1>1, <1>2, <1>3, <1>4, <1>5, <1>6, <1>7, <1>8 DEF Next

LEMMA OffAlways == Spec => []OffInv
<1>0. Finite
  BY OfflineAssumption DEF Finite
<1>1. Init => OffInv
  BY <1>0, OffInit
<1>2. OffInv /\ [Next]_vars => OffInv'
  BY <1>0, OffNext
<1> QED
  BY <1>1, <1>2, PTL DEF Spec

-----------------------------------------------------------------------------
\* The BitTorrent client is never closed under a transfer that uses it: a change of
\* settings waits until the last magnet task gave its slot back, and no other gets
\* one while the client is restarted (builtin.go).
THEOREM ClientIsNeverClosedInUse == Spec => []ClientStaysOpen
<1>1. OffInv => ClientStaysOpen
  BY DEF OffInv
<1> QED
  BY <1>1, OffAlways, PTL

\* A download that was accepted and not deleted has a row, or an upload has taken it
\* over, through crashes, restarts, failures and clean-ups.
THEOREM AcceptedDownloadsAreKept == Spec => []AcceptedIsKept
<1>1. OffInv => AcceptedIsKept
  BY DEF OffInv
<1> QED
  BY <1>1, OffAlways, PTL

\* Types, and the counters of acquireBuiltinSlot and releaseBuiltinSlot are the
\* number of tasks that hold a slot, for any number of tasks.
THEOREM SlotsAreCounted == Spec => []TypeOK
<1>1. OffInv => TypeOK
  BY DEF OffInv, Typed, Counted, Holders, TypeOK, PCs
<1> QED
  BY <1>1, OffAlways, PTL

-----------------------------------------------------------------------------
(***************************************************************************)
(* The clean-up                                                            *)
(***************************************************************************)
\* A runner that works has an active record, an upload belongs to a task that was
\* created, and nothing runs in a process that is off.
Working == \A t \in Tasks : run[t] \in {"work", "busy", "loaded"} => rec[t] = "active"
Taken == \A t \in Tasks : upload[t] # "none" => born[t] # "no"
Nothing == proc = "off" => clean.at = "idle" /\ \A t \in Tasks : run[t] = "off"

\* What the clean-up knows and has still to keep is kept: first by its record, and once
\* the uploads have been read by its upload too.
Seen ==
  clean.at \in {"uploads", "remove"} =>
    \A t \in clean.known : /\ t \in Tasks /\ born[t] # "no"
                           /\ rec[t] = "active" => t \in clean.keep
                           /\ clean.at = "remove" /\ upload[t] = "active" => t \in clean.keep

CleanInv == Working /\ Taken /\ Nothing /\ Seen

LEMMA SeenStays ==
  ASSUME Seen, clean' = clean,
         \A t \in Tasks : born[t] # "no" =>
           /\ born'[t] # "no"
           /\ rec'[t] = "active" => rec[t] = "active"
           /\ upload'[t] = "active" => upload[t] = "active" \/ rec[t] = "active"
  PROVE  Seen'
BY DEF Seen

LEMMA CleanKept ==
  ASSUME CleanInv, UNCHANGED <<rec, born, upload, clean>>, proc' = "off" => proc = "off",
         proc = "off" => run' = run,
         \A t \in Tasks : run'[t] \in {"work", "busy", "loaded"} =>
                            run[t] \in {"work", "busy", "loaded"} \/ rec[t] = "active"
  PROVE  CleanInv'
BY SeenStays DEF CleanInv, Working, Taken, Nothing

LEMMA CleanRunner ==
  ASSUME OffInv, CleanInv, NEW t \in Tasks, Runner(t) PROVE CleanInv'
<1>0. /\ run[t] # "off" /\ proc # "off" /\ born[t] # "no"
      /\ UNCHANGED <<proc, born, clean>>
  <2>1. run[t] # "off" /\ UNCHANGED <<proc, born, clean>>
    BY DEF Runner, Acquire, Leave, Open, Downloaded, Quit, Fail, HandOver, Complete, Release, Close,
           Clear, tables
  <2> QED
    BY <2>1 DEF CleanInv, Nothing, OffInv, Fresh
<1>1. PICK to \in PCs : /\ Moves(t, to)
                        /\ to \in {"work", "busy", "loaded"} =>
                             run[t] \in {"work", "busy", "loaded"} \/ rec[t] = "active"
                        /\ to \in {"work", "busy", "loaded"} => UNCHANGED rec
  <2>1. PICK to \in {"clear", "work", "parked", "busy", "loaded", "release", "handed", "close", "off"} :
          /\ Goes(t, to) \/ (WakesAnd(t, to) /\ to # "parked")
          /\ to \in {"work", "busy", "loaded"} =>
                             run[t] \in {"work", "busy", "loaded"} \/ rec[t] = "active"
          /\ to \in {"work", "busy", "loaded"} => UNCHANGED rec
    <3>1. CASE Acquire(t) \/ Open(t) \/ Downloaded(t)
      BY <3>1 DEF Acquire, Open, Downloaded, Active, tables
    <3>2. CASE Leave(t) \/ Quit(t) \/ Fail(t) \/ HandOver(t) \/ Complete(t)
      BY <3>2 DEF Leave, Quit, Fail, HandOver, Complete
    <3>3. CASE Release(t) \/ Close(t) \/ Clear(t)
      BY <3>3 DEF Release, Close, Clear
    <3> QED
      BY <3>1, <3>2, <3>3 DEF Runner
  <2>2. to \in PCs
    BY DEF PCs, Waiting, Granted
  <2> QED
    BY <2>1, <2>2, GoesMoves DEF OffInv
<1>2. \A u \in Tasks : u # t => run'[u] = run[u] \/ run'[u] = "acquire"
  BY <1>1 DEF Moves
<1>3. /\ \A u \in Tasks : u # t => rec'[u] = rec[u] /\ upload'[u] = upload[u]
      /\ rec'[t] = "active" => rec[t] = "active"
      /\ upload'[t] = "active" => upload[t] = "active" \/ rec[t] = "active"
  <2>1. CASE UNCHANGED <<rec, upload>>
    BY <2>1
  <2>2. CASE Fail(t) \/ Complete(t)
    <3>1. upload' = upload /\ \E s \in {"failed", "none", "success"} : rec' = [rec EXCEPT ![t] = s]
      BY <2>2 DEF Fail, Complete, Becomes
    <3> QED
      BY <3>1 DEF OffInv, Typed
  <2>3. CASE HandOver(t)
    <3>1. run[t] = "loaded" /\ rec[t] = "active"
      BY <2>3 DEF HandOver, CleanInv, Working
    <3>2. /\ upload' = upload \/ upload' = [upload EXCEPT ![t] = "active"]
          /\ rec' = rec \/ rec' = [rec EXCEPT ![t] = "failed"]
      BY <2>3 DEF HandOver, Becomes
    <3> QED
      BY <3>1, <3>2 DEF OffInv, Typed
  <2> QED
    BY <2>1, <2>2, <2>3 DEF Runner, Acquire, Leave, Open, Downloaded, Quit, Release, Close, Clear, tables
<1>4. Seen'
  BY <1>0, <1>3, SeenStays DEF CleanInv
<1>5. Working'
  <2> SUFFICES ASSUME NEW u \in Tasks, run'[u] \in {"work", "busy", "loaded"} PROVE rec'[u] = "active"
    BY DEF Working
  <2>1. CASE u = t
    BY <1>1, <2>1 DEF Moves, CleanInv, Working
  <2>2. CASE u # t
    BY <1>2, <1>3, <2>2 DEF CleanInv, Working
  <2> QED BY <2>1, <2>2
<1>6. Taken'
  BY <1>0, <1>3 DEF CleanInv, Taken
<1> QED
  BY <1>0, <1>4, <1>5, <1>6 DEF CleanInv, Nothing

LEMMA CleanProcess ==
  ASSUME OffInv, CleanInv, Boot \/ Start \/ Launch \/ Stop \/ Off PROVE CleanInv'
<1>1. CASE Boot
  <2>1. proc' = "boot" /\ UNCHANGED <<born, upload, run, clean>> /\ clean.at = "idle"
        /\ \A t \in Tasks : run[t] = "off"
    BY <1>1 DEF Boot, CleanInv, Nothing
  <2> QED
    BY <2>1 DEF CleanInv, Working, Taken, Nothing, Seen
<1>2. CASE Start
  <2>1. proc' = "up" /\ UNCHANGED <<rec, born, upload, run>> /\ clean'.at = "tasks"
    BY <1>2 DEF Start, tables
  <2> QED
    BY <2>1 DEF CleanInv, Working, Taken, Nothing, Seen
<1>3. CASE Launch
  <2>1. /\ UNCHANGED <<rec, born, upload, clean, proc>> /\ proc # "off"
        /\ \A t \in Tasks : run'[t] \in {"acquire", run[t]}
    BY <1>3 DEF Launch, tables
  <2> QED
    BY <2>1, CleanKept
<1>4. CASE Stop
  <2>1. UNCHANGED <<rec, born, upload, clean, run>> /\ proc' # "off"
    BY <1>4 DEF Stop, tables
  <2> QED
    BY <2>1, CleanKept DEF CleanInv, Working
<1>5. CASE Off
  <2>1. /\ UNCHANGED <<born, upload>> /\ clean'.at = "idle"
        /\ \A t \in Tasks : run'[t] = "off"
    BY <1>5 DEF Off, NoClean
  <2> QED
    BY <2>1 DEF CleanInv, Working, Taken, Nothing, Seen
<1> QED
  BY <1>1, <1>2, <1>3, <1>4, <1>5

LEMMA CleanTables ==
  ASSUME OffInv, CleanInv, NEW t \in Tasks, Add(t) \/ Uploaded(t) \/ Delete(t) \/ DeleteGoesOn(t)
  PROVE  CleanInv'
<1>1. CASE Add(t)
  <2>1. /\ proc = "up" /\ proc' = "up" /\ born[t] = "no" /\ UNCHANGED <<upload, clean>>
        /\ \A u \in Tasks : u # t => rec'[u] = rec[u] /\ born'[u] = born[u] /\ run'[u] = run[u]
        /\ born'[t] = "live" /\ run'[t] = "acquire"
    BY <1>1 DEF Add, Becomes, Goes, OffInv, Typed
  <2>2. Seen'
    BY <2>1, SeenStays DEF CleanInv
  <2> QED
    BY <2>1, <2>2 DEF CleanInv, Working, Taken, Nothing
<1>2. CASE Uploaded(t)
  <2>1. /\ UNCHANGED <<proc, rec, born, run, clean>> /\ upload[t] = "active"
        /\ \A u \in Tasks : upload'[u] = IF u = t THEN "done" ELSE upload[u]
    BY <1>2 DEF Uploaded, OffInv, Typed
  <2>2. Seen'
    BY <2>1, SeenStays DEF CleanInv
  <2> QED
    BY <2>1, <2>2 DEF CleanInv, Working, Taken, Nothing
<1>3. CASE Delete(t)
  <2>1. /\ UNCHANGED <<proc, rec, born, upload, clean>> /\ proc = "up"
        /\ \A u \in Tasks : run'[u] \in {"acquire", run[u]}
    BY <1>3 DEF Delete, tables, Woken
  <2> QED
    BY <2>1, CleanKept
<1>4. CASE DeleteGoesOn(t)
  <2>1. /\ UNCHANGED <<proc, upload, run, clean>> /\ run[t] = "off"
        /\ \A u \in Tasks : /\ u # t => rec'[u] = rec[u] /\ born'[u] = born[u]
                            /\ born[u] # "no" => born'[u] # "no"
        /\ rec'[t] = "none"
    BY <1>4 DEF DeleteGoesOn, Becomes, OffInv, Typed
  <2>2. Seen'
    BY <2>1, SeenStays DEF CleanInv
  <2> QED
    BY <2>1, <2>2 DEF CleanInv, Working, Taken, Nothing
<1> QED
  BY <1>1, <1>2, <1>3, <1>4

LEMMA CleanerStep == ASSUME OffInv, CleanInv, CleanTick \/ Cleaner PROVE CleanInv'
<1>1. UNCHANGED <<proc, rec, born, upload, run>>
  BY DEF CleanTick, Cleaner, CleanTasks, CleanUploads, CleanRemove, tables
<1>2. CASE CleanTick \/ CleanRemove
  <2>1. clean'.at \in {"tasks", "idle"} /\ proc = "off" => clean'.at = "idle"
    BY <1>2 DEF CleanTick, CleanRemove, CleanStep, NoClean
  <2> QED
    BY <1>1, <1>2, <2>1 DEF CleanTick, CleanRemove, CleanStep, NoClean, CleanInv, Working, Taken, Nothing, Seen
<1>3. CASE CleanTasks
  <2>1. clean.at = "tasks" /\ clean'.at = "uploads" /\ clean'.keep = KeptRecords /\ clean'.known = Known
    BY <1>3 DEF CleanTasks, CleanStep, Kept
  <2>2. \A t \in Known : /\ t \in Tasks /\ born[t] # "no"
                         /\ rec[t] = "active" => t \in KeptRecords
    BY DEF Known, KeptRecords, CleanInv, Taken, OffInv, Fresh
  <2>3. Seen'
    BY <1>1, <2>1, <2>2 DEF Seen
  <2> QED
    BY <1>1, <2>1, <2>3 DEF CleanInv, Working, Taken, Nothing
<1>4. CASE CleanUploads
  <2>1. /\ clean.at = "uploads" /\ clean'.at = "remove" /\ clean'.keep = clean.keep \cup KeptUploads
        /\ clean'.known = clean.known
    BY <1>4 DEF CleanUploads, CleanStep, Kept
  <2>2. Seen'
    BY <1>1, <2>1 DEF CleanInv, Seen, KeptUploads
  <2> QED
    BY <1>1, <2>1, <2>2 DEF CleanInv, Working, Taken, Nothing
<1> QED
  BY <1>2, <1>3, <1>4 DEF Cleaner

LEMMA CleanSavers ==
  ASSUME OffInv, CleanInv, NEW c \in Savers,
         SaveCloses(c) \/ \E l \in 1..MaxLimit, p \in BOOLEAN : Save(c, l, p)
  PROVE  CleanInv'
<1>1. UNCHANGED <<proc, rec, born, upload, clean>> /\ \A u \in Tasks : run'[u] \in {"acquire", run[u]}
  BY DEF SaveCloses, Save, tables, Woken
<1>2. proc = "off" => run' = run
  <2> SUFFICES ASSUME proc = "off" PROVE run' = run
    OBVIOUS
  <2>1. \A u \in Tasks : run[u] = "off"
    BY DEF CleanInv, Nothing
  <2>2. run' = Woken(run)
    BY DEF Save, SaveCloses
  <2> QED
    BY <2>1, <2>2 DEF Woken, OffInv, Typed
<1> QED
  BY <1>1, <1>2, CleanKept

LEMMA CleanNext == ASSUME OffInv, CleanInv, [Next]_vars PROVE CleanInv'
<1>1. CASE Next
  BY <1>1, CleanRunner, CleanProcess, CleanTables, CleanerStep, CleanSavers DEF Next
<1>2. CASE UNCHANGED vars
  <2>1. UNCHANGED <<proc, rec, born, upload, run, clean>>
    BY <1>2 DEF vars, tables
  <2> QED
    BY <2>1, CleanKept DEF CleanInv, Working
<1> QED
  BY <1>1, <1>2

\* A clean-up removes no directory that a task it could know of still needs: what it
\* does not find among the uploads was handed over after it had found the record
\* (activeBuiltinTempPaths and CleanupBuiltinTempDirs look at the records first).
THEOREM CleanUpsKeepData == Spec => CleanUpKeepsData
<1>1. Init => CleanInv
  BY DEF Init, CleanInv, Working, Taken, Nothing, Seen, NoClean
<1>2. OffInv /\ CleanInv /\ [Next]_vars =>
        [CleanRemove => \A t \in clean.known :
           (rec[t] = "active" \/ upload[t] = "active") /\ t \in dir => t \in dir']_vars
  <2> SUFFICES ASSUME CleanInv, CleanRemove, NEW t \in clean.known,
                      rec[t] = "active" \/ upload[t] = "active", t \in dir
               PROVE  t \in dir'
    OBVIOUS
  <2> QED
    BY DEF CleanInv, Seen, CleanRemove
<1>3. OffInv /\ CleanInv /\ [Next]_vars => CleanInv'
  BY CleanNext
<1> QED
  BY <1>1, <1>2, <1>3, OffAlways, PTL DEF Spec, CleanUpKeepsData

=============================================================================

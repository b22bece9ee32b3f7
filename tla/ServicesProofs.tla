--------------------------- MODULE ServicesProofs ---------------------------
(***************************************************************************)
(* Proofs about the services of MCServices, for any publishers, closers,   *)
(* goroutines, files, pages and bounds: what the handlers of the bus see is *)
(* what was accepted, in that order, and Close waits for all of it; the    *)
(* cached list of a directory is never left stale; the application never   *)
(* starts on the files of two sides, and a restore ends with a result; one *)
(* loop checks the accounts; and the pages come to show the tasks.         *)
(***************************************************************************)
EXTENDS MCServices, FiniteSetTheorems, TLAPS

(***************************************************************************)
(* EventBus                                                                *)
(***************************************************************************)
\* BusAssumption, as the lemmas use it.
Sizes == Handlers \in Nat /\ Capacity \in Nat /\ Quota \in Nat

\* The queue is the part of the accepted events that was not taken yet.
Split ==
  /\ Len(accepted) = Len(taken) + Len(queue)
  /\ \A i \in 1..Len(taken) : accepted[i] = taken[i]
  /\ \A i \in 1..Len(queue) : accepted[Len(taken) + i] = queue[i]

\* The handlers before the one whose turn it is have seen the last event taken,
\* the others all but that one.
Seen(h) == IF turn # 0 /\ h >= turn THEN Len(taken) - 1 ELSE Len(taken)
Logged ==
  /\ turn # 0 => Len(taken) > 0
  /\ \A h \in 1..Handlers :
       /\ Len(log[h]) = Seen(h)
       /\ \A i \in 1..Len(log[h]) : log[h][i] = taken[i]

\* The dispatcher goes after a Close and with nothing left of what was accepted
\* before it.
Promise ==
  /\ run \in {"drain", "gone"} => closed
  /\ promised <= Len(accepted)
  /\ run = "gone" => turn = 0 /\ promised <= Len(taken)

Waited == \A c \in Closers : closer[c] = "closed" => run = "gone"
Numbered == \A p \in Publishers : pub[p] = "sending" => sent[p] > 0

BusInv == TypeOK /\ Split /\ Logged /\ Promise /\ Waited /\ Numbered

-----------------------------------------------------------------------------
LEMMA BusInit == ASSUME Sizes PROVE Init => BusInv
<1> SUFFICES ASSUME Init PROVE BusInv
  OBVIOUS
<1>1. TypeOK
  <2>1. <<>> \in Seq(Events) /\ Len(<<>>) = 0
    OBVIOUS
  <2>2. log \in [1..Handlers -> Seq(Events)]
    BY <2>1 DEF Init
  <2>3. pub \in [Publishers -> {"idle", "sending"}] /\ sent \in [Publishers -> 0..Quota]
        /\ closer \in [Closers -> {"idle", "waiting", "closed"}]
    BY DEF Init, Sizes
  <2>4. 0 \in Nat /\ 0 <= Capacity /\ 0 \in 0..Handlers
    BY DEF Sizes
  <2> QED
    BY <2>1, <2>2, <2>3, <2>4 DEF Init, TypeOK
<1>4. Split
  BY DEF Init, Split
<1>2. Logged
  BY DEF Init, Logged, Seen, Sizes
<1>3. Promise /\ Waited /\ Numbered
  BY DEF Init, Promise, Waited, Numbered
<1> QED
  BY <1>1, <1>2, <1>3, <1>4 DEF BusInv

LEMMA PublishStep ==
  ASSUME Sizes, BusInv, NEW p \in Publishers, Publish(p) PROVE BusInv'
<1> USE DEF BusInv, Publish
<1>1. TypeOK' /\ Numbered'
  BY DEF TypeOK, Numbered, Sizes, Events
<1>2. Split' /\ Logged' /\ Promise' /\ Waited'
  BY DEF Split, Logged, Seen, Promise, Waited
<1> QED
  BY <1>1, <1>2

LEMMA EnqueueStep ==
  ASSUME Sizes, BusInv, NEW p \in Publishers, Enqueue(p) PROVE BusInv'
<1> USE DEF BusInv, Enqueue
<1> DEFINE e == <<p, sent[p]>>
<1>1. e \in Events
  BY DEF TypeOK, Numbered, Events, Sizes
<1>2. queue' = Append(queue, e) /\ accepted' = Append(accepted, e)
  OBVIOUS
<1>3. /\ queue \in Seq(Events) /\ accepted \in Seq(Events) /\ taken \in Seq(Events)
      /\ Len(queue') = Len(queue) + 1 /\ Len(accepted') = Len(accepted) + 1
  BY <1>1, <1>2 DEF TypeOK
<1>4. TypeOK'
  BY <1>1, <1>2, <1>3 DEF TypeOK, Sizes
<1>5. Split'
  <2>1. /\ \A i \in 1..Len(queue) : queue'[i] = queue[i]
        /\ \A i \in 1..Len(accepted) : accepted'[i] = accepted[i]
        /\ queue'[Len(queue) + 1] = e /\ accepted'[Len(accepted) + 1] = e
    BY <1>1, <1>2, <1>3
  <2>2. Len(accepted) = Len(taken) + Len(queue)
    BY DEF Split
  <2>3. \A i \in 1..Len(taken') : accepted'[i] = taken'[i]
    BY <1>3, <2>1, <2>2 DEF Split
  <2>4. \A i \in 1..Len(queue') : accepted'[Len(taken') + i] = queue'[i]
    <3> TAKE i \in 1..Len(queue')
    <3>1. CASE i = Len(queue) + 1
      BY <1>3, <2>1, <2>2, <3>1
    <3>2. CASE i \in 1..Len(queue)
      <4>1. Len(taken) + i \in 1..Len(accepted)
        BY <1>3, <2>2, <3>2
      <4> QED BY <1>3, <2>1, <3>2, <4>1 DEF Split
    <3>3. Len(queue) \in Nat /\ i \in 1..(Len(queue) + 1)
      BY <1>3
    <3>4. i = Len(queue) + 1 \/ i \in 1..Len(queue)
      BY <3>3
    <3> QED BY <3>1, <3>2, <3>4
  <2>5. Len(accepted') = Len(taken') + Len(queue')
    BY <1>3, <2>2
  <2> QED
    BY <2>3, <2>4, <2>5 DEF Split
<1>6. Logged' /\ Waited' /\ Numbered'
  BY DEF Logged, Seen, Waited, Numbered, TypeOK
<1>7. Promise'
  BY <1>3 DEF Promise, TypeOK
<1> QED
  BY <1>4, <1>5, <1>6, <1>7

LEMMA TakeStep == ASSUME Sizes, BusInv, Take PROVE BusInv'
<1> USE DEF BusInv, Take
<1> DEFINE e == Head(queue)
<1>1. queue \in Seq(Events) /\ queue # <<>> /\ taken \in Seq(Events) /\ accepted \in Seq(Events)
  BY DEF TypeOK
<1>2. /\ e \in Events /\ e = queue[1] /\ Len(queue) > 0
      /\ queue' \in Seq(Events) /\ Len(queue') = Len(queue) - 1
      /\ \A i \in 1..Len(queue') : queue'[i] = queue[i + 1]
  BY <1>1
<1>3. /\ taken' \in Seq(Events) /\ Len(taken') = Len(taken) + 1
      /\ taken'[Len(taken) + 1] = e
      /\ \A i \in 1..Len(taken) : taken'[i] = taken[i]
  BY <1>1, <1>2
<1>4. TypeOK'
  BY <1>2, <1>3 DEF TypeOK, Sizes
<1>5. Split'
  <2>1. /\ Len(accepted) = Len(taken) + Len(queue) /\ accepted' = accepted
        /\ accepted[Len(taken) + 1] = e
    BY <1>1, <1>2 DEF Split
  <2>2. \A i \in 1..Len(taken') : accepted'[i] = taken'[i]
    <3> TAKE i \in 1..Len(taken')
    <3>1. Len(taken) \in Nat /\ (i \in 1..Len(taken) \/ i = Len(taken) + 1)
      BY <1>1, <1>3
    <3>2. CASE i \in 1..Len(taken)
      BY <1>3, <2>1, <3>2 DEF Split
    <3>3. CASE i = Len(taken) + 1
      BY <1>3, <2>1, <3>3
    <3> QED BY <3>1, <3>2, <3>3
  <2>3. \A i \in 1..Len(queue') : accepted'[Len(taken') + i] = queue'[i]
    <3> TAKE i \in 1..Len(queue')
    <3>1. i + 1 \in 1..Len(queue) /\ Len(taken') + i = Len(taken) + (i + 1)
      BY <1>1, <1>2, <1>3
    <3> QED BY <1>2, <2>1, <3>1 DEF Split
  <2>4. Len(accepted') = Len(taken') + Len(queue')
    <3>1. Len(taken) \in Nat /\ Len(queue) \in Nat
      BY <1>1
    <3> QED BY <1>2, <1>3, <2>1, <3>1
  <2> QED
    BY <2>2, <2>3, <2>4 DEF Split
<1>6. Logged'
  BY <1>1, <1>3 DEF Logged, Seen, TypeOK, Sizes
<1>7. Promise' /\ Waited' /\ Numbered'
  BY DEF Promise, Waited, Numbered
<1> QED
  BY <1>4, <1>5, <1>6, <1>7

LEMMA CallHandlerStep == ASSUME Sizes, BusInv, CallHandler PROVE BusInv'
<1> USE DEF BusInv, CallHandler
<1> DEFINE e == taken[Len(taken)]
<1>1. /\ taken \in Seq(Events) /\ Len(taken) > 0 /\ e \in Events
      /\ log \in [1..Handlers -> Seq(Events)] /\ turn \in 1..Handlers
  BY DEF TypeOK, Logged
<1>2. /\ log'[turn] = Append(log[turn], e) /\ Len(log[turn]) = Len(taken) - 1
      /\ \A h \in (1..Handlers) \ {turn} : log'[h] = log[h]
  BY <1>1 DEF Logged, Seen, Sizes
<1>3. log' \in [1..Handlers -> Seq(Events)]
  BY <1>1, <1>2
<1>4. TypeOK'
  BY <1>1, <1>3 DEF TypeOK, Sizes
<1>5. /\ log[turn] \in Seq(Events) /\ Len(log'[turn]) = Len(taken)
      /\ \A i \in 1..Len(log'[turn]) : log'[turn][i] = taken[i]
  BY <1>1, <1>2 DEF Logged
<1>6. Logged'
  <2>1. Len(taken') > 0 /\ taken' = taken
    BY <1>1
  <2> SUFFICES ASSUME NEW h \in 1..Handlers
               PROVE  /\ Len(log'[h]) = Seen(h)'
                      /\ \A i \in 1..Len(log'[h]) : log'[h][i] = taken[i]
    BY <2>1 DEF Logged
  <2>2. CASE h = turn
    <3>1. Seen(h)' = Len(taken)
      BY <1>1, <2>1, <2>2 DEF Seen, Sizes
    <3> QED BY <1>5, <2>2, <3>1
  <2>3. CASE h # turn
    <3>1. Seen(h)' = Seen(h)
      BY <1>1, <2>1, <2>3 DEF Seen, Sizes
    <3> QED BY <1>2, <2>3, <3>1 DEF Logged
  <2> QED BY <2>2, <2>3
<1>7. Split' /\ Promise' /\ Waited' /\ Numbered'
  BY SMTT(30) DEF Split, Promise, Waited, Numbered
<1> QED
  BY <1>4, <1>6, <1>7

LEMMA RunStep == ASSUME Sizes, BusInv, Drain \/ Exit PROVE BusInv'
<1> USE DEF BusInv
<1>1. UNCHANGED <<queue, closed, turn, pub, sent, closer, accepted, taken, log, promised>>
      /\ run' \in {"drain", "gone"} /\ run # "gone"
  BY DEF Drain, Exit
<1>3. TypeOK'
  BY <1>1 DEF TypeOK
<1>4. Split' /\ Logged' /\ Waited' /\ Numbered'
  BY <1>1 DEF Split, Logged, Seen, Waited, Numbered
<1>2. Promise'
  <2>1. queue = <<>> => Len(accepted) = Len(taken)
    BY DEF Split, TypeOK
  <2> QED
    BY <2>1 DEF Drain, Exit, Promise
<1> QED
  BY <1>2, <1>3, <1>4

LEMMA CloseStep ==
  ASSUME Sizes, BusInv, NEW c \in Closers, Close(c) \/ Closed(c) \/ GivesUp(c)
  PROVE  BusInv'
<1> USE DEF BusInv
<1>1. TypeOK'
  <2>1. closer' \in [Closers -> {"idle", "waiting", "closed"}]
    BY DEF Close, Closed, GivesUp, TypeOK
  <2>2. closed' \in BOOLEAN /\ promised' \in Nat
    <3>1. closed' = TRUE \/ closed' = closed
      BY DEF Close, Closed, GivesUp
    <3>2. promised' = promised \/ promised' = Len(accepted)
      BY DEF Close, Closed, GivesUp
    <3>3. closed \in BOOLEAN /\ promised \in Nat /\ Len(accepted) \in Nat
      BY DEF TypeOK
    <3> QED BY <3>1, <3>2, <3>3
  <2>3. UNCHANGED <<queue, run, turn, pub, sent, accepted, taken, log>>
    BY DEF Close, Closed, GivesUp
  <2> QED
    BY <2>1, <2>2, <2>3 DEF TypeOK
<1>2. Split' /\ Logged' /\ Numbered'
  <2>1. UNCHANGED <<queue, run, turn, pub, sent, accepted, taken, log>>
    BY DEF Close, Closed, GivesUp
  <2> QED
    BY <2>1 DEF Split, Logged, Seen, Numbered
<1>3. Promise'
  <2>1. promised' <= Len(accepted') /\ (promised' = promised \/ ~closed)
    BY DEF Close, Closed, GivesUp, Promise, TypeOK
  <2> QED
    BY <2>1 DEF Close, Closed, GivesUp, Promise, TypeOK
<1>4. Waited'
  BY DEF Close, Closed, GivesUp, Waited, TypeOK
<1> QED
  BY <1>1, <1>2, <1>3, <1>4

LEMMA BusNext == ASSUME Sizes PROVE BusInv /\ [Next]_vars => BusInv'
<1> SUFFICES ASSUME BusInv, [Next]_vars PROVE BusInv'
  OBVIOUS
<1>1. CASE \E p \in Publishers : Publish(p) \/ Enqueue(p) \/ Discard(p)
  <2>1. ASSUME NEW p \in Publishers, Discard(p) PROVE BusInv'
    BY <2>1 DEF Discard, BusInv, TypeOK, Split, Logged, Seen, Promise, Waited, Numbered
  <2> QED
    BY <1>1, <2>1, PublishStep, EnqueueStep
<1>2. CASE Dispatch
  BY <1>2, TakeStep, CallHandlerStep, RunStep DEF Dispatch
<1>3. CASE \E c \in Closers : Close(c) \/ Closed(c) \/ GivesUp(c)
  BY <1>3, CloseStep
<1>4. CASE UNCHANGED vars
  BY <1>4 DEF vars, BusInv, TypeOK, Split, Logged, Seen, Promise, Waited, Numbered
<1> QED
  BY <1>1, <1>2, <1>3, <1>4 DEF Next

LEMMA BusInvariant == Spec => []BusInv
<1>0. Sizes
  BY BusAssumption DEF Sizes
<1>1. Init => BusInv
  BY <1>0, BusInit
<1>2. BusInv /\ [Next]_vars => BusInv'
  BY <1>0, BusNext
<1> QED
  BY <1>1, <1>2, PTL DEF Spec

-----------------------------------------------------------------------------
\* Every handler is called with the accepted events, in their order and none left
\* out, whatever panics (dispatch and safeCall of bus.go).
THEOREM HandlersSeeEventsInOrder == Spec => []InOrder
<1>1. BusInv => InOrder
  <2> SUFFICES ASSUME BusInv, NEW h \in 1..Handlers PROVE IsPrefix(log[h], accepted)
    BY DEF InOrder
  <2> DEFINE s == log[h]
  <2>1. s \in Seq(Events) /\ accepted \in Seq(Events) /\ taken \in Seq(Events)
    BY DEF BusInv, TypeOK
  <2>2. Len(s) <= Len(taken) /\ Len(taken) <= Len(accepted)
    BY <2>1 DEF BusInv, TypeOK, Split, Logged, Seen
  <2>3. \A i \in 1..Len(s) : s[i] = accepted[i]
    BY <2>1, <2>2 DEF BusInv, Split, Logged
  <2>4. SubSeq(s, 1, Len(s)) = SubSeq(accepted, 1, Len(s))
    BY <2>1, <2>2, <2>3
  <2> QED
    BY <2>1, <2>2, <2>4 DEF IsPrefix
<1> QED
  BY <1>1, BusInvariant, PTL

\* When the dispatcher has gone, every event accepted before Close was called has
\* been handled by every handler (Close and drain of bus.go).
THEOREM CloseDrainsTheQueue == Spec => []DrainedAtClose
<1>1. BusInv => DrainedAtClose
  BY DEF BusInv, Promise, Logged, Seen, TypeOK, DrainedAtClose
<1> QED
  BY <1>1, BusInvariant, PTL

\* After a Close that has returned no handler is called (bus.go:112).
THEOREM NoHandlerAfterClose == Spec => QuietAfterClose
<1>1. BusInv /\ [Next]_vars
        => [\A c \in Closers : closer[c] = "closed" => UNCHANGED log]_vars
  <2> SUFFICES ASSUME BusInv, Next, NEW c \in Closers, closer[c] = "closed"
               PROVE  log' = log
    OBVIOUS
  <2>1. run = "gone" /\ turn = 0
    BY DEF BusInv, Waited, Promise
  <2> QED
    BY <2>1 DEF Next, Publish, Enqueue, Discard, Dispatch, Take, CallHandler, Drain,
                Exit, Close, Closed, GivesUp, vars
<1> QED
  BY <1>1, BusInvariant, PTL DEF Spec, QuietAfterClose

(***************************************************************************)
(* FileCache                                                               *)
(***************************************************************************)
\* The one that loads has the call, and what is to be stored is a list.
CacheShape ==
  /\ \A r \in CacheReaders :
       cacheReader[r] \in Cache!Loading => cacheCall # Cache!NoCall
  /\ \A r, s \in CacheReaders :
       cacheReader[r] \in Cache!Loading /\ cacheReader[s] \in Cache!Loading => r = s
  /\ \A a \in Cache!Appliers :
       cacheWriter[a].at \in {"upsert", "store"} => cacheWriter[a].base \in SUBSET CacheNames

\* Something is on its way that drops the list, or stores one and notes whether it
\* is right: a writer that has not published yet, an event, the bus before it has.
CacheHeals ==
  \/ cacheQueue # <<>>
  \/ \E w \in CacheWriters : cacheWriter[w].at # "idle"
  \/ cacheWriter[CacheBus].at \in {"apply", "upsert", "store"}

CacheFresh == cacheCached # NoList /\ ~cacheLate => cacheCached = cacheRemote \/ CacheHeals

CacheInv == Cache!TypeOK /\ CacheShape /\ CacheFresh

LEMMA CacheRecords ==
  ASSUME NEW c \in [at : {"run", "done"}, list : Cache!Lists]
  PROVE  /\ c # Cache!NoCall /\ c.list \in Cache!Lists
         /\ \A x \in Cache!Lists : [c EXCEPT !.list = x] \in [at : {"run", "done"}, list : Cache!Lists]
         /\ [c EXCEPT !.at = "done"] \in [at : {"run", "done"}, list : Cache!Lists]
<1>1. c.at \in {"run", "done"} /\ Cache!NoCall.at = "none"
  BY DEF Cache!NoCall
<1> QED
  BY <1>1

LEMMA CacheInit == Cache!Init => CacheInv
<1> SUFFICES ASSUME Cache!Init PROVE CacheInv
  OBVIOUS
<1> USE DEF Cache!Init
<1>1. Cache!TypeOK
  <2>1. cacheWrites \in 0..CacheChanges
    BY ServicesAssumption
  <2>2. cacheQueue \in Seq(Cache!Changes)
    OBVIOUS
  <2>3. cacheReader \in [CacheReaders -> {"idle", "check", "lookup", "join", "wait"} \cup Cache!Loading]
    OBVIOUS
  <2>4. cacheRemote \subseteq CacheNames /\ cacheCached \in Cache!Lists /\ cacheDisk \in Cache!Lists
    BY DEF Cache!Lists
  <2>5. cacheWriter \in [Cache!Appliers -> [at : {"idle"}] \cup
              [at : {"apply", "upsert", "store", "thaw", "fence", "publish"}, change : Cache!Changes, base : Cache!Lists]]
    BY DEF Cache!Done
  <2> QED
    BY <2>1, <2>2, <2>3, <2>4, <2>5 DEF Cache!TypeOK
<1>2. CacheShape
  BY DEF CacheShape, Cache!Loading, Cache!Done, Cache!Appliers
<1> QED
  BY <1>1, <1>2 DEF CacheInv, CacheFresh

\* A reader that goes on and is not among those that load afterwards, unless it was.
LEMMA CacheReads ==
  ASSUME Cache!TypeOK, CacheShape, NEW r \in CacheReaders,
         NEW s \in {"idle", "check", "lookup", "join", "wait"} \cup Cache!Loading,
         Cache!Goto(r, s), UNCHANGED cacheWriter,
         s \in Cache!Loading => /\ cacheCall' # Cache!NoCall
                                /\ cacheReader[r] \in Cache!Loading \/ cacheCall = Cache!NoCall,
         cacheCall' # cacheCall => cacheReader[r] \in Cache!Loading \/ cacheCall = Cache!NoCall
  PROVE  /\ cacheReader' \in [CacheReaders -> {"idle", "check", "lookup", "join", "wait"} \cup Cache!Loading]
         /\ CacheShape'
<1>1. /\ cacheReader' \in [CacheReaders -> {"idle", "check", "lookup", "join", "wait"} \cup Cache!Loading]
      /\ cacheReader'[r] = s /\ \A q \in CacheReaders \ {r} : cacheReader'[q] = cacheReader[q]
  BY DEF Cache!TypeOK, Cache!Goto
<1>2. \A q, p \in CacheReaders : cacheReader'[q] \in Cache!Loading /\ cacheReader'[p] \in Cache!Loading => q = p
  BY <1>1 DEF CacheShape
<1>3. \A q \in CacheReaders : cacheReader'[q] \in Cache!Loading => cacheCall' # Cache!NoCall
  BY <1>1 DEF CacheShape
<1> QED
  BY <1>1, <1>2, <1>3 DEF CacheShape, Cache!Appliers

\* The list is dropped, is as it was, or is stored with a note whether it is right.
CacheStores ==
  \/ cacheCached' = NoList
  \/ cacheCached' = cacheCached /\ (cacheLate => cacheLate')
  \/ cacheLate' = (cacheCached' # cacheRemote')

LEMMA CacheReaderKeeps ==
  ASSUME CacheInv, NEW r \in CacheReaders,
         NEW s \in {"idle", "check", "lookup", "join", "wait"} \cup Cache!Loading,
         Cache!Goto(r, s), UNCHANGED Cache!writerVars, UNCHANGED <<cacheCooling, cacheDisk>>,
         s \in Cache!Loading => /\ cacheCall' # Cache!NoCall
                                /\ cacheReader[r] \in Cache!Loading \/ cacheCall = Cache!NoCall,
         cacheCall' # cacheCall => cacheReader[r] \in Cache!Loading \/ cacheCall = Cache!NoCall,
         cacheCall' = Cache!NoCall \/ cacheCall' \in [at : {"run", "done"}, list : Cache!Lists],
         cacheCached' \in Cache!Lists, cacheLate' \in BOOLEAN, CacheStores
  PROVE  CacheInv'
<1>1. /\ cacheReader' \in [CacheReaders -> {"idle", "check", "lookup", "join", "wait"} \cup Cache!Loading]
      /\ CacheShape'
  BY CacheReads DEF CacheInv, Cache!writerVars
<1>2. Cache!TypeOK'
  BY <1>1 DEF CacheInv, Cache!TypeOK, Cache!writerVars
<1>3. CacheHeals' = CacheHeals /\ cacheRemote' = cacheRemote
  BY DEF CacheHeals, Cache!writerVars
<1>4. CacheFresh'
  BY <1>3 DEF CacheInv, CacheFresh, CacheStores
<1> QED
  BY <1>1, <1>2, <1>4 DEF CacheInv

LEMMA CacheReaderStep ==
  ASSUME CacheInv, NEW r \in CacheReaders,
         (\E forced \in BOOLEAN : Cache!Begin(r, forced)) \/ Cache!Read(r)
  PROVE  CacheInv'
<1>0. /\ cacheCached \in Cache!Lists /\ NoList \in Cache!Lists /\ cacheRemote \in Cache!Lists
      /\ cacheCall = Cache!NoCall \/ cacheCall \in [at : {"run", "done"}, list : Cache!Lists]
      /\ cacheLate \in BOOLEAN
  BY DEF CacheInv, Cache!TypeOK, Cache!Lists
<1>l. Cache!Loading = {"again", "fetch", "set", "close", "drop"}
  BY DEF Cache!Loading
<1>c. cacheReader[r] \in Cache!Loading =>
        cacheCall # Cache!NoCall /\ cacheCall \in [at : {"run", "done"}, list : Cache!Lists]
  BY <1>0 DEF CacheInv, CacheShape
<1>1. CASE \E forced \in BOOLEAN : Cache!Begin(r, forced)
  <2>1. /\ Cache!Goto(r, "check") /\ UNCHANGED Cache!writerVars
        /\ UNCHANGED <<cacheCooling, cacheCall, cacheDisk>> /\ cacheLate' \in BOOLEAN
        /\ cacheCached' = NoList \/ (cacheCached' = cacheCached /\ (cacheLate => cacheLate'))
    BY <1>0, <1>1 DEF Cache!Begin
  <2> QED
    BY <1>0, <1>l, <2>1, CacheReaderKeeps DEF CacheStores
<1>2. CASE \/ Cache!Check(r) \/ Cache!Lookup(r)
           \/ Cache!Join(r) /\ cacheCall # Cache!NoCall
  <2>1. PICK s \in {"idle", "lookup", "join", "wait"} :
          /\ Cache!Goto(r, s) /\ UNCHANGED Cache!writerVars
          /\ UNCHANGED <<cacheCached, cacheCooling, cacheCall, cacheDisk, cacheLate>>
    BY <1>2 DEF Cache!Check, Cache!Lookup, Cache!Join, Cache!MayLoad, Cache!cacheVars
  <2> QED
    BY <1>0, <1>l, <2>1, CacheReaderKeeps DEF CacheStores
<1>3. CASE Cache!Join(r) /\ cacheCall = Cache!NoCall
  <2>1. /\ Cache!Goto(r, "again") /\ UNCHANGED Cache!writerVars
        /\ UNCHANGED <<cacheCached, cacheCooling, cacheDisk, cacheLate>>
        /\ cacheCall' = [at |-> "run", list |-> NoList]
    BY <1>3 DEF Cache!Join, Cache!MayLoad, Cache!cacheVars
  <2>2. cacheCall' \in [at : {"run", "done"}, list : Cache!Lists]
    BY <1>0, <2>1
  <2> QED
    BY <1>0, <1>3, <1>l, <2>1, <2>2, CacheRecords, CacheReaderKeeps DEF CacheStores
<1>4. CASE Cache!LookAgain(r) \/ Cache!Fetch(r)
  <2>1. /\ cacheReader[r] \in Cache!Loading /\ UNCHANGED Cache!writerVars
        /\ UNCHANGED <<cacheCached, cacheCooling, cacheDisk, cacheLate>>
        /\ \E s \in {"close", "fetch", "set"} : Cache!Goto(r, s)
        /\ \/ cacheCall' = cacheCall
           \/ \E x \in Cache!Lists : cacheCall' = [cacheCall EXCEPT !.list = x]
    BY <1>0, <1>4, <1>l DEF Cache!LookAgain, Cache!Fetch, Cache!cacheVars
  <2>2. cacheCall' # Cache!NoCall /\ cacheCall' \in [at : {"run", "done"}, list : Cache!Lists]
    BY <1>c, <2>1, CacheRecords
  <2> QED
    BY <1>0, <1>l, <2>1, <2>2, CacheReaderKeeps DEF CacheStores
<1>5. CASE Cache!Set(r)
  <2>1. /\ cacheReader[r] \in Cache!Loading /\ UNCHANGED Cache!writerVars
        /\ UNCHANGED <<cacheCall, cacheCooling, cacheDisk>> /\ Cache!Goto(r, "close")
        /\ cacheCached' = cacheCall.list /\ cacheLate' = (cacheCall.list # cacheRemote)
        /\ cacheRemote' = cacheRemote
    BY <1>5, <1>l DEF Cache!Set, Cache!writerVars
  <2>2. cacheCached' \in Cache!Lists /\ cacheLate' \in BOOLEAN
    BY <1>c, <2>1, CacheRecords
  <2> QED
    BY <1>c, <1>l, <2>1, <2>2, CacheReaderKeeps DEF CacheStores
<1>6. CASE Cache!Drop(r)
  <2>1. /\ cacheReader[r] \in Cache!Loading /\ UNCHANGED Cache!writerVars
        /\ UNCHANGED <<cacheCached, cacheCooling, cacheDisk, cacheLate>>
        /\ cacheCall' = Cache!NoCall /\ Cache!Goto(r, "idle")
    BY <1>6, <1>l DEF Cache!Drop, Cache!cacheVars
  <2> QED
    BY <1>0, <1>l, <2>1, CacheReaderKeeps DEF CacheStores
<1>7. CASE Cache!Close(r)
  <2>1. /\ cacheReader[r] = "close" /\ UNCHANGED Cache!writerVars
        /\ UNCHANGED <<cacheCached, cacheCooling, cacheDisk, cacheLate>>
        /\ cacheCall' = [cacheCall EXCEPT !.at = "done"]
        /\ cacheReader' = [Cache!Answered EXCEPT ![r] = "drop"]
    BY <1>7 DEF Cache!Close, Cache!cacheVars
  <2>2. cacheCall' # Cache!NoCall /\ cacheCall' \in [at : {"run", "done"}, list : Cache!Lists]
    BY <1>c, <1>l, <2>1, CacheRecords
  <2>3. /\ cacheReader \in [CacheReaders -> {"idle", "check", "lookup", "join", "wait"} \cup Cache!Loading]
        /\ \A q \in CacheReaders :
             cacheReader'[q] = IF q = r THEN "drop"
                               ELSE IF cacheReader[q] = "wait" THEN "idle" ELSE cacheReader[q]
    BY <2>1 DEF CacheInv, Cache!TypeOK, Cache!Answered
  <2>4. cacheReader' \in [CacheReaders -> {"idle", "check", "lookup", "join", "wait"} \cup Cache!Loading]
    BY <1>l, <2>1, <2>3 DEF Cache!Answered
  <2>5. CacheShape'
    <3>1. \A q \in CacheReaders : cacheReader'[q] \in Cache!Loading => cacheReader[q] \in Cache!Loading
      BY <1>l, <2>1, <2>3
    <3>2. cacheWriter' = cacheWriter
      BY <2>1 DEF Cache!writerVars
    <3> QED
      BY <2>2, <3>1, <3>2 DEF CacheInv, CacheShape, Cache!Appliers
  <2>6. Cache!TypeOK'
    BY <2>1, <2>2, <2>4 DEF CacheInv, Cache!TypeOK, Cache!writerVars
  <2>7. CacheFresh'
    BY <2>1 DEF CacheInv, CacheFresh, CacheHeals, Cache!writerVars
  <2> QED
    BY <2>5, <2>6, <2>7 DEF CacheInv
<1> QED
  BY <1>1, <1>2, <1>3, <1>4, <1>5, <1>6, <1>7 DEF Cache!Read, Cache!Load

-----------------------------------------------------------------------------
CacheSteps == [at : {"idle"}] \cup [at : {"apply", "upsert", "store", "thaw", "fence", "publish"},
                                    change : Cache!Changes, base : Cache!Lists]

LEMMA CacheStepRecords ==
  /\ Cache!Done \in CacheSteps /\ Cache!Done.at = "idle" /\ NoList \in Cache!Lists
  /\ \A s \in CacheSteps : /\ s.at = "idle" <=> s = Cache!Done
                           /\ s.at # "idle" => s.change \in Cache!Changes /\ s.base \in Cache!Lists
  /\ \A at \in {"apply", "upsert", "store", "thaw", "fence", "publish"}, c \in Cache!Changes, b \in Cache!Lists :
       [at |-> at, change |-> c, base |-> b] \in CacheSteps
BY DEF CacheSteps, Cache!Done, Cache!Lists

\* A writer or the bus goes on.
LEMMA CacheWriterGoes ==
  ASSUME CacheInv, NEW a \in Cache!Appliers, NEW s \in CacheSteps, Cache!Step(a, s),
         s.at \in {"upsert", "store"} => s.base \in SUBSET CacheNames,
         UNCHANGED Cache!readerVars,
         cacheRemote' \subseteq CacheNames, cacheCached' \in Cache!Lists,
         cacheCooling' \in BOOLEAN, cacheLate' \in BOOLEAN,
         cacheQueue' \in Seq(Cache!Changes), cacheWrites' \in 0..CacheChanges
  PROVE  /\ Cache!TypeOK' /\ CacheShape'
         /\ cacheWriter'[a] = s /\ \A b \in Cache!Appliers \ {a} : cacheWriter'[b] = cacheWriter[b]
<1>1. cacheWriter \in [Cache!Appliers -> CacheSteps]
  BY DEF CacheInv, Cache!TypeOK, CacheSteps
<1>2. /\ cacheWriter' \in [Cache!Appliers -> CacheSteps]
      /\ cacheWriter'[a] = s /\ \A b \in Cache!Appliers \ {a} : cacheWriter'[b] = cacheWriter[b]
  BY <1>1 DEF Cache!Step
<1>3. Cache!TypeOK'
  BY <1>2 DEF CacheInv, Cache!TypeOK, CacheSteps, Cache!readerVars
<1>4. CacheShape'
  BY <1>2 DEF CacheInv, CacheShape, Cache!readerVars
<1> QED
  BY <1>2, <1>3, <1>4

LEMMA CacheWrite ==
  ASSUME CacheInv, NEW w \in CacheWriters, NEW c \in Cache!Changes, Cache!Write(w, c)
  PROVE  CacheInv'
<1> DEFINE s == [at |-> "apply", change |-> c, base |-> NoList]
<1>1. s \in CacheSteps /\ s.at = "apply"
  BY CacheStepRecords
<1>2. /\ w \in Cache!Appliers /\ c.name \in CacheNames /\ c.op \in {"create", "delete"}
      /\ cacheRemote \subseteq CacheNames /\ cacheWrites \in 0..CacheChanges
      /\ cacheQueue \in Seq(Cache!Changes) /\ cacheCached \in Cache!Lists
      /\ cacheCooling \in BOOLEAN /\ cacheLate \in BOOLEAN
  BY DEF CacheInv, Cache!TypeOK, Cache!Appliers, Cache!Changes
<1>3. /\ Cache!Step(w, s) /\ UNCHANGED Cache!readerVars
      /\ UNCHANGED <<cacheCached, cacheCooling, cacheQueue, cacheLate>>
      /\ cacheWrites < CacheChanges /\ cacheWrites' = cacheWrites + 1
      /\ cacheRemote' = cacheRemote \cup {c.name} \/ cacheRemote' = cacheRemote \ {c.name}
  BY DEF Cache!Write, Cache!cacheVars
<1>4. cacheRemote' \subseteq CacheNames /\ cacheWrites' \in 0..CacheChanges
  BY <1>2, <1>3, ServicesAssumption
<1> HIDE DEF s
<1>5. Cache!TypeOK' /\ CacheShape' /\ cacheWriter'[w].at # "idle"
  BY <1>1, <1>2, <1>3, <1>4, CacheWriterGoes
<1> QED
  BY <1>5 DEF CacheInv, CacheFresh, CacheHeals

LEMMA CacheDeliver == ASSUME CacheInv, Cache!Deliver PROVE CacheInv'
<1> DEFINE s == [at |-> "apply", change |-> Head(cacheQueue), base |-> NoList]
<1>2. /\ CacheBus \in Cache!Appliers /\ cacheRemote \subseteq CacheNames
      /\ cacheWrites \in 0..CacheChanges
      /\ cacheQueue \in Seq(Cache!Changes) /\ cacheCached \in Cache!Lists
      /\ cacheCooling \in BOOLEAN /\ cacheLate \in BOOLEAN
  BY DEF CacheInv, Cache!TypeOK, Cache!Appliers
<1>3. /\ Cache!Step(CacheBus, s) /\ UNCHANGED Cache!readerVars /\ cacheQueue # <<>>
      /\ UNCHANGED <<cacheRemote, cacheCached, cacheCooling, cacheWrites, cacheLate>>
      /\ cacheQueue' = Tail(cacheQueue)
  BY DEF Cache!Deliver, Cache!cacheVars
<1>1. s \in CacheSteps /\ s.at = "apply" /\ cacheQueue' \in Seq(Cache!Changes)
  BY <1>2, <1>3, CacheStepRecords
<1> HIDE DEF s
<1>5. Cache!TypeOK' /\ CacheShape' /\ cacheWriter'[CacheBus].at = "apply"
  BY <1>1, <1>2, <1>3, CacheWriterGoes
<1> QED
  BY <1>5 DEF CacheInv, CacheFresh, CacheHeals

\* ApplyMutation and what comes after it.
LEMMA CacheApplies == ASSUME CacheInv, NEW a \in Cache!Appliers, Cache!Applies(a) PROVE CacheInv'
<1>0. PICK s : s = cacheWriter[a]
  OBVIOUS
<1>1. s \in CacheSteps /\ s.at # "idle"
  BY <1>0 DEF CacheInv, Cache!TypeOK, CacheSteps, Cache!Applies, Cache!Apply, Cache!Upsert, Cache!StoreList,
         Cache!Thaw, Cache!Fence, Cache!Finish, Cache!Applying
<1>2. /\ cacheRemote \subseteq CacheNames /\ cacheWrites \in 0..CacheChanges
      /\ cacheQueue \in Seq(Cache!Changes) /\ cacheCached \in Cache!Lists
      /\ cacheCooling \in BOOLEAN /\ cacheLate \in BOOLEAN
  BY DEF CacheInv, Cache!TypeOK
<1>3. /\ s.change \in Cache!Changes /\ s.change.name \in CacheNames /\ s.base \in Cache!Lists
      /\ s.at \in {"upsert", "store"} => s.base \in SUBSET CacheNames
  BY <1>0, <1>1, CacheStepRecords DEF Cache!Changes, CacheInv, CacheShape
<1>r. s \in [at : {"apply", "upsert", "store", "thaw", "fence", "publish"},
             change : Cache!Changes, base : Cache!Lists]
  BY <1>1 DEF CacheSteps
<1>4. CASE Cache!Apply(a) /\ s.change.op = "create" /\ cacheCached # NoList
  <2>n. PICK n : n = [s EXCEPT !.at = "upsert", !.base = cacheCached]
    OBVIOUS
  <2>1. /\ Cache!Step(a, n) /\ UNCHANGED Cache!readerVars /\ s.at = "apply"
        /\ UNCHANGED <<cacheRemote, cacheCached, cacheCooling, cacheQueue, cacheWrites, cacheLate>>
    BY <1>0, <1>4, <2>n DEF Cache!Apply, Cache!Applying
  <2>3. n \in CacheSteps /\ n.at = "upsert" /\ n.base \in SUBSET CacheNames
    BY <1>r, <1>2, <1>4, <2>n DEF CacheSteps, Cache!Lists
  <2>5. /\ Cache!TypeOK' /\ CacheShape' /\ cacheWriter'[a].at = "upsert"
        /\ \A b \in Cache!Appliers \ {a} : cacheWriter'[b] = cacheWriter[b]
    BY <1>2, <2>1, <2>3, CacheWriterGoes
  <2>6. CacheHeals'
    BY <2>5 DEF CacheHeals, Cache!Appliers
  <2> QED
    BY <2>5, <2>6 DEF CacheInv, CacheFresh
<1>5. CASE \/ Cache!Apply(a) /\ ~(s.change.op = "create" /\ cacheCached # NoList)
           \/ Cache!Upsert(a) /\ cacheCached = NoList
  <2>n. PICK n : n = [s EXCEPT !.at = "fence"]
    OBVIOUS
  <2>m. PICK m : m = [s EXCEPT !.at = "fence", !.base = NoList]
    OBVIOUS
  <2>1. /\ Cache!Step(a, n) \/ Cache!Step(a, m)
        /\ UNCHANGED Cache!readerVars /\ cacheCached' = NoList /\ cacheLate' \in BOOLEAN
        /\ UNCHANGED <<cacheRemote, cacheCooling, cacheQueue, cacheWrites>>
    BY <1>0, <1>2, <1>5, <2>n, <2>m DEF Cache!Apply, Cache!Applying, Cache!Upsert, Cache!cacheVars
  <2>2. /\ n \in CacheSteps /\ n.at = "fence" /\ m \in CacheSteps /\ m.at = "fence"
        /\ cacheCached' \in Cache!Lists
    BY <1>r, <2>1, <2>n, <2>m, CacheStepRecords DEF CacheSteps
  <2>3. Cache!TypeOK' /\ CacheShape'
    BY <1>2, <2>1, <2>2, CacheWriterGoes
  <2> QED
    BY <2>1, <2>3 DEF CacheInv, CacheFresh
<1>6. CASE Cache!Upsert(a) /\ cacheCached # NoList
  <2>n. PICK n : n = [s EXCEPT !.at = "store"]
    OBVIOUS
  <2>1. /\ Cache!Step(a, n) /\ UNCHANGED Cache!readerVars /\ s.at = "upsert"
        /\ UNCHANGED <<cacheRemote, cacheCached, cacheCooling, cacheQueue, cacheWrites, cacheLate>>
    BY <1>0, <1>6, <2>n DEF Cache!Upsert, Cache!Applying, Cache!cacheVars
  <2>2. n \in CacheSteps /\ n.at = "store" /\ n.base \in SUBSET CacheNames
    BY <1>r, <1>3, <2>1, <2>n DEF CacheSteps
  <2>3. Cache!TypeOK' /\ CacheShape' /\ cacheWriter'[a].at = "store"
    BY <1>2, <2>1, <2>2, CacheWriterGoes
  <2>4. CacheHeals'
    BY <2>3 DEF CacheHeals, Cache!Appliers
  <2> QED
    BY <2>3, <2>4 DEF CacheInv, CacheFresh
<1>7. CASE Cache!StoreList(a)
  <2>n. PICK n : n = [s EXCEPT !.at = "thaw", !.base = NoList]
    OBVIOUS
  <2> DEFINE list == s.base \cup {s.change.name}
  <2>1. /\ Cache!Step(a, n) /\ UNCHANGED Cache!readerVars /\ s.at = "store"
        /\ cacheCached' = list /\ cacheLate' = (list # cacheRemote)
        /\ UNCHANGED <<cacheRemote, cacheCooling, cacheQueue, cacheWrites>>
    BY <1>0, <1>7, <2>n DEF Cache!StoreList, Cache!Applying
  <2>2. n \in CacheSteps /\ n.at = "thaw" /\ list \in Cache!Lists
    BY <1>r, <1>3, <2>1, <2>n, CacheStepRecords DEF CacheSteps, Cache!Lists
  <2> HIDE DEF list
  <2>3. Cache!TypeOK' /\ CacheShape'
    BY <1>2, <2>1, <2>2, CacheWriterGoes
  <2> QED
    BY <2>1, <2>3 DEF CacheInv, CacheFresh
<1>8. CASE Cache!Thaw(a) \/ Cache!Fence(a)
  <2>n. PICK n : n = [s EXCEPT !.at = "publish"]
    OBVIOUS
  <2>1. /\ Cache!Step(a, n) /\ UNCHANGED Cache!readerVars /\ s.at \in {"thaw", "fence"}
        /\ cacheCooling' \in BOOLEAN
        /\ UNCHANGED <<cacheRemote, cacheCached, cacheQueue, cacheWrites, cacheLate>>
    BY <1>0, <1>8, <2>n DEF Cache!Thaw, Cache!Fence, Cache!Applying
  <2>2. n \in CacheSteps /\ n.at = "publish"
    BY <1>r, <2>n DEF CacheSteps
  <2>3. /\ Cache!TypeOK' /\ CacheShape' /\ cacheWriter'[a].at = "publish"
        /\ \A b \in Cache!Appliers \ {a} : cacheWriter'[b] = cacheWriter[b]
    BY <1>2, <2>1, <2>2, CacheWriterGoes
  <2>4. CacheHeals => CacheHeals'
    BY <1>0, <2>1, <2>3 DEF CacheHeals, Cache!Appliers
  <2> QED
    BY <2>1, <2>3, <2>4 DEF CacheInv, CacheFresh
<1>9. CASE Cache!Finish(a)
  <2>1. /\ Cache!Step(a, Cache!Done) /\ UNCHANGED Cache!readerVars /\ s.at = "publish"
        /\ UNCHANGED <<cacheRemote, cacheCached, cacheCooling, cacheWrites, cacheLate>>
        /\ cacheQueue' = IF a = CacheBus THEN cacheQueue ELSE Append(cacheQueue, s.change)
    BY <1>0, <1>9 DEF Cache!Finish, Cache!Applying, Cache!cacheVars
  <2>2. cacheQueue' \in Seq(Cache!Changes) /\ (a # CacheBus => cacheQueue' # <<>>)
    <3>1. Append(cacheQueue, s.change) \in Seq(Cache!Changes)
      BY <1>2, <1>3
    <3>2. Append(cacheQueue, s.change) # <<>>
      BY <1>2, <1>3
    <3> QED
      BY <1>2, <2>1, <3>1, <3>2
  <2>3. /\ Cache!TypeOK' /\ CacheShape'
        /\ \A b \in Cache!Appliers \ {a} : cacheWriter'[b] = cacheWriter[b]
    BY <1>2, <2>1, <2>2, CacheStepRecords, CacheWriterGoes
  <2>4. CacheHeals => CacheHeals'
    BY <1>0, <2>1, <2>2, <2>3, ServicesAssumption DEF CacheHeals, Cache!Appliers
  <2> QED
    BY <2>1, <2>3, <2>4 DEF CacheInv, CacheFresh
<1> QED
  BY <1>4, <1>5, <1>6, <1>7, <1>8, <1>9 DEF Cache!Applies

LEMMA CacheTime ==
  ASSUME CacheInv, Cache!Cooled \/ Cache!Expire \/ Cache!SaveSnapshot \/ Cache!Restart
  PROVE  CacheInv'
<1>1. CASE Cache!Cooled \/ Cache!Expire \/ Cache!SaveSnapshot
  <2>1. /\ UNCHANGED <<cacheReader, cacheCall>> /\ UNCHANGED Cache!writerVars
        /\ cacheCached' \in Cache!Lists /\ cacheDisk' \in Cache!Lists
        /\ cacheCooling' \in BOOLEAN /\ cacheLate' \in BOOLEAN
        /\ cacheCached' = NoList \/ UNCHANGED <<cacheCached, cacheLate>>
    BY <1>1 DEF CacheInv, Cache!TypeOK, Cache!Lists, Cache!Cooled, Cache!Expire, Cache!SaveSnapshot,
                Cache!cacheVars, Cache!readerVars
  <2>2. Cache!TypeOK' /\ CacheShape'
    BY <2>1 DEF CacheInv, CacheShape, Cache!TypeOK, Cache!writerVars
  <2>3. CacheFresh'
    BY <2>1 DEF CacheInv, CacheFresh, CacheHeals, Cache!writerVars
  <2> QED
    BY <2>2, <2>3 DEF CacheInv
<1>2. CASE Cache!Restart
  <2>1. /\ cacheReader' = [r \in CacheReaders |-> "idle"] /\ cacheCall' = Cache!NoCall
        /\ cacheWriter' = [a \in Cache!Appliers |-> Cache!Done] /\ cacheQueue' = <<>>
        /\ cacheCached' = cacheDisk /\ cacheCooling' = FALSE
        /\ cacheLate' = (cacheDisk # NoList /\ cacheDisk # cacheRemote)
        /\ UNCHANGED <<cacheRemote, cacheDisk, cacheWrites>>
    BY <1>2 DEF Cache!Restart
  <2>2. CacheShape'
    BY <2>1, CacheStepRecords DEF CacheShape, Cache!Loading
  <2>3. Cache!TypeOK'
    <3>1. cacheWriter' \in [Cache!Appliers -> CacheSteps]
      BY <2>1, CacheStepRecords
    <3>2. cacheQueue' \in Seq(Cache!Changes)
      BY <2>1
    <3>3. cacheReader' \in [CacheReaders -> {"idle", "check", "lookup", "join", "wait"} \cup Cache!Loading]
      BY <2>1
    <3> QED
      BY <2>1, <3>1, <3>2, <3>3 DEF CacheInv, Cache!TypeOK, CacheSteps
  <2>4. CacheFresh'
    BY <2>1 DEF CacheFresh
  <2> QED
    BY <2>2, <2>3, <2>4 DEF CacheInv
<1> QED
  BY <1>1, <1>2

LEMMA CacheNext == CacheInv /\ [Cache!Next]_cacheVars => CacheInv'
<1> SUFFICES ASSUME CacheInv, [Cache!Next]_cacheVars PROVE CacheInv'
  OBVIOUS
<1>1. CASE UNCHANGED cacheVars
  BY <1>1 DEF cacheVars, CacheInv, CacheShape, CacheFresh, CacheHeals, Cache!TypeOK
<1>2. CASE Cache!Next
  BY <1>2, CacheReaderStep, CacheWrite, CacheDeliver, CacheApplies, CacheTime DEF Cache!Next
<1> QED
  BY <1>1, <1>2

\* The other components leave the cache alone.
LEMMA CacheFocus ==
  /\ SumInit => Cache!Init
  /\ [SumNext]_sumVars => [Cache!Next]_cacheVars
BY DEF SumInit, SumNext, sumVars, cacheVars

\* Every change of the directory drops the cached list, or stores one and shows whether
\* it is right, before it is done with: when none is under way a list that was right when
\* it was stored is the directory's, and one reader at a time asks the driver
\* (ApplyMutation, tryUpsertDirOnCreate, Cleaner, DoCtx).
THEOREM CachedListsAreFresh == SumSpec => []ListsAreFresh
<1>1. CacheInv => ListsAreFresh
  <2> SUFFICES ASSUME CacheInv PROVE Cache!QuietIsFresh /\ Cache!OneLoad
    BY DEF CacheInv, ListsAreFresh
  <2>1. Cache!Quiet => ~CacheHeals
    BY CacheStepRecords DEF Cache!Quiet, CacheHeals, Cache!Appliers
  <2> QED
    BY <2>1 DEF CacheInv, CacheFresh, CacheShape, Cache!QuietIsFresh, Cache!OneLoad
<1> QED
  BY <1>1, CacheInit, CacheNext, CacheFocus, PTL DEF SumSpec

(***************************************************************************)
(* PendingRestore                                                          *)
(***************************************************************************)
\* A database that is not the empty one which opening a missing file creates.
BackupReals == [settings : Backup!Origins, key : Backup!Origins, changes : 0..RestoreChanges]
BackupBoots == {"validate", "copy", "replace", "check", "undo", "result", "done", "clear"}
BackupStages == {Backup!Staged("full"), Backup!Staged("settings")}

BackupShape ==
  /\ backupProc = "down" => backupStep = Backup!Idle
  /\ backupProc = "up" => backupStep.at \in {"idle", "plan", "answer", "empty", "unplan"}
  /\ backupProc = "boot" => backupStep.at \in BackupBoots
  /\ backupStep.at \in (BackupBoots \ {"clear"}) \cup {"answer", "empty", "unplan"} => backupPlan # "none"
  /\ backupStep.at \in {"plan", "clear"} => backupPlan = "none"
  /\ backupStep.at = "plan" => backupStage.present \in BackupStages
  /\ backupStep.at = "replace" => backupStep.file \in 1..Backup!LastFile
  /\ backupStep.at = "undo" => backupStep.file \in 1..3

BackupReal ==
  /\ backupMain.db \in BackupReals /\ backupMain.db.changes <= backupChanges
  /\ backupCopy.db \in BackupReals /\ backupCopy.db.changes <= backupChanges
  /\ "db" \in backupStage.present =>
       backupStage.db \in BackupReals /\ backupStage.db.changes <= backupChanges

BackupInv == Backup!TypeOK /\ BackupShape /\ BackupReal /\ Backup!StageKept

LEMMA BackupTypes ==
  /\ BackupReals \subseteq Backup!Databases /\ Backup!Empty \in Backup!Databases
  /\ Backup!Origins = {"live", "backup"} /\ Backup!Scopes = {"settings", "full"}
  /\ Backup!Files[1] = "db" /\ Backup!Files[2] = "secret" /\ Backup!Files[3] = "favs"
  /\ Backup!Staged("full") = {"db", "secret", "favs"} /\ Backup!Staged("settings") = {"db"}
  /\ Backup!Idle.at = "idle" /\ Backup!Idle \in Backup!Steps
BY DEF BackupReals, Backup!Databases, Backup!Origins, Backup!Scopes, Backup!Files, Backup!Staged,
       Backup!Idle, Backup!Steps

LEMMA BackupSteps ==
  /\ \A at \in {"idle", "plan", "answer", "empty", "unplan", "validate", "copy", "check"} :
       [at |-> at] \in Backup!Steps
  /\ \A at \in {"replace", "undo"}, n \in 1..4 : [at |-> at, file |-> n] \in Backup!Steps
  /\ \A at \in {"result", "done", "clear"}, s \in {"success", "rolledback"} :
       [at |-> at, state |-> s] \in Backup!Steps
BY DEF Backup!Steps

LEMMA BackupStepOf ==
  ASSUME NEW s \in Backup!Steps
  PROVE  /\ s.at = "idle" => s = Backup!Idle
         /\ s.at \in {"replace", "undo"} => s \in [at : {"replace", "undo"}, file : 1..4]
         /\ s.at \in {"result", "done", "clear"} =>
              s \in [at : {"result", "done", "clear"}, state : {"success", "rolledback"}]
BY DEF Backup!Steps, Backup!Idle

LEMMA MainWith ==
  ASSUME NEW m \in Backup!Mains, NEW f \in {"db", "secret", "favs"}, NEW x,
         f = "db" => x \in Backup!Databases, f # "db" => x \in Backup!Origins
  PROVE  /\ [m EXCEPT ![f] = x] \in Backup!Mains
         /\ [m EXCEPT ![f] = x].db = IF f = "db" THEN x ELSE m.db
         /\ [m EXCEPT ![f] = x].secret = IF f = "secret" THEN x ELSE m.secret
         /\ [m EXCEPT ![f] = x].favs = IF f = "favs" THEN x ELSE m.favs
<1>1. CASE f = "db"
  BY <1>1 DEF Backup!Mains
<1>2. CASE f = "secret"
  BY <1>2 DEF Backup!Mains
<1>3. CASE f = "favs"
  BY <1>3 DEF Backup!Mains
<1> QED
  BY <1>1, <1>2, <1>3

LEMMA BackupInit == Backup!Init => BackupInv
<1> SUFFICES ASSUME Backup!Init PROVE BackupInv
  OBVIOUS
<1> DEFINE d == [settings |-> "live", key |-> "live", changes |-> 0]
<1>1. /\ backupMain = [db |-> d, secret |-> "live", favs |-> "live"]
      /\ backupCopy = backupMain /\ backupBefore = backupMain /\ backupStage = Backup!NoStage
      /\ backupPlan = "none" /\ backupResult = "none" /\ backupProc = "up" /\ backupStep = Backup!Idle
      /\ backupFaults = 0 /\ backupPrepares = 0 /\ backupChanges = 0 /\ backupAsked = FALSE
  BY DEF Backup!Init
<1>2. d \in BackupReals /\ d.changes = 0
  BY ServicesAssumption DEF BackupReals, Backup!Origins
<1> HIDE DEF d
<1>3. backupMain \in Backup!Mains /\ backupMain.db = d
  BY <1>1, <1>2, BackupTypes DEF Backup!Mains
<1>4. Backup!TypeOK
  <2>1. backupStage \in [present : SUBSET {"db", "secret", "favs"}, dir : BOOLEAN, db : Backup!Databases]
    BY <1>1, BackupTypes DEF Backup!NoStage
  <2>2. 0 \in 0..RestoreFaults /\ 0 \in 0..RestorePrepares /\ 0 \in 0..RestoreChanges
    BY ServicesAssumption
  <2> QED
    BY <1>1, <1>3, <2>1, <2>2, BackupTypes DEF Backup!TypeOK
<1>5. BackupShape
  BY <1>1, BackupTypes DEF BackupShape, BackupBoots
<1>6. BackupReal /\ Backup!StageKept
  BY <1>1, <1>2, <1>3 DEF BackupReal, Backup!StageKept, Backup!NoStage
<1> QED
  BY <1>4, <1>5, <1>6 DEF BackupInv

-----------------------------------------------------------------------------

LEMMA BackupCalls ==
  ASSUME BackupInv, \/ Backup!PreparePlan \/ Backup!PrepareAnswer \/ Backup!CancelStage
                    \/ Backup!CancelDir \/ Backup!CancelPlan \/ Backup!Cleanup
  PROVE  BackupInv'
<1>0. /\ backupStep \in Backup!Steps /\ backupFaults \in 0..RestoreFaults /\ RestoreFaults \in Nat
      /\ backupStage \in [present : SUBSET {"db", "secret", "favs"}, dir : BOOLEAN, db : Backup!Databases]
      /\ backupPlan \in {"none", "settings", "full"}
  BY ServicesAssumption, BackupTypes DEF BackupInv, Backup!TypeOK
<1>1. CASE Backup!PreparePlan
  <2>1. /\ backupProc = "up" /\ backupStep.at = "plan" /\ backupPlan = "none"
        /\ backupStage.present \in BackupStages
        /\ UNCHANGED <<backupMain, backupResult, backupCopy, backupProc, backupPrepares, backupChanges, backupBefore>>
    BY <1>1 DEF Backup!PreparePlan, BackupInv, BackupShape
  <2>2. CASE /\ backupPlan' = IF "secret" \in backupStage.present THEN "full" ELSE "settings"
             /\ backupAsked' = TRUE /\ backupStep' = [at |-> "answer"]
             /\ UNCHANGED <<backupStage, backupFaults>>
    <3>1. backupStep' \in Backup!Steps /\ backupStep'.at = "answer" /\ backupPlan' \in {"settings", "full"}
      BY <2>2, BackupSteps
    <3>2. Backup!Staged(backupPlan') = backupStage.present
      BY <2>1, <2>2, BackupTypes DEF BackupStages
    <3>3. Backup!TypeOK'
      BY <2>1, <2>2, <3>1, BackupTypes DEF BackupInv, Backup!TypeOK
    <3>4. BackupShape' /\ BackupReal' /\ Backup!StageKept'
      BY <2>1, <2>2, <3>1, <3>2 DEF BackupInv, BackupShape, BackupBoots, BackupReal, Backup!StageKept
    <3> QED BY <3>3, <3>4 DEF BackupInv
  <2>3. CASE /\ Backup!Fault /\ backupStage' = Backup!NoStage /\ backupStep' = Backup!Idle
             /\ UNCHANGED <<backupPlan, backupAsked>>
    <3>1. backupFaults' \in 0..RestoreFaults
      BY <1>0, <2>3 DEF Backup!Fault
    <3>2. /\ backupStage' \in [present : SUBSET {"db", "secret", "favs"}, dir : BOOLEAN, db : Backup!Databases]
          /\ "db" \notin backupStage'.present
      BY <2>3, BackupTypes DEF Backup!NoStage
    <3>3. Backup!TypeOK'
      BY <2>1, <2>3, <3>1, <3>2, BackupTypes DEF BackupInv, Backup!TypeOK
    <3>4. BackupShape' /\ BackupReal' /\ Backup!StageKept'
      BY <2>1, <2>3, <3>2, BackupTypes DEF BackupInv, BackupShape, BackupBoots, BackupReal, Backup!StageKept
    <3> QED BY <3>3, <3>4 DEF BackupInv
  <2> QED
    BY <1>1, <2>2, <2>3 DEF Backup!PreparePlan, Backup!Goto
<1>2. CASE Backup!PrepareAnswer \/ Backup!CancelPlan
  <2>1. /\ backupProc = "up" /\ backupProc' = "up" /\ backupStep' = Backup!Idle
        /\ UNCHANGED <<backupMain, backupStage, backupCopy, backupFaults, backupPrepares, backupChanges, backupBefore>>
        /\ \/ backupPlan' = "none" /\ backupAsked' = FALSE /\ backupResult' = backupResult
           \/ UNCHANGED <<backupPlan, backupAsked>> /\ backupStep.at = "answer" /\ backupResult' = "none"
    BY <1>2 DEF Backup!PrepareAnswer, Backup!CancelPlan, Backup!Unplanned, Backup!Goto
  <2>3. Backup!TypeOK'
    BY <2>1, BackupTypes DEF BackupInv, Backup!TypeOK
  <2>4. BackupShape' /\ BackupReal' /\ Backup!StageKept'
    BY <2>1, BackupTypes DEF BackupInv, BackupShape, BackupBoots, BackupReal, Backup!StageKept
  <2> QED BY <2>3, <2>4 DEF BackupInv
<1>3. CASE Backup!CancelStage \/ Backup!CancelDir
  <2>1. /\ backupProc = "up" /\ backupPlan # "none"
        /\ UNCHANGED <<backupMain, backupPlan, backupResult, backupCopy, backupProc, backupPrepares,
                       backupChanges, backupBefore, backupAsked>>
    BY <1>3 DEF Backup!CancelStage, Backup!CancelDir, BackupInv, BackupShape
  <2>2. /\ backupStep' \in {[at |-> "empty"], [at |-> "unplan"]} /\ backupFaults' \in 0..RestoreFaults
        /\ \/ backupStage' = [backupStage EXCEPT !.present = {}]
           \/ backupStage' = Backup!NoStage \/ backupStage' = backupStage
    BY <1>0, <1>3 DEF Backup!CancelStage, Backup!CancelDir, Backup!Goto, Backup!Fault
  <2>3. backupStep' \in Backup!Steps /\ backupStep'.at \in {"empty", "unplan"}
    BY <2>2, BackupSteps
  <2>4. /\ backupStage' \in [present : SUBSET {"db", "secret", "favs"}, dir : BOOLEAN, db : Backup!Databases]
        /\ backupStage' = backupStage \/ "db" \notin backupStage'.present
    <3>1. CASE backupStage' = [backupStage EXCEPT !.present = {}]
      BY <1>0, <3>1
    <3>2. CASE backupStage' = Backup!NoStage
      BY <3>2, BackupTypes DEF Backup!NoStage
    <3> QED BY <1>0, <2>2, <3>1, <3>2
  <2>5. Backup!TypeOK'
    BY <2>1, <2>2, <2>3, <2>4 DEF BackupInv, Backup!TypeOK
  <2>6. BackupShape' /\ BackupReal' /\ Backup!StageKept'
    BY <2>1, <2>3, <2>4 DEF BackupInv, BackupShape, BackupBoots, BackupReal, Backup!StageKept
  <2> QED BY <2>5, <2>6 DEF BackupInv
<1>4. CASE Backup!Cleanup
  <2>1. /\ backupPlan = "none" /\ backupStage' = Backup!NoStage /\ backupStep = Backup!Idle
        /\ UNCHANGED <<backupMain, backupPlan, backupResult, backupCopy, backupProc, backupStep, backupFaults,
                       backupPrepares, backupChanges, backupBefore, backupAsked>>
    BY <1>4 DEF Backup!Cleanup
  <2>2. /\ backupStage' \in [present : SUBSET {"db", "secret", "favs"}, dir : BOOLEAN, db : Backup!Databases]
        /\ "db" \notin backupStage'.present
    BY <2>1, BackupTypes DEF Backup!NoStage
  <2>3. Backup!TypeOK'
    BY <2>1, <2>2 DEF BackupInv, Backup!TypeOK
  <2>4. BackupShape' /\ BackupReal' /\ Backup!StageKept'
    BY <2>1, <2>2, BackupTypes DEF BackupInv, BackupShape, BackupBoots, BackupReal, Backup!StageKept
  <2> QED BY <2>3, <2>4 DEF BackupInv
<1> QED
  BY <1>1, <1>2, <1>3, <1>4


LEMMA BackupChange == ASSUME BackupInv, Backup!Change PROVE BackupInv'
<1> DEFINE d == [backupMain.db EXCEPT !.changes = @ + 1]
<1>1. /\ backupMain' = [backupMain EXCEPT !.db = d] /\ backupChanges < RestoreChanges
      /\ backupChanges' = backupChanges + 1
      /\ UNCHANGED <<backupStage, backupPlan, backupResult, backupCopy, backupProc, backupStep,
                     backupFaults, backupPrepares, backupBefore, backupAsked>>
  BY DEF Backup!Change
<1>2. /\ backupChanges \in 0..RestoreChanges /\ backupMain \in Backup!Mains /\ RestoreChanges \in Nat
      /\ backupMain.db \in BackupReals /\ backupMain.db.changes <= backupChanges
      /\ backupMain.db.changes \in Nat
  BY ServicesAssumption DEF BackupInv, BackupReal, Backup!TypeOK, BackupReals
<1>3. d.changes = backupMain.db.changes + 1 /\ d.changes \in 0..RestoreChanges
  BY <1>1, <1>2 DEF BackupReals
<1>4. d \in BackupReals
  BY <1>2, <1>3 DEF BackupReals
<1> HIDE DEF d
<1>5. d \in Backup!Databases
  BY <1>4, BackupTypes
<1>6. backupMain' \in Backup!Mains /\ backupMain'.db = d
  BY <1>1, <1>2, <1>5 DEF Backup!Mains
<1>7. /\ backupChanges' \in 0..RestoreChanges /\ backupMain'.db.changes <= backupChanges'
      /\ \A n \in Nat : n <= backupChanges => n <= backupChanges'
  BY <1>1, <1>2, <1>3, <1>6
<1>8. Backup!TypeOK'
  BY <1>1, <1>6, <1>7 DEF BackupInv, Backup!TypeOK
<1>9. BackupShape' /\ Backup!StageKept'
  BY <1>1 DEF BackupInv, BackupShape, Backup!StageKept, Backup!LastFile
<1>10. BackupReal'
  BY <1>1, <1>4, <1>6, <1>7 DEF BackupInv, BackupReal, BackupReals
<1> QED
  BY <1>8, <1>9, <1>10 DEF BackupInv

LEMMA BackupPrepare == ASSUME BackupInv, NEW s \in Backup!Scopes, Backup!PrepareStage(s) PROVE BackupInv'
<1> DEFINE d == IF s = "settings" THEN [backupMain.db EXCEPT !.settings = "backup"]
                ELSE [settings |-> "backup", key |-> "backup", changes |-> 0]
<1>1. /\ backupProc = "up" /\ backupPlan = "none" /\ backupPrepares < RestorePrepares
      /\ backupPrepares' = backupPrepares + 1 /\ backupStep' = [at |-> "plan"]
      /\ backupStage' = [present |-> Backup!Staged(s), dir |-> TRUE, db |-> d]
      /\ UNCHANGED <<backupMain, backupPlan, backupResult, backupCopy, backupProc, backupFaults,
                     backupChanges, backupBefore, backupAsked>>
  BY DEF Backup!PrepareStage, Backup!Goto
<1>2. /\ backupMain.db \in BackupReals /\ backupMain.db.changes <= backupChanges
      /\ backupChanges \in 0..RestoreChanges /\ backupPrepares \in 0..RestorePrepares
      /\ RestorePrepares \in Nat /\ RestoreChanges \in Nat
  BY ServicesAssumption DEF BackupInv, BackupReal, Backup!TypeOK
<1>3. d \in BackupReals /\ d.changes <= backupChanges
  BY <1>2 DEF BackupReals, Backup!Origins
<1>4. backupPrepares' \in 0..RestorePrepares
  BY <1>1, <1>2
<1> HIDE DEF d
<1>5. /\ backupStage' \in [present : SUBSET {"db", "secret", "favs"}, dir : BOOLEAN, db : Backup!Databases]
      /\ backupStage'.present \in BackupStages /\ backupStage'.db = d
  BY <1>1, <1>3, BackupTypes DEF BackupStages
<1>6. backupStep' \in Backup!Steps /\ backupStep'.at = "plan"
  BY <1>1, BackupSteps
<1>7. Backup!TypeOK'
  BY <1>1, <1>4, <1>5, <1>6 DEF BackupInv, Backup!TypeOK
<1>8. BackupShape' /\ Backup!StageKept' /\ BackupReal'
  BY <1>1, <1>3, <1>5, <1>6 DEF BackupInv, BackupShape, BackupBoots, Backup!StageKept, BackupReal
<1> QED
  BY <1>7, <1>8 DEF BackupInv

\* The process may end anywhere but while a restore is canceled.
NoCancelCrash == "cancel" \notin RestoreBreakable

LEMMA BackupEnds ==
  ASSUME NoCancelCrash, BackupInv, Backup!Exit \/ Backup!Crash \/ Backup!Start PROVE BackupInv'
<1>0. /\ backupFaults \in 0..RestoreFaults /\ RestoreFaults \in Nat /\ backupMain \in Backup!Mains
      /\ backupBefore \in Backup!Mains
  BY ServicesAssumption DEF BackupInv, Backup!TypeOK
<1>1. CASE Backup!Exit \/ Backup!Crash
  <2>1. /\ UNCHANGED Backup!fileVars /\ UNCHANGED <<backupPrepares, backupChanges, backupAsked>>
        /\ backupProc' = "down" /\ backupStep' = Backup!Idle /\ backupFaults' \in 0..RestoreFaults
        /\ backupBefore' \in Backup!Mains
    BY <1>0, <1>1 DEF Backup!Exit, Backup!Crash, Backup!Down, Backup!Goto, Backup!Fault, Backup!Remember
  <2>2. backupStep.at \notin {"empty", "unplan"}
    <3>1. CASE Backup!Exit
      BY <3>1, BackupTypes DEF Backup!Exit
    <3>2. CASE Backup!Crash
      BY <3>2, BackupTypes DEF Backup!Crash, Backup!Phase, NoCancelCrash, BackupInv, BackupShape, BackupBoots
    <3> QED BY <1>1, <3>1, <3>2
  <2>3. Backup!TypeOK'
    BY <2>1, BackupTypes DEF BackupInv, Backup!TypeOK, Backup!fileVars
  <2>4. BackupShape' /\ BackupReal' /\ Backup!StageKept'
    BY <2>1, <2>2, BackupTypes DEF BackupInv, BackupShape, BackupBoots, BackupReal, Backup!StageKept, Backup!fileVars
  <2> QED BY <2>3, <2>4 DEF BackupInv
<1>2. CASE Backup!Start
  <2>1. /\ UNCHANGED Backup!fileVars /\ UNCHANGED <<backupFaults, backupPrepares, backupChanges, backupBefore>>
        /\ \/ /\ backupPlan = "none" /\ backupProc' = "up" /\ backupAsked' = FALSE
              /\ backupStep = Backup!Idle /\ backupStep' = Backup!Idle
           \/ /\ backupPlan # "none" /\ backupProc' = "boot" /\ backupStep' = [at |-> "validate"]
              /\ UNCHANGED backupAsked /\ backupStep = Backup!Idle
    BY <1>2 DEF Backup!Start, Backup!Goto, BackupInv, BackupShape
  <2>2. backupStep' \in Backup!Steps /\ (backupProc' = "boot" => backupStep'.at = "validate")
    BY <2>1, BackupTypes, BackupSteps
  <2>3. Backup!TypeOK'
    BY <2>1, <2>2 DEF BackupInv, Backup!TypeOK, Backup!fileVars
  <2>4. BackupShape' /\ BackupReal' /\ Backup!StageKept'
    BY <2>1, <2>2, BackupTypes DEF BackupInv, BackupShape, BackupBoots, BackupReal, Backup!StageKept, Backup!fileVars
  <2> QED BY <2>3, <2>4 DEF BackupInv
<1> QED
  BY <1>1, <1>2


-----------------------------------------------------------------------------
\* A start that is refused or dies, and one that goes on with the files as they are.
LEMMA BackupBootGoes ==
  ASSUME BackupInv, backupProc = "boot",
         backupMain' \in Backup!Mains, backupMain'.db \in BackupReals, backupMain'.db.changes <= backupChanges,
         backupStage' = backupStage, backupPlan' = backupPlan,
         backupResult' \in {"none", "success", "rolledback"},
         backupCopy' = backupCopy \/ backupCopy' = backupMain, backupFaults' \in 0..RestoreFaults,
         UNCHANGED <<backupPrepares, backupChanges, backupBefore, backupAsked>>,
         backupStep' \in Backup!Steps,
         \/ backupProc' = "down" /\ backupStep' = Backup!Idle
         \/ /\ backupProc' = "boot" /\ backupStep'.at \in BackupBoots \ {"clear"} /\ backupStep.at # "clear"
            /\ backupStep'.at = "replace" => backupStep'.file \in 1..Backup!LastFile
            /\ backupStep'.at = "undo" => backupStep'.file \in 1..3
  PROVE  BackupInv'
<1>1. Backup!TypeOK'
  BY DEF BackupInv, Backup!TypeOK
<1>2. BackupShape'
  BY BackupTypes DEF BackupInv, BackupShape, BackupBoots, Backup!LastFile
<1>3. BackupReal'
  BY DEF BackupInv, BackupReal
<1>4. Backup!StageKept'
  BY BackupTypes DEF BackupInv, BackupShape, BackupBoots, Backup!StageKept
<1> QED
  BY <1>1, <1>2, <1>3, <1>4 DEF BackupInv

LEMMA BackupBootStep == ASSUME BackupInv, Backup!Boot PROVE BackupInv'
<1>0. /\ backupStep \in Backup!Steps /\ backupFaults \in 0..RestoreFaults /\ RestoreFaults \in Nat
      /\ backupMain \in Backup!Mains /\ backupCopy \in Backup!Mains
      /\ backupStage \in [present : SUBSET {"db", "secret", "favs"}, dir : BOOLEAN, db : Backup!Databases]
      /\ backupPlan \in {"none", "settings", "full"} /\ backupResult \in {"none", "success", "rolledback"}
      /\ backupMain.db \in BackupReals /\ backupMain.db.changes <= backupChanges
      /\ backupCopy.db \in BackupReals /\ backupCopy.db.changes <= backupChanges
  BY ServicesAssumption, BackupTypes DEF BackupInv, Backup!TypeOK, BackupReal
<1>b. backupProc = "boot"
  BY DEF Backup!Boot, Backup!Validate, Backup!RollbackCopy, Backup!Replace, Backup!Check, Backup!Undo,
         Backup!FinishResult, Backup!FinishPlan, Backup!FinishStage
<1>f. Backup!Fault => backupFaults' \in 0..RestoreFaults
  BY <1>0 DEF Backup!Fault
<1>s. backupStep.at \in BackupBoots \ {"clear"} =>
        backupPlan # "none" /\ Backup!Staged(backupPlan) \subseteq backupStage.present
        /\ "db" \in backupStage.present
  <2>1. backupStep.at \in BackupBoots \ {"clear"} => backupPlan \in {"settings", "full"}
    BY <1>0 DEF BackupInv, BackupShape
  <2>2. backupStep.at \in BackupBoots \ {"clear"} => Backup!Staged(backupPlan) \subseteq backupStage.present
    BY <2>1 DEF BackupInv, Backup!StageKept, BackupBoots
  <2> QED
    BY <2>1, <2>2, BackupTypes
\* refused or dead
<1>1. CASE /\ backupProc' = "down" /\ backupStep' = Backup!Idle /\ backupStep.at # "clear"
           /\ UNCHANGED <<backupMain, backupStage, backupPlan, backupResult, backupCopy>>
           /\ UNCHANGED <<backupPrepares, backupChanges, backupBefore, backupAsked>>
           /\ Backup!Fault \/ UNCHANGED backupFaults
  BY <1>0, <1>1, <1>b, <1>f, BackupTypes, BackupBootGoes
<1>2. CASE Backup!Validate /\ backupProc' # "down"
  <2>1. /\ backupStep.at = "validate" /\ backupStep' = [at |-> "copy"]
        /\ backupStage' = [backupStage EXCEPT !.present = @ \cup {"db"},
                              !.db = IF "db" \in backupStage.present THEN @ ELSE Backup!Empty]
        /\ UNCHANGED <<backupMain, backupPlan, backupResult, backupCopy, backupProc, backupFaults,
                       backupPrepares, backupChanges, backupBefore, backupAsked>>
    BY <1>2 DEF Backup!Validate, Backup!Goto, Backup!Refuse, Backup!Down
  <2>2. backupStage' = backupStage
    <3>1. "db" \in backupStage.present
      BY <1>s, <2>1 DEF BackupBoots
    <3>2. backupStage.present \cup {"db"} = backupStage.present
      BY <3>1
    <3>3. backupStage' = [backupStage EXCEPT !.present = backupStage.present, !.db = backupStage.db]
      BY <2>1, <3>1, <3>2
    <3> QED BY <1>0, <3>3
  <2>3. backupStep' \in Backup!Steps /\ backupStep'.at = "copy"
    BY <2>1, BackupSteps
  <2> QED
    BY <1>0, <1>b, <2>1, <2>2, <2>3, BackupBootGoes DEF BackupBoots
<1>3. CASE Backup!RollbackCopy /\ backupProc' # "down"
  <2>1. /\ backupStep.at = "copy" /\ backupStep' = [at |-> "replace", file |-> 1] /\ backupCopy' = backupMain
        /\ UNCHANGED <<backupMain, backupStage, backupPlan, backupResult, backupProc, backupFaults,
                       backupPrepares, backupChanges, backupBefore, backupAsked>>
    BY <1>3 DEF Backup!RollbackCopy, Backup!Goto, Backup!Refuse, Backup!Down
  <2>2. backupStep' \in Backup!Steps /\ backupStep'.at = "replace" /\ backupStep'.file = 1
    BY <2>1, BackupSteps
  <2>3. 1 \in 1..Backup!LastFile
    BY DEF Backup!LastFile
  <2> QED
    BY <1>0, <1>b, <2>1, <2>2, <2>3, BackupBootGoes DEF BackupBoots
<1>4. CASE Backup!Check
  <2>1. /\ backupStep.at = "check"
        /\ backupStep' \in {[at |-> "result", state |-> "success"], [at |-> "undo", file |-> 1]}
        /\ backupFaults' \in 0..RestoreFaults
        /\ UNCHANGED <<backupMain, backupStage, backupPlan, backupResult, backupCopy, backupProc,
                       backupPrepares, backupChanges, backupBefore, backupAsked>>
    BY <1>0, <1>4, <1>f DEF Backup!Check, Backup!Goto, Backup!AfterFailure, Backup!fileVars
  <2>2. /\ backupStep' \in Backup!Steps /\ backupStep'.at \in {"result", "undo"}
        /\ backupStep'.at = "undo" => backupStep'.file = 1
    BY <2>1, BackupSteps
  <2> QED
    BY <1>0, <1>b, <2>1, <2>2, BackupBootGoes DEF BackupBoots
<1>5. CASE Backup!FinishResult /\ backupProc' # "down"
  <2>1. /\ backupStep.at = "result" /\ backupStep' = [backupStep EXCEPT !.at = "done"]
        /\ backupResult' = backupStep.state
        /\ UNCHANGED <<backupMain, backupStage, backupPlan, backupCopy, backupProc, backupFaults,
                       backupPrepares, backupChanges, backupBefore, backupAsked>>
    BY <1>5 DEF Backup!FinishResult, Backup!Goto, Backup!Refuse, Backup!Down
  <2>2. backupStep \in [at : {"result", "done", "clear"}, state : {"success", "rolledback"}]
    BY <1>0, <2>1, BackupStepOf
  <2>3. backupStep' \in Backup!Steps /\ backupStep'.at = "done" /\ backupResult' \in {"success", "rolledback"}
    BY <2>1, <2>2 DEF Backup!Steps
  <2> QED
    BY <1>0, <1>b, <2>1, <2>3, BackupBootGoes DEF BackupBoots
<1>6. CASE Backup!FinishPlan /\ backupProc' # "down"
  <2>1. /\ backupStep.at = "done" /\ backupStep' = [backupStep EXCEPT !.at = "clear"] /\ backupPlan' = "none"
        /\ UNCHANGED <<backupMain, backupStage, backupResult, backupCopy, backupProc, backupFaults,
                       backupPrepares, backupChanges, backupBefore, backupAsked>>
    BY <1>6 DEF Backup!FinishPlan, Backup!Goto, Backup!Refuse, Backup!Down
  <2>2. backupStep \in [at : {"result", "done", "clear"}, state : {"success", "rolledback"}]
    BY <1>0, <2>1, BackupStepOf
  <2>3. backupStep' \in Backup!Steps /\ backupStep'.at = "clear"
    BY <2>1, <2>2 DEF Backup!Steps
  <2>4. Backup!TypeOK'
    BY <2>1, <2>3 DEF BackupInv, Backup!TypeOK
  <2>5. BackupShape' /\ BackupReal' /\ Backup!StageKept'
    BY <1>b, <2>1, <2>3 DEF BackupInv, BackupShape, BackupBoots, BackupReal, Backup!StageKept
  <2> QED
    BY <2>4, <2>5 DEF BackupInv
<1>7. CASE Backup!FinishStage
  <2>1. /\ backupStep.at = "clear" /\ backupPlan = "none" /\ backupStep' = Backup!Idle
        /\ backupFaults' \in 0..RestoreFaults /\ backupAsked' \in BOOLEAN
        /\ \/ backupProc' = "up" /\ backupStage' = Backup!NoStage
           \/ backupProc' = "down" /\ backupStage' = backupStage
        /\ UNCHANGED <<backupMain, backupPlan, backupResult, backupCopy,
                       backupPrepares, backupChanges, backupBefore>>
    BY <1>0, <1>7, <1>f DEF Backup!FinishStage, Backup!Goto, Backup!Down, BackupInv, BackupShape, Backup!TypeOK
  <2>2. /\ backupStage' \in [present : SUBSET {"db", "secret", "favs"}, dir : BOOLEAN, db : Backup!Databases]
        /\ backupStage' = backupStage \/ "db" \notin backupStage'.present
    <3>1. CASE backupStage' = Backup!NoStage
      BY <3>1, BackupTypes DEF Backup!NoStage
    <3> QED BY <1>0, <2>1, <3>1
  <2>4. Backup!TypeOK'
    BY <2>1, <2>2, BackupTypes DEF BackupInv, Backup!TypeOK
  <2>5. BackupShape' /\ BackupReal' /\ Backup!StageKept'
    BY <2>1, <2>2, BackupTypes DEF BackupInv, BackupShape, BackupBoots, BackupReal, Backup!StageKept
  <2> QED
    BY <2>4, <2>5 DEF BackupInv
<1>8. CASE Backup!Replace
  <2>1. /\ backupStep.at = "replace" /\ backupStep.file \in 1..Backup!LastFile /\ backupStep.file \in 1..3
        /\ backupStep \in [at : {"replace", "undo"}, file : 1..4]
    BY <1>0, <1>8, BackupStepOf DEF Backup!Replace, BackupInv, BackupShape, Backup!LastFile
  <2>2. PICK n \in 1..3 : n = backupStep.file
    BY <2>1
  <2>3. UNCHANGED <<backupStage, backupPlan, backupResult, backupCopy, backupProc,
                    backupPrepares, backupChanges, backupBefore, backupAsked>>
    BY <1>8 DEF Backup!Replace
  <2>4. Backup!Files[n] \in {"db", "secret", "favs"}
    BY BackupTypes
  <2>5. CASE backupMain' = Backup!Replaced(Backup!Files[n])
             /\ Backup!Files[n] \in backupStage.present /\ UNCHANGED backupFaults
             /\ backupStep' = IF n = Backup!LastFile THEN [at |-> "check"] ELSE [backupStep EXCEPT !.file = n + 1]
    <3>1. PICK x : /\ backupMain' = [backupMain EXCEPT ![Backup!Files[n]] = x]
                   /\ Backup!Files[n] = "db" => x \in BackupReals /\ x.changes <= backupChanges
                   /\ Backup!Files[n] # "db" => x = "backup"
      BY <2>5, <1>s, <2>1 DEF Backup!Replaced, BackupInv, BackupReal
    <3>2. /\ backupMain' \in Backup!Mains /\ backupMain'.db \in BackupReals
          /\ backupMain'.db.changes <= backupChanges
      <4>1. PICK f \in {"db", "secret", "favs"} : f = Backup!Files[n]
        BY <2>4
      <4>2. f = "db" => x \in Backup!Databases
        BY <3>1, <4>1, BackupTypes
      <4>3. f # "db" => x \in Backup!Origins
        BY <3>1, <4>1, BackupTypes
      <4>4. /\ [backupMain EXCEPT ![f] = x] \in Backup!Mains
            /\ [backupMain EXCEPT ![f] = x].db = IF f = "db" THEN x ELSE backupMain.db
        BY <1>0, <4>2, <4>3, MainWith
      <4> QED BY <1>0, <3>1, <4>1, <4>4
    <3>3. /\ backupStep' \in Backup!Steps /\ backupStep'.at \in {"check", "replace"}
          /\ backupStep'.at = "replace" => backupStep'.file \in 1..Backup!LastFile
      <4>1. CASE n = Backup!LastFile
        BY <2>5, <4>1, BackupSteps
      <4>2. CASE n # Backup!LastFile
        <5>1. n + 1 \in 1..4 /\ n + 1 \in 1..Backup!LastFile
          BY <2>1, <2>2, <4>2 DEF Backup!LastFile
        <5>2. backupStep' = [backupStep EXCEPT !.file = n + 1]
          BY <2>5, <4>2
        <5>3. backupStep' \in [at : {"replace", "undo"}, file : 1..4] /\ backupStep'.at = "replace"
              /\ backupStep'.file = n + 1
          BY <2>1, <5>1, <5>2
        <5> QED BY <5>1, <5>3 DEF Backup!Steps
      <4> QED BY <4>1, <4>2
    <3> QED
      BY <1>0, <1>b, <2>1, <2>3, <2>5, <3>2, <3>3, BackupBootGoes DEF BackupBoots
  <2>6. CASE backupMain' = backupMain /\ backupStep' = Backup!AfterFailure /\ (Backup!Fault \/ UNCHANGED backupFaults)
    <3>1. backupStep' \in Backup!Steps /\ backupStep'.at = "undo" /\ backupStep'.file = 1
      BY <2>6, BackupSteps DEF Backup!AfterFailure
    <3> QED
      BY <1>0, <1>b, <1>f, <2>1, <2>3, <2>6, <3>1, BackupBootGoes DEF BackupBoots
  <2> QED
    BY <1>8, <2>2, <2>5, <2>6 DEF Backup!Replace, Backup!Goto
<1>9. CASE Backup!Undo /\ backupProc' # "down"
  <2>1. /\ backupStep.at = "undo" /\ backupStep.file \in 1..3
        /\ backupStep \in [at : {"replace", "undo"}, file : 1..4]
    BY <1>0, <1>9, BackupStepOf DEF Backup!Undo, BackupInv, BackupShape
  <2>2. PICK n \in 1..3 : n = backupStep.file
    BY <2>1
  <2>3. /\ UNCHANGED <<backupStage, backupPlan, backupResult, backupCopy, backupProc, backupFaults,
                       backupPrepares, backupChanges, backupBefore, backupAsked>>
        /\ backupMain' = [backupMain EXCEPT ![Backup!Files[n]] = backupCopy[Backup!Files[n]]]
        /\ backupStep' = IF n = 3 THEN [at |-> "result", state |-> "rolledback"] ELSE [backupStep EXCEPT !.file = n + 1]
    BY <1>9, <2>2 DEF Backup!Undo, Backup!Undone, Backup!Goto, Backup!Down
  <2>4. /\ backupMain' \in Backup!Mains /\ backupMain'.db \in BackupReals
        /\ backupMain'.db.changes <= backupChanges
    <3>1. PICK f \in {"db", "secret", "favs"} : f = Backup!Files[n]
      BY BackupTypes
    <3>2. /\ f = "db" => backupCopy[f] = backupCopy.db /\ backupCopy[f] \in Backup!Databases
          /\ f # "db" => backupCopy[f] \in Backup!Origins
      BY <1>0 DEF Backup!Mains
    <3>3. /\ [backupMain EXCEPT ![f] = backupCopy[f]] \in Backup!Mains
          /\ [backupMain EXCEPT ![f] = backupCopy[f]].db = IF f = "db" THEN backupCopy[f] ELSE backupMain.db
      BY <1>0, <3>2, MainWith
    <3> QED BY <1>0, <2>3, <3>1, <3>2, <3>3
  <2>5. /\ backupStep' \in Backup!Steps /\ backupStep'.at \in {"result", "undo"}
        /\ backupStep'.at = "undo" => backupStep'.file \in 1..3
    <3>1. CASE n = 3
      BY <2>3, <3>1, BackupSteps
    <3>2. CASE n # 3
      <4>1. backupStep' = [backupStep EXCEPT !.file = n + 1] /\ n + 1 \in 1..4 /\ n + 1 \in 1..3
        BY <2>3, <3>2
      <4>2. backupStep' \in [at : {"replace", "undo"}, file : 1..4] /\ backupStep'.at = "undo"
            /\ backupStep'.file = n + 1
        BY <2>1, <4>1
      <4> QED BY <4>1, <4>2 DEF Backup!Steps
    <3> QED BY <3>1, <3>2
  <2> QED
    BY <1>0, <1>b, <2>1, <2>3, <2>4, <2>5, BackupBootGoes DEF BackupBoots
<1> QED
  <2>1. CASE backupProc' = "down" /\ ~Backup!FinishStage
    <3>1. /\ backupStep' = Backup!Idle /\ backupStep.at # "clear"
          /\ UNCHANGED <<backupMain, backupStage, backupPlan, backupResult, backupCopy>>
          /\ UNCHANGED <<backupPrepares, backupChanges, backupBefore, backupAsked>>
          /\ Backup!Fault \/ UNCHANGED backupFaults
      BY <1>b, <2>1 DEF Backup!Boot, Backup!Validate, Backup!RollbackCopy, Backup!Replace, Backup!Check, Backup!Undo,
             Backup!FinishResult, Backup!FinishPlan, Backup!Refuse, Backup!Down, Backup!Goto
    <3> QED BY <1>1, <2>1, <3>1
  <2> QED
    BY <1>2, <1>3, <1>4, <1>5, <1>6, <1>7, <1>8, <1>9, <2>1 DEF Backup!Boot

LEMMA BackupNext == ASSUME NoCancelCrash PROVE BackupInv /\ [Backup!Next]_backupVars => BackupInv'
<1> SUFFICES ASSUME BackupInv, [Backup!Next]_backupVars PROVE BackupInv'
  OBVIOUS
<1>1. CASE UNCHANGED backupVars
  BY <1>1 DEF backupVars, BackupInv, BackupShape, BackupReal, Backup!StageKept, Backup!TypeOK, Backup!LastFile
<1>2. CASE Backup!Next
  BY <1>2, BackupChange, BackupPrepare, BackupCalls, BackupEnds, BackupBootStep DEF Backup!Next, Backup!Service
<1> QED
  BY <1>1, <1>2


-----------------------------------------------------------------------------
\* Nothing but a restore happens to the files while the application is down: with at
\* most one crash or failure the rollback directory holds what it restores.
OneFault == RestoreFaults <= 1

BackupWhole(m) == m.secret = m.db.key /\ m.favs = m.secret

\* What the plan, or the staging directory that is about to get one, will install.
BackupStaging(scope) ==
  \/ backupPlan = scope /\ backupStep.at \notin {"empty", "unplan"}
  \/ backupStep.at = "plan" /\ backupStage.present = Backup!Staged(scope)

BackupKeys ==
  /\ BackupStaging("settings") => backupStage.db.key = backupMain.db.key
  /\ BackupStaging("full") => backupStage.db.key = "backup"

\* A settings restore leaves the secret, the favourites and the key alone, and so does
\* its rollback.
BackupSettings ==
  backupPlan = "settings" =>
    /\ BackupWhole(backupMain)
    /\ backupStep.at \in {"replace", "check", "undo"} =>
         BackupWhole(backupCopy) /\ backupCopy.db.key = backupMain.db.key

\* Of a full restore the files are replaced, and put back, one after the other.
BackupFull ==
  backupPlan = "full" =>
    /\ backupStep.at \in {"idle", "validate", "copy"} => BackupWhole(backupMain) \/ backupFaults # 0
    /\ backupStep.at \in {"replace", "check"} => BackupWhole(backupCopy) \/ backupFaults # 0
    /\ backupStep.at = "replace" =>
         /\ backupStep.file > 1 => backupMain.db.key = "backup"
         /\ backupStep.file > 2 => backupMain.secret = "backup"
    /\ backupStep.at = "undo" =>
         /\ BackupWhole(backupCopy)
         /\ backupStep.file > 1 => backupMain.db = backupCopy.db
         /\ backupStep.file > 2 => backupMain.secret = backupCopy.secret

\* The files are of one side unless a restore of all of them is under way.
BackupEven ==
  backupProc = "up" \/ backupPlan = "none" \/ backupStep.at \in {"check", "result", "done", "clear"}
  => BackupWhole(backupMain)

WholeInv ==
  /\ BackupInv /\ BackupKeys /\ BackupSettings /\ BackupFull /\ BackupEven
  /\ backupStep.at = "undo" => backupFaults = RestoreFaults


LEMMA WholeInit == Backup!Init => WholeInv
<1> SUFFICES ASSUME Backup!Init PROVE WholeInv
  OBVIOUS
<1>1. /\ backupMain.secret = "live" /\ backupMain.favs = "live" /\ backupMain.db.key = "live"
      /\ backupPlan = "none" /\ backupStep.at = "idle"
  BY DEF Backup!Init, Backup!Idle
<1> QED
  BY <1>1, BackupInit DEF WholeInv, BackupKeys, BackupStaging, BackupSettings, BackupFull, BackupEven, BackupWhole

\* A step of the running application.
LEMMA WholeUp ==
  ASSUME WholeInv, BackupInv', backupProc = "up", backupProc' = "up", BackupKeys',
         backupMain'.db.key = backupMain.db.key, backupMain'.secret = backupMain.secret,
         backupMain'.favs = backupMain.favs
  PROVE  WholeInv'
<1>1. BackupWhole(backupMain')
  BY DEF WholeInv, BackupEven, BackupWhole
<1>2. backupStep'.at \in {"idle", "plan", "answer", "empty", "unplan"}
  BY DEF BackupInv, BackupShape
<1> QED
  BY <1>1, <1>2 DEF WholeInv, BackupSettings, BackupFull, BackupEven, BackupWhole

LEMMA WholeService ==
  ASSUME WholeInv, BackupInv', Backup!Service, ~Backup!Exit PROVE WholeInv'
<1>0. backupMain \in Backup!Mains /\ backupMain.db \in BackupReals /\ BackupKeys
  BY DEF WholeInv, BackupInv, BackupReal, Backup!TypeOK
<1>1. CASE Backup!Change
  <2> DEFINE d == [backupMain.db EXCEPT !.changes = @ + 1]
  <2>1. /\ backupMain' = [backupMain EXCEPT !.db = d] /\ backupProc = "up"
        /\ UNCHANGED <<backupStage, backupPlan, backupProc, backupStep>>
    BY <1>1 DEF Backup!Change
  <2>2. d.key = backupMain.db.key
    BY <1>0 DEF BackupReals
  <2> HIDE DEF d
  <2>3. /\ backupMain'.db.key = backupMain.db.key /\ backupMain'.secret = backupMain.secret
        /\ backupMain'.favs = backupMain.favs
    BY <1>0, <2>1, <2>2 DEF Backup!Mains
  <2>4. BackupKeys'
    BY <1>0, <2>1, <2>3 DEF BackupKeys, BackupStaging
  <2> QED
    BY <2>1, <2>3, <2>4, WholeUp
<1>2. CASE \E scope \in Backup!Scopes : Backup!PrepareStage(scope)
  <2>1. PICK scope \in {"settings", "full"} : Backup!PrepareStage(scope)
    BY <1>2, BackupTypes
  <2>2. /\ backupProc = "up" /\ backupProc' = "up" /\ backupPlan' = "none"
        /\ backupStage' = [present |-> Backup!Staged(scope), dir |-> TRUE,
              db |-> IF scope = "settings" THEN [backupMain.db EXCEPT !.settings = "backup"]
                     ELSE [settings |-> "backup", key |-> "backup", changes |-> 0]]
        /\ backupMain' = backupMain
    BY <2>1 DEF Backup!PrepareStage
  <2>3. /\ backupStage'.present = Backup!Staged(scope)
        /\ backupStage'.db.key = IF scope = "settings" THEN backupMain.db.key ELSE "backup"
    BY <1>0, <2>2 DEF BackupReals
  <2>4. BackupKeys'
    BY <2>2, <2>3, BackupTypes DEF BackupKeys, BackupStaging
  <2> QED
    BY <2>2, <2>4, WholeUp
<1>3. CASE Backup!PreparePlan
  <2>1. /\ backupProc = "up" /\ backupProc' = "up" /\ backupStep.at = "plan" /\ backupMain' = backupMain
        /\ backupStage.present \in BackupStages
        /\ \/ /\ backupPlan' = IF "secret" \in backupStage.present THEN "full" ELSE "settings"
              /\ backupStage' = backupStage /\ backupStep' = [at |-> "answer"]
           \/ backupPlan' = "none" /\ backupStep' = Backup!Idle
    BY <1>3 DEF Backup!PreparePlan, Backup!Goto, WholeInv, BackupInv, BackupShape
  <2>2. CASE backupPlan' = "none" /\ backupStep' = Backup!Idle
    <3>1. BackupKeys'
      BY <2>2, BackupTypes DEF BackupKeys, BackupStaging
    <3> QED BY <2>1, <3>1, WholeUp
  <2>3. CASE /\ backupPlan' = IF "secret" \in backupStage.present THEN "full" ELSE "settings"
             /\ backupStage' = backupStage /\ backupStep' = [at |-> "answer"]
    <3>1. backupPlan' \in {"full", "settings"} /\ backupStage.present = Backup!Staged(backupPlan')
      BY <2>1, <2>3, BackupTypes DEF BackupStages
    <3>2. BackupStaging("settings")' => BackupStaging("settings")
      BY <2>1, <2>3, <3>1 DEF BackupStaging
    <3>3. BackupStaging("full")' => BackupStaging("full")
      BY <2>1, <2>3, <3>1 DEF BackupStaging
    <3>4. BackupKeys'
      BY <1>0, <2>1, <2>3, <3>2, <3>3 DEF BackupKeys
    <3> QED BY <2>1, <3>4, WholeUp
  <2> QED BY <2>1, <2>2, <2>3
<1>4. CASE Backup!PrepareAnswer \/ Backup!CancelPlan
  <2>1. /\ backupProc = "up" /\ backupProc' = "up" /\ backupMain' = backupMain /\ backupStage' = backupStage
        /\ backupStep' = Backup!Idle
        /\ backupPlan' = "none" \/ (backupPlan' = backupPlan /\ backupStep.at = "answer")
    BY <1>4 DEF Backup!PrepareAnswer, Backup!CancelPlan, Backup!Unplanned, Backup!Goto
  <2>2. BackupKeys'
    BY <1>0, <2>1, BackupTypes DEF BackupKeys, BackupStaging
  <2> QED BY <2>1, <2>2, WholeUp
<1>5. CASE Backup!CancelStage \/ Backup!CancelDir
  <2>1. /\ backupProc = "up" /\ backupProc' = "up" /\ backupMain' = backupMain
        /\ backupStep' = [at |-> "empty"] \/ backupStep' = [at |-> "unplan"]
    BY <1>5 DEF Backup!CancelStage, Backup!CancelDir, Backup!Goto
  <2>2. BackupKeys'
    BY <2>1 DEF BackupKeys, BackupStaging
  <2> QED BY <2>1, <2>2, WholeUp
<1>6. CASE Backup!Cleanup
  <2>1. /\ backupProc = "up" /\ backupProc' = "up" /\ backupMain' = backupMain
        /\ backupPlan' = "none" /\ backupStep' = Backup!Idle
    BY <1>6 DEF Backup!Cleanup
  <2>2. BackupKeys'
    BY <2>1, BackupTypes DEF BackupKeys, BackupStaging
  <2> QED BY <2>1, <2>2, WholeUp
<1> QED
  BY <1>1, <1>2, <1>3, <1>4, <1>5, <1>6 DEF Backup!Service

LEMMA FaultOnce ==
  ASSUME OneFault, BackupInv, Backup!Fault
  PROVE  backupFaults = 0 /\ backupFaults' = 1 /\ backupFaults' = RestoreFaults
<1>1. backupFaults \in Nat /\ RestoreFaults \in Nat
  BY ServicesAssumption DEF BackupInv, Backup!TypeOK
<1> QED
  BY <1>1 DEF OneFault, Backup!Fault

\* The process ends or a start is refused, with the files as they are.
LEMMA WholeDown ==
  ASSUME OneFault, NoCancelCrash, WholeInv, BackupInv', backupStep.at \notin {"empty", "unplan"},
         backupProc' = "down", backupStep' = Backup!Idle,
         UNCHANGED <<backupMain, backupCopy, backupPlan>>, backupStage' = backupStage,
         \/ Backup!Fault
         \/ backupFaults' = backupFaults /\ backupStep.at \in {"idle", "validate", "copy"}
  PROVE  WholeInv'
<1>1. backupStep'.at = "idle"
  BY BackupTypes
<1>2. backupStep.at # "undo" \/ ~Backup!Fault
  BY FaultOnce DEF WholeInv
<1>3. BackupKeys'
  BY <1>1 DEF WholeInv, BackupKeys, BackupStaging
<1>4. BackupSettings'
  BY <1>1 DEF WholeInv, BackupSettings
<1>5. BackupFull'
  <2>1. CASE Backup!Fault
    BY <1>1, <2>1, FaultOnce DEF WholeInv, BackupFull
  <2>2. CASE backupFaults' = backupFaults /\ backupStep.at \in {"idle", "validate", "copy"}
    BY <1>1, <2>2 DEF WholeInv, BackupFull
  <2> QED BY <2>1, <2>2
<1>6. BackupEven'
  BY <1>1 DEF WholeInv, BackupEven
<1> QED
  BY <1>1, <1>3, <1>4, <1>5, <1>6 DEF WholeInv

LEMMA WholeEnds ==
  ASSUME OneFault, NoCancelCrash, WholeInv, BackupInv', Backup!Exit \/ Backup!Crash \/ Backup!Start
  PROVE  WholeInv'
<1>1. CASE Backup!Exit \/ Backup!Crash
  <2>1. /\ UNCHANGED <<backupMain, backupCopy, backupPlan>> /\ backupStage' = backupStage
        /\ backupProc' = "down" /\ backupStep' = Backup!Idle
        /\ Backup!Fault \/ (backupFaults' = backupFaults /\ backupStep.at = "idle")
    BY <1>1, BackupTypes DEF Backup!Exit, Backup!Crash, Backup!Down, Backup!Goto, Backup!fileVars
  <2>2. backupStep.at \notin {"empty", "unplan"}
    <3>1. CASE Backup!Exit
      BY <3>1, BackupTypes DEF Backup!Exit
    <3>2. CASE Backup!Crash
      BY <3>2, BackupTypes DEF Backup!Crash, Backup!Phase, NoCancelCrash, WholeInv, BackupInv, BackupShape, BackupBoots
    <3> QED BY <1>1, <3>1, <3>2
  <2> QED
    BY <2>1, <2>2, WholeDown
<1>2. CASE Backup!Start
  <2>1. /\ UNCHANGED <<backupMain, backupCopy, backupPlan, backupStage, backupFaults>>
        /\ backupStep = Backup!Idle /\ backupProc = "down"
        /\ \/ backupPlan = "none" /\ backupProc' = "up" /\ backupStep' = Backup!Idle
           \/ backupPlan # "none" /\ backupProc' = "boot" /\ backupStep' = [at |-> "validate"]
    BY <1>2 DEF Backup!Start, Backup!Goto, WholeInv, BackupInv, BackupShape, Backup!fileVars
  <2>2. backupStep.at = "idle" /\ (backupProc' = "boot" => backupStep'.at = "validate")
    BY <2>1, BackupTypes
  <2> QED
    BY <2>1, <2>2 DEF WholeInv, BackupKeys, BackupStaging, BackupSettings, BackupFull, BackupEven
<1> QED
  BY <1>1, <1>2


\* A start that goes on: the plan and what it installs stay.
LEMMA WholeGoes ==
  ASSUME WholeInv, BackupInv', backupProc = "boot", backupProc' = "boot", backupPlan' = backupPlan,
         backupStage' = backupStage, backupStep.at \in BackupBoots \ {"clear"},
         backupPlan = "settings" => backupMain'.db.key = backupMain.db.key,
         BackupSettings', BackupFull', BackupEven', backupStep'.at = "undo" => backupFaults' = RestoreFaults
  PROVE  WholeInv'
<1>1. backupStep'.at \in BackupBoots
  BY DEF BackupInv, BackupShape
<1>2. BackupKeys'
  BY <1>1 DEF WholeInv, BackupKeys, BackupStaging, BackupBoots
<1> QED
  BY <1>2 DEF WholeInv

LEMMA WholeReplace ==
  ASSUME OneFault, WholeInv, BackupInv', Backup!Replace PROVE WholeInv'
<1>1. /\ backupStep.at = "replace" /\ backupProc = "boot" /\ backupProc' = "boot"
      /\ backupStep.file \in 1..Backup!LastFile
      /\ UNCHANGED <<backupStage, backupPlan, backupCopy>> /\ backupPlan \in {"settings", "full"}
      /\ Backup!Staged(backupPlan) \subseteq backupStage.present
      /\ backupMain \in Backup!Mains /\ backupCopy \in Backup!Mains
  <2>1. /\ backupStep.at = "replace" /\ backupProc = "boot" /\ backupProc' = "boot"
        /\ backupStep.file \in 1..Backup!LastFile
        /\ UNCHANGED <<backupStage, backupPlan, backupCopy>> /\ backupPlan \in {"settings", "full"}
    BY BackupTypes DEF Backup!Replace, WholeInv, BackupInv, BackupShape, BackupBoots, Backup!TypeOK
  <2> QED
    BY <2>1 DEF WholeInv, BackupInv, Backup!StageKept, Backup!TypeOK
<1>2. PICK n \in 1..3 : n = backupStep.file
  BY <1>1 DEF Backup!LastFile
<1>3. Backup!Files[n] \in backupStage.present
  <2>1. backupPlan = "settings" => n = 1
    BY <1>1, <1>2 DEF Backup!LastFile
  <2>2. Backup!Files[n] \in Backup!Staged(backupPlan)
    BY <1>1, <2>1, BackupTypes
  <2> QED BY <1>1, <2>2
<1>4. CASE /\ backupMain' = Backup!Replaced(Backup!Files[n]) /\ UNCHANGED backupFaults
           /\ backupStep' = IF n = Backup!LastFile THEN [at |-> "check"] ELSE [backupStep EXCEPT !.file = n + 1]
  <2>1. CASE backupPlan = "settings"
    <3>1. n = 1 /\ n = Backup!LastFile
      BY <1>1, <1>2, <2>1 DEF Backup!LastFile
    <3>2. backupStep'.at = "check" /\ backupMain' = [backupMain EXCEPT !["db"] = backupStage.db]
      BY <1>4, <3>1, BackupTypes DEF Backup!Replaced
    <3>3. /\ backupMain'.db = backupStage.db /\ backupMain'.secret = backupMain.secret
          /\ backupMain'.favs = backupMain.favs
      BY <1>1, <3>2 DEF Backup!Mains
    <3>4. backupStage.db.key = backupMain.db.key
      BY <1>1, <2>1 DEF WholeInv, BackupKeys, BackupStaging
    <3>5. BackupWhole(backupMain) /\ BackupWhole(backupCopy) /\ backupCopy.db.key = backupMain.db.key
      BY <1>1, <2>1 DEF WholeInv, BackupSettings
    <3>6. BackupWhole(backupMain)'
      BY <3>3, <3>4, <3>5 DEF BackupWhole
    <3>7. BackupWhole(backupCopy)' /\ (backupCopy.db.key = backupMain.db.key)'
      BY <1>1, <3>3, <3>4, <3>5 DEF BackupWhole
    <3>8. BackupSettings' /\ BackupFull' /\ BackupEven'
      BY <1>1, <2>1, <3>2, <3>6, <3>7 DEF BackupSettings, BackupFull, BackupEven
    <3> QED
      BY <1>1, <3>2, <3>3, <3>4, <3>8, WholeGoes DEF BackupBoots
  <2>2. CASE backupPlan = "full"
    <3>1. /\ Backup!LastFile = 3 /\ backupStage.db.key = "backup"
          /\ BackupWhole(backupCopy) \/ backupFaults # 0
          /\ n > 1 => backupMain.db.key = "backup"
          /\ n > 2 => backupMain.secret = "backup"
      BY <1>1, <1>2, <2>2 DEF WholeInv, BackupKeys, BackupStaging, BackupFull, Backup!LastFile
    <3>2. (BackupWhole(backupCopy) \/ backupFaults # 0)'
      BY <1>1, <1>4, <3>1 DEF BackupWhole
    <3>3. /\ backupMain'.db = IF n = 1 THEN backupStage.db ELSE backupMain.db
          /\ backupMain'.secret = IF n = 2 THEN "backup" ELSE backupMain.secret
          /\ backupMain'.favs = IF n = 3 THEN "backup" ELSE backupMain.favs
      <4>1. CASE n = 1
        BY <1>1, <1>4, <4>1, BackupTypes DEF Backup!Replaced, Backup!Mains
      <4>2. CASE n = 2
        BY <1>1, <1>4, <4>2, BackupTypes DEF Backup!Replaced, Backup!Mains
      <4>3. CASE n = 3
        BY <1>1, <1>4, <4>3, BackupTypes DEF Backup!Replaced, Backup!Mains
      <4> QED BY <4>1, <4>2, <4>3
    <3>4. CASE n = 3
      <4>1. backupStep'.at = "check" /\ BackupWhole(backupMain)'
        BY <1>4, <3>1, <3>3, <3>4 DEF BackupWhole
      <4>2. BackupSettings' /\ BackupFull' /\ BackupEven'
        BY <1>1, <2>2, <3>2, <4>1 DEF BackupSettings, BackupFull, BackupEven
      <4> QED
        BY <1>1, <2>2, <4>1, <4>2, WholeGoes DEF BackupBoots
    <3>5. CASE n # 3
      <4>0. backupStep \in [at : {"replace", "undo"}, file : 1..4]
        BY <1>1, BackupStepOf DEF WholeInv, BackupInv, Backup!TypeOK
      <4>1. backupStep' = [backupStep EXCEPT !.file = n + 1]
        BY <1>4, <3>1, <3>5
      <4>2. backupStep'.at = "replace" /\ backupStep'.file = n + 1
        BY <1>1, <4>0, <4>1
      <4>3. /\ backupStep'.file > 1 => backupMain'.db.key = "backup"
            /\ backupStep'.file > 2 => backupMain'.secret = "backup"
        BY <3>1, <3>3, <3>5, <4>2
      <4>4. BackupSettings' /\ BackupFull' /\ BackupEven'
        BY <1>1, <2>2, <3>2, <4>2, <4>3 DEF BackupSettings, BackupFull, BackupEven
      <4> QED
        BY <1>1, <2>2, <4>2, <4>4, WholeGoes DEF BackupBoots
    <3> QED BY <3>4, <3>5
  <2> QED BY <1>1, <2>1, <2>2
<1>5. CASE Backup!Fault /\ backupStep' = Backup!AfterFailure /\ backupMain' = backupMain
  <2>1. /\ backupStep'.at = "undo" /\ backupStep'.file = 1 /\ backupFaults = 0 /\ backupFaults' = RestoreFaults
    BY <1>5, FaultOnce DEF Backup!AfterFailure, WholeInv
  <2>2. BackupSettings'
    BY <1>1, <1>5 DEF WholeInv, BackupSettings, BackupWhole
  <2>3. BackupFull'
    BY <1>1, <1>5, <2>1 DEF WholeInv, BackupFull, BackupWhole
  <2>4. BackupEven'
    BY <1>1, <2>1 DEF BackupEven
  <2> QED
    BY <1>1, <1>5, <2>1, <2>2, <2>3, <2>4, WholeGoes DEF BackupBoots
<1> QED
  BY <1>2, <1>3, <1>4, <1>5 DEF Backup!Replace, Backup!Goto

LEMMA WholeUndo ==
  ASSUME OneFault, WholeInv, BackupInv', Backup!Undo PROVE WholeInv'
<1>1. /\ backupStep.at = "undo" /\ backupProc = "boot" /\ backupStep.file \in 1..3
      /\ backupPlan \in {"settings", "full"} /\ backupFaults = RestoreFaults
      /\ UNCHANGED <<backupStage, backupPlan, backupCopy>>
      /\ backupMain \in Backup!Mains /\ backupCopy \in Backup!Mains
      /\ backupFaults \in Nat /\ RestoreFaults \in Nat
  BY ServicesAssumption, BackupTypes DEF Backup!Undo, WholeInv, BackupInv, BackupShape, BackupBoots, Backup!TypeOK
<1>2. PICK n \in 1..3 : n = backupStep.file
  BY <1>1
<1>3. ~Backup!Fault
  BY <1>1 DEF Backup!Fault
<1>4. /\ backupProc' = "boot" /\ backupFaults' = backupFaults
      /\ backupMain' = [backupMain EXCEPT ![Backup!Files[n]] = backupCopy[Backup!Files[n]]]
      /\ backupStep' = IF n = 3 THEN [at |-> "result", state |-> "rolledback"] ELSE [backupStep EXCEPT !.file = n + 1]
  BY <1>1, <1>2, <1>3 DEF Backup!Undo, Backup!Undone, Backup!Goto
<1>5. /\ backupMain'.db = IF n = 1 THEN backupCopy.db ELSE backupMain.db
      /\ backupMain'.secret = IF n = 2 THEN backupCopy.secret ELSE backupMain.secret
      /\ backupMain'.favs = IF n = 3 THEN backupCopy.favs ELSE backupMain.favs
  <2>1. CASE n = 1
    BY <1>1, <1>4, <2>1, BackupTypes DEF Backup!Mains
  <2>2. CASE n = 2
    BY <1>1, <1>4, <2>2, BackupTypes DEF Backup!Mains
  <2>3. CASE n = 3
    BY <1>1, <1>4, <2>3, BackupTypes DEF Backup!Mains
  <2> QED BY <2>1, <2>2, <2>3
<1>6. /\ BackupWhole(backupCopy)
      /\ backupPlan = "settings" => BackupWhole(backupMain) /\ backupCopy.db.key = backupMain.db.key
      /\ backupPlan = "full" => /\ n > 1 => backupMain.db = backupCopy.db
                                /\ n > 2 => backupMain.secret = backupCopy.secret
  BY <1>1, <1>2 DEF WholeInv, BackupSettings, BackupFull
<1>7. BackupWhole(backupCopy)'
  BY <1>1, <1>6 DEF BackupWhole
<1>8. backupPlan = "settings" =>
        BackupWhole(backupMain)' /\ (backupCopy.db.key = backupMain.db.key)' /\ backupMain'.db.key = backupMain.db.key
  BY <1>1, <1>5, <1>6 DEF BackupWhole
<1>9. CASE n = 3
  <2>1. backupStep'.at = "result"
    BY <1>4, <1>9
  <2>2. BackupWhole(backupMain)'
    BY <1>1, <1>5, <1>6, <1>8, <1>9 DEF BackupWhole
  <2>3. BackupSettings' /\ BackupFull' /\ BackupEven'
    BY <1>1, <2>1, <2>2 DEF BackupSettings, BackupFull, BackupEven
  <2> QED
    BY <1>1, <1>4, <1>8, <2>1, <2>3, WholeGoes DEF BackupBoots
<1>10. CASE n # 3
  <2>0. backupStep \in [at : {"replace", "undo"}, file : 1..4]
    BY <1>1, BackupStepOf DEF WholeInv, BackupInv, Backup!TypeOK
  <2>1. backupStep'.at = "undo" /\ backupStep'.file = n + 1
    BY <1>1, <1>4, <1>10, <2>0
  <2>2. backupPlan = "full" => /\ backupStep'.file > 1 => backupMain'.db = backupCopy.db
                               /\ backupStep'.file > 2 => backupMain'.secret = backupCopy.secret
    BY <1>5, <1>6, <1>10, <2>1
  <2>3. BackupSettings' /\ BackupEven'
    BY <1>1, <1>4, <1>7, <1>8, <2>1 DEF BackupSettings, BackupEven
  <2>4. BackupFull'
    BY <1>1, <1>7, <2>1, <2>2 DEF BackupFull
  <2> QED
    BY <1>1, <1>4, <1>8, <2>1, <2>3, <2>4, WholeGoes DEF BackupBoots
<1> QED
  BY <1>9, <1>10

LEMMA WholeBoot ==
  ASSUME OneFault, NoCancelCrash, WholeInv, BackupInv', Backup!Boot PROVE WholeInv'
<1>b. backupProc = "boot" /\ backupStep.at \in BackupBoots
  BY DEF Backup!Boot, Backup!Validate, Backup!RollbackCopy, Backup!Replace, Backup!Check, Backup!Undo,
         Backup!FinishResult, Backup!FinishPlan, Backup!FinishStage, BackupBoots
<1>p. backupStep.at # "clear" => backupPlan \in {"settings", "full"}
  BY <1>b, BackupTypes DEF WholeInv, BackupInv, BackupShape, BackupBoots, Backup!TypeOK
<1>1. CASE backupProc' = "down"
  <2>1. CASE Backup!Undo
    BY <2>1, WholeUndo
  <2>2. CASE ~Backup!Undo
    <3>1. /\ backupStep' = Backup!Idle /\ UNCHANGED <<backupMain, backupCopy, backupPlan>> /\ backupStage' = backupStage
          /\ Backup!Fault \/ (backupFaults' = backupFaults /\ backupStep.at = "validate")
      BY <1>1, <1>b, <2>2 DEF Backup!Boot, Backup!Validate, Backup!RollbackCopy, Backup!Replace, Backup!Check,
             Backup!FinishResult, Backup!FinishPlan, Backup!FinishStage, Backup!Refuse, Backup!Down, Backup!Goto
    <3> QED BY <1>1, <1>b, <3>1, WholeDown DEF BackupBoots
  <2> QED BY <2>1, <2>2
<1>2. CASE Backup!Validate /\ backupProc' # "down"
  <2>1. /\ backupStep.at = "validate" /\ backupStep' = [at |-> "copy"] /\ backupProc' = "boot"
        /\ UNCHANGED <<backupMain, backupPlan, backupCopy, backupFaults>>
        /\ backupStage' = [backupStage EXCEPT !.present = @ \cup {"db"},
                              !.db = IF "db" \in backupStage.present THEN @ ELSE Backup!Empty]
    BY <1>2, <1>b DEF Backup!Validate, Backup!Goto, Backup!Refuse, Backup!Down
  <2>2. backupStage' = backupStage
    <3>1. backupStage \in [present : SUBSET {"db", "secret", "favs"}, dir : BOOLEAN, db : Backup!Databases]
      BY DEF WholeInv, BackupInv, Backup!TypeOK
    <3>2. Backup!Staged(backupPlan) \subseteq backupStage.present
      BY <1>p, <2>1 DEF WholeInv, BackupInv, Backup!StageKept
    <3>3. "db" \in backupStage.present
      BY <1>p, <2>1, <3>2, BackupTypes
    <3>4. backupStage.present \cup {"db"} = backupStage.present
      BY <3>3
    <3>5. backupStage' = [backupStage EXCEPT !.present = backupStage.present, !.db = backupStage.db]
      BY <2>1, <3>3, <3>4
    <3> QED BY <3>1, <3>5
  <2>3. BackupSettings' /\ BackupFull' /\ BackupEven'
    BY <1>p, <2>1 DEF WholeInv, BackupSettings, BackupFull, BackupEven, BackupWhole
  <2> QED
    BY <1>b, <2>1, <2>2, <2>3, WholeGoes DEF BackupBoots
<1>3. CASE Backup!RollbackCopy /\ backupProc' # "down"
  <2>1. /\ backupStep.at = "copy" /\ backupStep' = [at |-> "replace", file |-> 1] /\ backupProc' = "boot"
        /\ UNCHANGED <<backupMain, backupPlan, backupStage, backupFaults>> /\ backupCopy' = backupMain
    BY <1>3, <1>b DEF Backup!RollbackCopy, Backup!Goto, Backup!Refuse, Backup!Down
  <2>2. BackupSettings' /\ BackupFull' /\ BackupEven'
    BY <1>p, <2>1 DEF WholeInv, BackupSettings, BackupFull, BackupEven, BackupWhole
  <2> QED
    BY <1>b, <2>1, <2>2, WholeGoes DEF BackupBoots
<1>4. CASE Backup!Check
  <2>1. /\ backupStep.at = "check" /\ backupProc' = "boot"
        /\ UNCHANGED <<backupMain, backupPlan, backupStage, backupCopy>>
        /\ \/ backupStep' = [at |-> "result", state |-> "success"] /\ backupFaults' = backupFaults
           \/ backupStep' = [at |-> "undo", file |-> 1] /\ Backup!Fault
    BY <1>4, <1>b DEF Backup!Check, Backup!Goto, Backup!fileVars, Backup!AfterFailure
  <2>2. backupStep'.at = "undo" => backupFaults = 0 /\ backupFaults' = RestoreFaults /\ backupStep'.file = 1
    BY <2>1, FaultOnce DEF WholeInv
  <2>3. BackupSettings'
    BY <1>p, <2>1 DEF WholeInv, BackupSettings, BackupWhole
  <2>4. BackupFull'
    BY <1>p, <2>1, <2>2 DEF WholeInv, BackupFull, BackupWhole
  <2>5. BackupEven'
    BY <1>p, <2>1 DEF WholeInv, BackupEven, BackupWhole
  <2> QED
    BY <1>b, <2>1, <2>2, <2>3, <2>4, <2>5, WholeGoes DEF BackupBoots
<1>5. CASE Backup!FinishResult /\ backupProc' # "down"
  <2>1. /\ backupStep.at = "result" /\ backupStep' = [backupStep EXCEPT !.at = "done"] /\ backupProc' = "boot"
        /\ UNCHANGED <<backupMain, backupPlan, backupStage, backupCopy, backupFaults>>
    BY <1>5, <1>b DEF Backup!FinishResult, Backup!Goto, Backup!Refuse, Backup!Down
  <2>2. backupStep \in [at : {"result", "done", "clear"}, state : {"success", "rolledback"}]
    BY <2>1, BackupStepOf DEF WholeInv, BackupInv, Backup!TypeOK
  <2>3. backupStep'.at = "done"
    BY <2>1, <2>2
  <2>4. BackupSettings' /\ BackupFull' /\ BackupEven'
    BY <1>p, <2>1, <2>3 DEF WholeInv, BackupSettings, BackupFull, BackupEven, BackupWhole
  <2> QED
    BY <1>b, <2>1, <2>3, <2>4, WholeGoes DEF BackupBoots
<1>6. CASE Backup!FinishPlan /\ backupProc' # "down"
  <2>1. /\ backupStep.at = "done" /\ backupStep' = [backupStep EXCEPT !.at = "clear"] /\ backupPlan' = "none"
        /\ UNCHANGED <<backupMain, backupStage, backupCopy>>
    BY <1>6, <1>b DEF Backup!FinishPlan, Backup!Goto, Backup!Refuse, Backup!Down
  <2>2. backupStep \in [at : {"result", "done", "clear"}, state : {"success", "rolledback"}]
    BY <2>1, BackupStepOf DEF WholeInv, BackupInv, Backup!TypeOK
  <2>3. backupStep'.at = "clear"
    BY <2>1, <2>2
  <2> QED
    BY <2>1, <2>3 DEF WholeInv, BackupKeys, BackupStaging, BackupSettings, BackupFull, BackupEven, BackupWhole
<1>7. CASE Backup!FinishStage /\ backupProc' # "down"
  <2>1. /\ backupStep.at = "clear" /\ backupStep' = Backup!Idle /\ backupPlan' = backupPlan
        /\ backupMain' = backupMain /\ backupPlan = "none"
    BY <1>7, <1>b DEF Backup!FinishStage, Backup!Goto, Backup!Down, WholeInv, BackupInv, BackupShape
  <2>2. backupStep'.at = "idle"
    BY <2>1, BackupTypes
  <2> QED
    BY <2>1, <2>2 DEF WholeInv, BackupKeys, BackupStaging, BackupSettings, BackupFull, BackupEven, BackupWhole
<1> QED
  BY <1>1, <1>2, <1>3, <1>4, <1>5, <1>6, <1>7, WholeReplace, WholeUndo DEF Backup!Boot

LEMMA WholeNext ==
  ASSUME OneFault, NoCancelCrash PROVE WholeInv /\ [Backup!Next]_backupVars => WholeInv'
<1> SUFFICES ASSUME WholeInv, [Backup!Next]_backupVars PROVE WholeInv'
  OBVIOUS
<1>1. BackupInv'
  BY BackupNext DEF WholeInv
<1>2. CASE UNCHANGED backupVars
  BY <1>1, <1>2 DEF backupVars, WholeInv, BackupKeys, BackupStaging, BackupSettings, BackupFull, BackupEven, BackupWhole
<1>3. CASE Backup!Next
  BY <1>1, <1>3, WholeService, WholeEnds, WholeBoot DEF Backup!Next, Backup!Service
<1> QED
  BY <1>2, <1>3

\* The other components leave the backup alone.
LEMMA BackupFocus ==
  /\ SumInit => Backup!Init
  /\ [SumNext]_sumVars => [Backup!Next]_backupVars
BY DEF SumInit, SumNext, sumVars, backupVars

\* Whatever fails, and however often the application is restarted, what a plan that waits
\* refers to stays complete, and no database is replaced by an empty one; a crash in the
\* middle of CancelPending is excluded, which removes the staged files before the plan.
THEOREM StagedFilesStay ==
  ASSUME NoCancelCrash PROVE SumSpec => [](Backup!TypeOK /\ Backup!StageKept /\ Backup!NeverEmpty)
<1>1. BackupInv => Backup!TypeOK /\ Backup!StageKept /\ Backup!NeverEmpty
  <2> SUFFICES ASSUME BackupInv PROVE backupMain.db # Backup!Empty
    BY DEF BackupInv, Backup!NeverEmpty
  <2>1. backupMain.db.settings \in {"live", "backup"} /\ Backup!Empty.settings = "none"
    BY DEF BackupInv, BackupReal, BackupReals, Backup!Origins, Backup!Empty
  <2> QED BY <2>1
<1>2. BackupInv /\ [Backup!Next]_backupVars => BackupInv'
  BY BackupNext
<1> QED
  BY <1>1, <1>2, BackupInit, BackupFocus, PTL DEF SumSpec

\* With at most one crash or failure the application never starts on files of two sides:
\* a restore that is interrupted is carried out again from its plan, and one that fails
\* is undone from a copy that was taken before anything was replaced (applyStagedFiles,
\* restoreRollback, ApplyPending).
THEOREM RestoresAreWhole == ASSUME OneFault, NoCancelCrash PROVE SumSpec => []RestoreIsWhole
<1>1. WholeInv => RestoreIsWhole
  BY DEF WholeInv, BackupInv, BackupEven, BackupWhole, RestoreIsWhole, Backup!StartsWhole
<1>2. WholeInv /\ [Backup!Next]_backupVars => WholeInv'
  BY WholeNext
<1> QED
  BY <1>1, <1>2, WholeInit, BackupFocus, PTL DEF SumSpec

-----------------------------------------------------------------------------
(***************************************************************************)
(* PendingRestore: how a restore ends                                      *)
(***************************************************************************)
\* A plan belongs to a restore that was asked for, and it goes only after its result is
\* on the disk.
BackupEnded ==
  /\ backupPlan # "none" \/ backupStep.at = "clear" => backupAsked
  /\ backupProc = "up" /\ backupPlan = "none" => ~backupAsked
  /\ backupStep.at \in {"done", "clear"} => backupResult = backupStep.state
  /\ backupAsked /\ backupPlan = "none" => backupResult # "none"

EndedInv == BackupInv /\ BackupEnded

LEMMA EndedInit == Backup!Init => EndedInv
<1> SUFFICES ASSUME Backup!Init PROVE EndedInv
  OBVIOUS
<1>1. backupPlan = "none" /\ ~backupAsked /\ backupStep.at = "idle"
  BY DEF Backup!Init, Backup!Idle
<1> QED
  BY <1>1, BackupInit DEF EndedInv, BackupEnded

LEMMA EndedService ==
  ASSUME EndedInv, BackupInv', Backup!Service, ~Backup!Exit PROVE EndedInv'
<1>1. backupProc = "up" /\ backupProc' = "up"
  BY DEF Backup!Service, Backup!Change, Backup!PrepareStage, Backup!PreparePlan, Backup!PrepareAnswer,
         Backup!CancelStage, Backup!CancelDir, Backup!CancelPlan, Backup!Unplanned, Backup!Cleanup
<1>2. backupStep'.at \notin {"done", "clear"}
  BY <1>1 DEF BackupInv, BackupShape
<1>3. (backupPlan' # "none") = backupAsked'
  <2>1. (backupPlan # "none") = backupAsked
    BY <1>1 DEF EndedInv, BackupEnded, BackupInv, Backup!TypeOK
  <2>2. CASE Backup!PreparePlan
    <3>1. backupStep.at = "plan" /\ backupPlan = "none"
      BY <2>2 DEF Backup!PreparePlan, EndedInv, BackupInv, BackupShape
    <3> QED BY <2>1, <2>2, <3>1 DEF Backup!PreparePlan
  <2>3. CASE Backup!CancelPlan
    BY <2>3 DEF Backup!CancelPlan
  <2>4. CASE ~Backup!PreparePlan /\ ~Backup!CancelPlan
    <3>1. UNCHANGED <<backupPlan, backupAsked>>
      BY <2>4 DEF Backup!Service, Backup!Change, Backup!PrepareStage, Backup!PrepareAnswer,
                  Backup!CancelStage, Backup!CancelDir, Backup!Cleanup
    <3> QED BY <2>1, <3>1
  <2> QED BY <2>2, <2>3, <2>4
<1> QED
  BY <1>1, <1>2, <1>3 DEF EndedInv, BackupEnded

LEMMA EndedEnds ==
  ASSUME EndedInv, BackupInv', Backup!Exit \/ Backup!Crash \/ Backup!Start PROVE EndedInv'
<1>1. /\ backupStep'.at \notin {"done", "clear"}
      /\ UNCHANGED <<backupPlan, backupResult>>
      /\ \/ backupProc' # "up" /\ backupAsked' = backupAsked
         \/ backupPlan = "none" /\ backupAsked' = FALSE
  <2>1. CASE Backup!Exit \/ Backup!Crash
    BY <2>1, BackupTypes DEF Backup!Exit, Backup!Crash, Backup!Down, Backup!Goto, Backup!fileVars
  <2>2. CASE Backup!Start
    <3>1. UNCHANGED <<backupPlan, backupResult>>
      BY <2>2 DEF Backup!Start, Backup!fileVars
    <3>2. CASE backupPlan = "none"
      <4>1. backupAsked' = FALSE /\ backupProc' = "up"
        BY <2>2, <3>2 DEF Backup!Start
      <4> QED BY <3>1, <3>2, <4>1 DEF BackupInv, BackupShape
    <3>3. CASE backupPlan # "none"
      BY <2>2, <3>1, <3>3 DEF Backup!Start, Backup!Goto
    <3> QED BY <3>2, <3>3
  <2> QED BY <2>1, <2>2
<1> QED
  BY <1>1 DEF EndedInv, BackupEnded

\* A step of the start that leaves the plan alone.
LEMMA EndedGoes ==
  ASSUME EndedInv, BackupInv', backupProc' # "up",
         UNCHANGED <<backupPlan, backupAsked>>, backupStep'.at # "clear",
         \/ backupResult' = backupResult /\ backupStep'.at # "done"
         \/ backupPlan # "none" /\ (backupStep'.at = "done" => backupResult' = backupStep'.state)
  PROVE  EndedInv'
BY DEF EndedInv, BackupEnded

LEMMA EndedBoot == ASSUME EndedInv, BackupInv', Backup!Boot PROVE EndedInv'
<1>i. Backup!Idle.at = "idle"
  BY BackupTypes
<1>0. /\ backupStep \in Backup!Steps
      /\ backupStep.at \in BackupBoots \ {"clear"} => backupPlan # "none"
      /\ backupStep.at = "clear" => backupPlan = "none"
  BY DEF EndedInv, BackupInv, Backup!TypeOK, BackupShape
<1>1. CASE Backup!Validate \/ Backup!RollbackCopy \/ Backup!Replace \/ Backup!Check \/ Backup!Undo
  <2>1. UNCHANGED <<backupPlan, backupResult, backupAsked>> /\ backupProc' # "up"
    BY <1>1 DEF Backup!Validate, Backup!RollbackCopy, Backup!Replace, Backup!Check, Backup!Undo,
                Backup!Refuse, Backup!Down, Backup!fileVars
  <2>2. backupStep'.at \notin {"done", "clear"}
    <3>1. CASE Backup!Validate \/ Backup!RollbackCopy
      BY <1>i, <3>1 DEF Backup!Validate, Backup!RollbackCopy, Backup!Refuse, Backup!Down, Backup!Goto
    <3>2. CASE Backup!Check
      BY <3>2 DEF Backup!Check, Backup!AfterFailure, Backup!Goto
    <3>3. CASE Backup!Replace \/ Backup!Undo
      <4>1. backupStep \in [at : {"replace", "undo"}, file : 1..4]
        BY <1>0, <3>3, BackupStepOf DEF Backup!Replace, Backup!Undo
      <4>2. \A m : [backupStep EXCEPT !.file = m].at = backupStep.at
        BY <4>1
      <4>3. backupStep'.at \in {"check", "undo", "result", "idle"} \/ backupStep' = [backupStep EXCEPT !.file = backupStep.file + 1]
        BY <1>i, <3>3 DEF Backup!Replace, Backup!Undo, Backup!AfterFailure, Backup!Down, Backup!Goto
      <4> QED
        BY <4>1, <4>2, <4>3
    <3> QED BY <1>1, <3>1, <3>2, <3>3
  <2> QED BY <2>1, <2>2, EndedGoes
<1>2. CASE Backup!FinishResult
  <2>1. backupStep \in [at : {"result", "done", "clear"}, state : {"success", "rolledback"}]
    BY <1>0, <1>2, BackupStepOf DEF Backup!FinishResult
  <2>2. [backupStep EXCEPT !.at = "done"].at = "done" /\ [backupStep EXCEPT !.at = "done"].state = backupStep.state
    BY <2>1
  <2>3. /\ backupPlan # "none" /\ UNCHANGED <<backupPlan, backupAsked>> /\ backupProc' # "up"
        /\ \/ backupResult' = backupStep.state /\ backupStep' = [backupStep EXCEPT !.at = "done"]
           \/ backupResult' = backupResult /\ backupStep' = Backup!Idle
    BY <1>0, <1>2 DEF Backup!FinishResult, Backup!Refuse, Backup!Down, Backup!Goto, BackupBoots
  <2> QED BY <1>i, <2>2, <2>3, EndedGoes
<1>3. CASE Backup!FinishPlan
  <2>1. backupStep \in [at : {"result", "done", "clear"}, state : {"success", "rolledback"}]
    BY <1>0, <1>3, BackupStepOf DEF Backup!FinishPlan
  <2>2. /\ [backupStep EXCEPT !.at = "clear"].at = "clear"
        /\ [backupStep EXCEPT !.at = "clear"].state = backupStep.state /\ backupStep.state # "none"
    BY <2>1
  <2>3. /\ backupPlan # "none" /\ UNCHANGED <<backupResult, backupAsked>> /\ backupProc' # "up"
        /\ backupStep.at = "done"
        /\ \/ backupPlan' = "none" /\ backupStep' = [backupStep EXCEPT !.at = "clear"]
           \/ backupPlan' = backupPlan /\ backupStep' = Backup!Idle
    BY <1>0, <1>3 DEF Backup!FinishPlan, Backup!Refuse, Backup!Down, Backup!Goto, BackupBoots
  <2> QED BY <1>i, <2>2, <2>3 DEF EndedInv, BackupEnded
<1>4. CASE Backup!FinishStage
  <2>1. /\ backupPlan = "none" /\ UNCHANGED <<backupPlan, backupResult>> /\ backupStep'.at = "idle"
        /\ \/ backupAsked' = FALSE
           \/ backupAsked' = backupAsked /\ backupProc' # "up"
    BY <1>0, <1>4, <1>i DEF Backup!FinishStage, Backup!Down, Backup!Goto
  <2> QED BY <2>1 DEF EndedInv, BackupEnded
<1> QED
  BY <1>1, <1>2, <1>3, <1>4 DEF Backup!Boot

LEMMA EndedNext == ASSUME NoCancelCrash PROVE EndedInv /\ [Backup!Next]_backupVars => EndedInv'
<1> SUFFICES ASSUME EndedInv, [Backup!Next]_backupVars PROVE EndedInv'
  OBVIOUS
<1>1. BackupInv'
  BY BackupNext DEF EndedInv
<1>2. CASE UNCHANGED backupVars
  BY <1>1, <1>2 DEF backupVars, EndedInv, BackupEnded
<1>3. CASE Backup!Next
  BY <1>1, <1>3, EndedService, EndedEnds, EndedBoot DEF Backup!Next, Backup!Service
<1> QED
  BY <1>2, <1>3

\* How the application comes up: without a plan, or at the end of a restore.
LEMMA ComesUp ==
  ASSUME BackupInv, [Backup!Next]_backupVars, backupProc # "up", backupProc' = "up"
  PROVE  /\ UNCHANGED <<backupMain, backupResult>> /\ backupPlan = "none"
         /\ backupProc = "down" \/ backupStep.at = "clear"
<1>1. Backup!Next
  BY DEF backupVars
<1>2. CASE Backup!Start
  BY <1>2 DEF Backup!Start, Backup!fileVars
<1>3. CASE Backup!FinishStage
  BY <1>3 DEF Backup!FinishStage, Backup!Down, BackupInv, BackupShape
<1>4. CASE ~Backup!Start /\ ~Backup!FinishStage
  BY <1>1, <1>4 DEF Backup!Next, Backup!Crash, Backup!Boot, Backup!Validate, Backup!RollbackCopy, Backup!Replace,
         Backup!Check, Backup!Undo, Backup!FinishResult, Backup!FinishPlan, Backup!Refuse, Backup!Down,
         Backup!Service, Backup!Change, Backup!PrepareStage, Backup!PreparePlan, Backup!PrepareAnswer,
         Backup!CancelStage, Backup!CancelDir, Backup!CancelPlan, Backup!Unplanned, Backup!Cleanup, Backup!Exit
<1> QED
  BY <1>2, <1>3, <1>4

\* A restore that was prepared and not canceled ends with a result, whatever crashes and
\* failures come in between: finishPendingRestore writes it before the plan goes.
THEOREM RestoresEndWithResult ==
  ASSUME NoCancelCrash PROVE SumSpec => Backup!PreparedEndsWithResult
<1> DEFINE Ends == backupProc # "up" /\ backupProc' = "up" /\ backupAsked => backupResult' # "none"
<1>1. EndedInv /\ [Backup!Next]_backupVars => [Ends]_(Backup!vars)
  BY ComesUp DEF EndedInv, BackupEnded
<1>2. EndedInv /\ [Backup!Next]_backupVars => EndedInv'
  BY EndedNext
<1>3. Backup!PreparedEndsWithResult <=> [][Ends]_(Backup!vars)
  BY PTL DEF Backup!PreparedEndsWithResult
<1> HIDE DEF Ends
<1> QED
  BY <1>1, <1>2, <1>3, EndedInit, BackupFocus, PTL DEF SumSpec

-----------------------------------------------------------------------------
\* What the application last had is in the files or in the rollback directory.
BackupUntouched ==
  /\ backupProc = "down" /\ backupPlan = "none" /\ (~backupAsked \/ backupResult = "rolledback") =>
       backupMain = backupBefore
  /\ (/\ backupFaults = 0 /\ backupPlan # "none" /\ backupProc # "up"
      /\ backupStep.at \in {"idle", "validate", "copy"}) => backupMain = backupBefore
  /\ backupFaults = 0 /\ backupStep.at \in {"replace", "check"} => backupCopy = backupBefore
  /\ backupStep.at = "undo" => backupCopy = backupBefore
  /\ backupStep.at \in {"result", "done", "clear"} /\ backupStep.state = "rolledback" =>
       backupMain = backupBefore

\* The files that restoreRollback has put back so far.
BackupUndoing ==
  backupStep.at = "undo" =>
    /\ backupStep.file > 1 => backupMain.db = backupCopy.db
    /\ backupStep.file > 2 => backupMain.secret = backupCopy.secret

UntouchedInv ==
  /\ EndedInv /\ BackupUntouched /\ BackupUndoing
  /\ backupStep.at = "undo" => backupFaults = RestoreFaults

LEMMA UntouchedInit == Backup!Init => UntouchedInv
<1> SUFFICES ASSUME Backup!Init PROVE UntouchedInv
  OBVIOUS
<1>1. backupProc = "up" /\ backupStep.at = "idle"
  BY DEF Backup!Init, Backup!Idle
<1> QED
  BY <1>1, EndedInit DEF UntouchedInv, BackupUntouched, BackupUndoing

\* While the application runs nothing is promised of its files.
LEMMA UntouchedUp ==
  ASSUME UntouchedInv, EndedInv', backupProc' = "up" PROVE UntouchedInv'
<1>1. backupStep'.at \in {"idle", "plan", "answer", "empty", "unplan"}
  BY DEF EndedInv, BackupInv, BackupShape
<1> QED
  BY <1>1 DEF UntouchedInv, BackupUntouched, BackupUndoing

LEMMA UntouchedEnds ==
  ASSUME OneFault, UntouchedInv, EndedInv', Backup!Exit \/ Backup!Crash PROVE UntouchedInv'
<1>1. /\ UNCHANGED <<backupMain, backupPlan, backupResult, backupCopy, backupAsked>>
      /\ backupProc' = "down" /\ backupStep'.at = "idle"
      /\ backupBefore' = IF backupProc = "up" THEN backupMain ELSE backupBefore
      /\ backupProc = "up" \/ (backupProc = "boot" /\ Backup!Fault)
  BY BackupTypes DEF Backup!Exit, Backup!Crash, Backup!Down, Backup!Goto, Backup!fileVars, Backup!Remember,
       UntouchedInv, EndedInv, BackupInv, Backup!TypeOK
<1>2. CASE backupProc = "up"
  BY <1>1, <1>2 DEF UntouchedInv, BackupUntouched, BackupUndoing
<1>3. CASE backupProc = "boot" /\ Backup!Fault
  <2>1. backupFaults' # 0
    BY <1>3, FaultOnce DEF UntouchedInv, EndedInv
  <2>2. backupPlan = "none" => backupStep.at = "clear"
    BY <1>3 DEF UntouchedInv, EndedInv, BackupInv, BackupShape
  <2>3. /\ backupPlan = "none" /\ (~backupAsked \/ backupResult = "rolledback")
        => backupStep.at = "clear" /\ backupStep.state = "rolledback"
    BY <2>2 DEF UntouchedInv, EndedInv, BackupEnded
  <2> QED
    BY <1>1, <1>3, <2>1, <2>3 DEF UntouchedInv, BackupUntouched, BackupUndoing
<1> QED
  BY <1>1, <1>2, <1>3

\* A start that is refused or dies.
LEMMA UntouchedRefused ==
  ASSUME OneFault, UntouchedInv, EndedInv', backupProc = "boot", backupProc' = "down", backupStep'.at = "idle",
         UNCHANGED <<backupMain, backupPlan, backupResult, backupAsked, backupBefore>>,
         Backup!Fault \/ (backupFaults' = backupFaults /\ backupStep.at \in {"validate", "copy"})
  PROVE  UntouchedInv'
<1>1. backupFaults' # 0 \/ (backupFaults' = backupFaults /\ backupStep.at \in {"validate", "copy"})
  BY FaultOnce DEF UntouchedInv, EndedInv
<1>2. backupPlan = "none" => backupStep.at = "clear"
  BY DEF UntouchedInv, EndedInv, BackupInv, BackupShape
<1>3. /\ backupPlan = "none" /\ (~backupAsked \/ backupResult = "rolledback")
      => backupStep.at = "clear" /\ backupStep.state = "rolledback"
  BY <1>2 DEF UntouchedInv, EndedInv, BackupEnded
<1> QED
  BY <1>1, <1>3 DEF UntouchedInv, BackupUntouched, BackupUndoing

LEMMA UntouchedBoot ==
  ASSUME OneFault, UntouchedInv, EndedInv', Backup!Boot PROVE UntouchedInv'
<1>i. Backup!Idle.at = "idle"
  BY BackupTypes
<1>0. /\ backupStep \in Backup!Steps /\ backupMain \in Backup!Mains /\ backupCopy \in Backup!Mains
      /\ backupPlan \in {"none", "settings", "full"}
      /\ backupStep.at \in BackupBoots \ {"clear"} => backupPlan # "none"
      /\ backupPlan # "none" /\ backupProc = "boot" => Backup!Staged(backupPlan) \subseteq backupStage.present
  <2>1. /\ backupStep \in Backup!Steps /\ backupMain \in Backup!Mains /\ backupCopy \in Backup!Mains
        /\ backupPlan \in {"none", "settings", "full"}
        /\ backupStep.at \in BackupBoots \ {"clear"} => backupPlan # "none"
    BY BackupTypes DEF UntouchedInv, EndedInv, BackupInv, Backup!TypeOK, BackupShape
  <2>2. backupPlan # "none" /\ backupProc = "boot" => Backup!Staged(backupPlan) \subseteq backupStage.present
    BY DEF UntouchedInv, EndedInv, BackupInv, BackupShape, BackupBoots, Backup!StageKept
  <2> QED BY <2>1, <2>2
<1>b. backupProc = "boot"
  BY DEF Backup!Boot, Backup!Validate, Backup!RollbackCopy, Backup!Replace, Backup!Check, Backup!Undo,
         Backup!FinishResult, Backup!FinishPlan, Backup!FinishStage
<1>s. backupBefore' = backupBefore
  BY DEF Backup!Boot, Backup!Validate, Backup!RollbackCopy, Backup!Replace, Backup!Check, Backup!Undo,
         Backup!FinishResult, Backup!FinishPlan, Backup!FinishStage
<1>f. Backup!Fault => backupFaults = 0 /\ backupFaults' = RestoreFaults
  BY FaultOnce DEF UntouchedInv, EndedInv
<1>1. CASE Backup!Validate \/ Backup!RollbackCopy
  <2>1. /\ backupStep.at \in {"validate", "copy"} /\ backupPlan # "none"
        /\ UNCHANGED <<backupMain, backupPlan, backupResult, backupAsked>>
    BY <1>0, <1>1 DEF Backup!Validate, Backup!RollbackCopy, Backup!Refuse, BackupBoots
  <2>2. CASE backupProc' = "down"
    <3>1. Backup!Fault \/ backupFaults' = backupFaults
      BY <1>1 DEF Backup!Validate, Backup!RollbackCopy
    <3>2. backupStep'.at = "idle"
      BY <1>1, <1>b, <1>i, <2>2 DEF Backup!Validate, Backup!RollbackCopy, Backup!Refuse, Backup!Down, Backup!Goto
    <3> QED BY <1>b, <1>s, <2>1, <2>2, <3>1, <3>2, UntouchedRefused
  <2>3. CASE backupProc' # "down"
    <3>1. /\ backupProc' = "boot" /\ backupFaults' = backupFaults
          /\ \/ backupStep' = [at |-> "copy"]
             \/ backupStep' = [at |-> "replace", file |-> 1] /\ backupCopy' = backupMain
      BY <1>1, <1>b, <2>3 DEF Backup!Validate, Backup!RollbackCopy, Backup!Refuse, Backup!Down, Backup!Goto
    <3> QED
      BY <1>b, <1>s, <2>1, <3>1 DEF UntouchedInv, BackupUntouched, BackupUndoing
  <2> QED BY <2>2, <2>3
<1>2. CASE Backup!Replace \/ Backup!Check
  <2>1. /\ backupStep.at \in {"replace", "check"} /\ backupProc' = "boot" /\ backupPlan' # "none"
        /\ UNCHANGED <<backupCopy>>
    BY <1>0, <1>2, <1>b DEF Backup!Replace, Backup!Check, Backup!fileVars, BackupBoots
  <2>2. CASE backupStep' = [at |-> "undo", file |-> 1] /\ Backup!Fault
    BY <1>f, <1>s, <2>1, <2>2 DEF UntouchedInv, BackupUntouched, BackupUndoing
  <2>3. CASE /\ backupFaults' = backupFaults
             /\ \/ backupStep'.at \in {"replace", "check"}
                \/ backupStep' = [at |-> "result", state |-> "success"]
    BY <1>s, <2>1, <2>3 DEF UntouchedInv, BackupUntouched, BackupUndoing
  <2>4. \/ backupStep' = [at |-> "undo", file |-> 1] /\ Backup!Fault
        \/ /\ backupFaults' = backupFaults
           /\ \/ backupStep'.at \in {"replace", "check"}
              \/ backupStep' = [at |-> "result", state |-> "success"]
    <3>1. CASE Backup!Check
      BY <3>1 DEF Backup!Check, Backup!Goto, Backup!AfterFailure
    <3>2. CASE Backup!Replace
      <4>1. backupStep \in [at : {"replace", "undo"}, file : 1..4] /\ backupStep.at = "replace"
        BY <1>0, <3>2, BackupStepOf DEF Backup!Replace
      <4>2. [backupStep EXCEPT !.file = backupStep.file + 1].at = "replace"
        BY <4>1
      <4>3. Backup!Files[backupStep.file] \in backupStage.present
        <5>1. backupStep.file \in 1..Backup!LastFile /\ backupPlan \in {"settings", "full"}
          BY <1>0, <4>1 DEF UntouchedInv, EndedInv, BackupInv, BackupShape, BackupBoots
        <5>2. Backup!Files[backupStep.file] \in Backup!Staged(backupPlan)
          <6>1. CASE backupPlan = "settings"
            BY <5>1, <6>1, BackupTypes DEF Backup!LastFile
          <6>2. CASE backupPlan = "full"
            BY <5>1, <6>2, BackupTypes DEF Backup!LastFile
          <6> QED BY <5>1, <6>1, <6>2
        <5> QED BY <1>0, <1>b, <5>1, <5>2
      <4>4. \/ backupStep' = [at |-> "undo", file |-> 1] /\ Backup!Fault
            \/ /\ backupFaults' = backupFaults
               /\ \/ backupStep' = [at |-> "check"]
                  \/ backupStep' = [backupStep EXCEPT !.file = backupStep.file + 1]
        BY <3>2, <4>3 DEF Backup!Replace, Backup!Goto, Backup!AfterFailure
      <4> QED
        <5>1. backupStep' = [at |-> "check"] => backupStep'.at = "check"
          OBVIOUS
        <5>2. backupStep' = [backupStep EXCEPT !.file = backupStep.file + 1] => backupStep'.at = "replace"
          BY <4>2
        <5> QED BY <4>4, <5>1, <5>2
    <3> QED BY <1>2, <3>1, <3>2
  <2> QED BY <2>2, <2>3, <2>4
<1>3. CASE Backup!Undo
  <2>1. /\ backupStep.at = "undo" /\ backupFaults = RestoreFaults /\ backupCopy = backupBefore
        /\ UNCHANGED <<backupPlan, backupCopy>> /\ backupPlan # "none"
    BY <1>0, <1>3 DEF Backup!Undo, UntouchedInv, BackupUntouched, BackupBoots
  <2>2. PICK n \in 1..3 : n = backupStep.file
    BY <2>1 DEF UntouchedInv, EndedInv, BackupInv, BackupShape
  <2>3. ~Backup!Fault
    <3>1. backupFaults \in Nat
      BY DEF UntouchedInv, EndedInv, BackupInv, Backup!TypeOK
    <3> QED BY <2>1, <3>1 DEF Backup!Fault
  <2>4. /\ backupMain' = [backupMain EXCEPT ![Backup!Files[n]] = backupCopy[Backup!Files[n]]]
        /\ UNCHANGED <<backupProc, backupFaults>>
        /\ backupStep' = IF n = 3 THEN [at |-> "result", state |-> "rolledback"]
                         ELSE [backupStep EXCEPT !.file = n + 1]
    BY <1>3, <2>2, <2>3 DEF Backup!Undo, Backup!Undone, Backup!Goto
  <2>5. backupStep \in [at : {"replace", "undo"}, file : 1..4]
    BY <1>0, <2>1, BackupStepOf
  <2>6. /\ n = 1 => backupMain' = [backupMain EXCEPT !["db"] = backupCopy.db]
        /\ n = 2 => backupMain' = [backupMain EXCEPT !["secret"] = backupCopy.secret]
        /\ n = 3 => backupMain' = [backupMain EXCEPT !["favs"] = backupCopy.favs]
    BY <2>4, BackupTypes
  <2>7. CASE n = 3
    <3>1. backupMain.db = backupCopy.db /\ backupMain.secret = backupCopy.secret
      BY <2>1, <2>2, <2>7 DEF UntouchedInv, BackupUndoing
    <3>2. backupMain' = backupCopy
      BY <1>0, <2>6, <2>7, <3>1 DEF Backup!Mains
    <3>3. backupStep' = [at |-> "result", state |-> "rolledback"]
      BY <2>4, <2>7
    <3> QED
      BY <1>b, <1>s, <2>1, <2>4, <3>2, <3>3 DEF UntouchedInv, BackupUntouched, BackupUndoing
  <2>8. CASE n # 3
    <3>1. backupStep'.at = "undo" /\ backupStep'.file = n + 1
      BY <2>2, <2>4, <2>5, <2>1, <2>8
    <3>2. backupMain'.db = backupCopy.db /\ (n = 2 => backupMain'.secret = backupCopy.secret)
      <4>1. n > 1 => backupMain.db = backupCopy.db
        BY <2>1, <2>2 DEF UntouchedInv, BackupUndoing
      <4> QED BY <1>0, <2>2, <2>6, <2>8, <4>1 DEF Backup!Mains
    <3>3. BackupUndoing'
      BY <2>1, <2>2, <2>8, <3>1, <3>2 DEF BackupUndoing
    <3> QED
      BY <1>b, <1>s, <2>1, <2>4, <3>1, <3>3 DEF UntouchedInv, BackupUntouched
  <2> QED BY <2>7, <2>8
<1>4. CASE Backup!FinishResult \/ Backup!FinishPlan \/ Backup!FinishStage
  <2>1. CASE backupProc' = "up"
    BY <2>1, UntouchedUp
  <2>2. CASE backupProc' = "down"
    <3>1. /\ Backup!Fault /\ backupStep'.at = "idle"
          /\ UNCHANGED <<backupMain, backupPlan, backupResult, backupAsked>>
      BY <1>4, <1>b, <1>i, <2>2 DEF Backup!FinishResult, Backup!FinishPlan, Backup!FinishStage, Backup!Refuse,
           Backup!Down, Backup!Goto
    <3> QED BY <1>b, <1>s, <2>2, <3>1, UntouchedRefused
  <2>3. CASE backupProc' \notin {"up", "down"}
    <3>1. backupStep \in [at : {"result", "done", "clear"}, state : {"success", "rolledback"}]
      BY <1>0, <1>4, BackupStepOf DEF Backup!FinishResult, Backup!FinishPlan, Backup!FinishStage
    <3>2. \A at : [backupStep EXCEPT !.at = at].at = at /\ [backupStep EXCEPT !.at = at].state = backupStep.state
      BY <3>1
    <3>3. /\ UNCHANGED <<backupMain, backupProc>>
          /\ backupStep' = [backupStep EXCEPT !.at = "done"] \/ backupStep' = [backupStep EXCEPT !.at = "clear"]
      BY <1>4, <1>b, <2>3 DEF Backup!FinishResult, Backup!FinishPlan, Backup!FinishStage, Backup!Refuse,
           Backup!Down, Backup!Goto
    <3>4. backupStep'.at \in {"done", "clear"} /\ backupStep'.state = backupStep.state
      BY <3>2, <3>3
    <3>5. backupStep.at \in {"result", "done", "clear"}
      BY <3>1
    <3> QED
      BY <1>b, <1>s, <3>3, <3>4, <3>5 DEF UntouchedInv, BackupUntouched, BackupUndoing
  <2> QED BY <2>1, <2>2, <2>3
<1> QED
  BY <1>1, <1>2, <1>3, <1>4 DEF Backup!Boot

LEMMA UntouchedStart == ASSUME UntouchedInv, EndedInv', Backup!Start PROVE UntouchedInv'
<1>1. CASE backupPlan = "none"
  BY <1>1, UntouchedUp DEF Backup!Start
<1>2. CASE backupPlan # "none"
  <2>1. /\ backupProc = "down" /\ backupProc' = "boot" /\ backupStep'.at = "validate"
        /\ UNCHANGED <<backupMain, backupPlan, backupFaults, backupBefore>>
        /\ backupStep.at = "idle"
    BY <1>2, BackupTypes DEF Backup!Start, Backup!Goto, Backup!fileVars, UntouchedInv, EndedInv, BackupInv, BackupShape
  <2> QED
    BY <1>2, <2>1 DEF UntouchedInv, BackupUntouched, BackupUndoing
<1> QED
  BY <1>1, <1>2

LEMMA UntouchedNext ==
  ASSUME OneFault, NoCancelCrash PROVE UntouchedInv /\ [Backup!Next]_backupVars => UntouchedInv'
<1> SUFFICES ASSUME UntouchedInv, [Backup!Next]_backupVars PROVE UntouchedInv'
  OBVIOUS
<1>1. EndedInv'
  BY EndedNext DEF UntouchedInv
<1>2. CASE UNCHANGED backupVars
  BY <1>1, <1>2 DEF backupVars, UntouchedInv, BackupUntouched, BackupUndoing
<1>3. CASE Backup!Service /\ ~Backup!Exit
  <2>1. backupProc' = "up"
    BY <1>3 DEF Backup!Service, Backup!Change, Backup!PrepareStage, Backup!PreparePlan, Backup!PrepareAnswer,
           Backup!CancelStage, Backup!CancelDir, Backup!CancelPlan, Backup!Unplanned, Backup!Cleanup
  <2> QED BY <1>1, <2>1, UntouchedUp
<1>4. CASE Backup!Exit \/ Backup!Crash
  BY <1>1, <1>4, UntouchedEnds
<1>5. CASE Backup!Start \/ Backup!Boot
  BY <1>1, <1>5, UntouchedStart, UntouchedBoot
<1> QED
  BY <1>2, <1>3, <1>4, <1>5 DEF Backup!Next, Backup!Service

\* With at most one crash or failure, a start that reports that it has rolled back leaves
\* every file as the application last had it, and so does one without a restore.
THEOREM RollbacksTouchNothing ==
  ASSUME OneFault, NoCancelCrash PROVE SumSpec => Backup!RolledBackIsUntouched
<1> DEFINE Rolls == /\ backupProc # "up" /\ backupProc' = "up"
                    /\ ~backupAsked \/ backupResult' = "rolledback"
                    => backupMain' = backupBefore
<1>1. UntouchedInv /\ [Backup!Next]_backupVars => [Rolls]_(Backup!vars)
  <2> SUFFICES ASSUME UntouchedInv, [Backup!Next]_backupVars, backupProc # "up", backupProc' = "up",
                      ~backupAsked \/ backupResult' = "rolledback"
               PROVE  backupMain' = backupBefore
    OBVIOUS
  <2>1. /\ UNCHANGED <<backupMain, backupResult>> /\ backupPlan = "none"
        /\ backupProc = "down" \/ backupStep.at = "clear"
    BY ComesUp DEF UntouchedInv, EndedInv
  <2>2. CASE backupProc = "down"
    BY <2>1, <2>2 DEF UntouchedInv, BackupUntouched
  <2>3. CASE backupStep.at = "clear"
    <3>1. backupAsked /\ backupResult = backupStep.state
      BY <2>3 DEF UntouchedInv, EndedInv, BackupEnded
    <3> QED BY <2>1, <2>3, <3>1 DEF UntouchedInv, BackupUntouched
  <2> QED BY <2>1, <2>2, <2>3
<1>2. UntouchedInv /\ [Backup!Next]_backupVars => UntouchedInv'
  BY UntouchedNext
<1>3. Backup!RolledBackIsUntouched <=> [][Rolls]_(Backup!vars)
  BY PTL DEF Backup!RolledBackIsUntouched
<1> HIDE DEF Rolls
<1> QED
  BY <1>1, <1>2, <1>3, UntouchedInit, BackupFocus, PTL DEF SumSpec

-----------------------------------------------------------------------------
(***************************************************************************)
(* AuthScheduler                                                           *)
(***************************************************************************)
SchedBusy == Sched!Alive \cup {"ending"}

\* There is at most one goroutine of the loop that has not given up sch.running, and none
\* with a number that startLoop has not reached.
SchedOne ==
  /\ \A n \in Sched!Loops : schedLoop[n] # "none" => n <= schedMade
  /\ \A n \in Sched!Loops : schedLoop[n] \in SchedBusy => schedRunning
  /\ \A m, n \in Sched!Loops : schedLoop[m] \in SchedBusy /\ schedLoop[n] \in SchedBusy => m = n
  /\ schedRunning => schedMade # 0

SchedInv == Sched!TypeOK /\ SchedOne /\ Sched!GateAfterFirstRound

SchedSteps == {"none", "ending", "closing", "gone"} \cup Sched!Alive

LEMMA SchedWords ==
  /\ Sched!Alive = {"delay", "first", "main", "check"}
  /\ SchedBusy = {"delay", "first", "main", "check", "ending"}
  /\ Sched!Idle \in Sched!Acts /\ [step |-> "end"] \in Sched!Acts /\ [step |-> "boot"] \in Sched!Acts
  /\ [step |-> "read"] \in Sched!Acts /\ \A b \in BOOLEAN : [step |-> "act", on |-> b] \in Sched!Acts
  /\ \A n \in Sched!Loops : [step |-> "wait", n |-> n] \in Sched!Acts
BY DEF Sched!Alive, SchedBusy, Sched!Acts, Sched!Idle

LEMMA SchedInit == Sched!Init => SchedInv
<1> SUFFICES ASSUME Sched!Init PROVE SchedInv
  OBVIOUS
<1>1. /\ schedSetting \in BOOLEAN /\ schedMade = 0 /\ schedRunning = FALSE /\ schedStopped = {}
      /\ schedDone = {} /\ schedReady = FALSE /\ schedLoop = [n \in Sched!Loops |-> "none"]
      /\ schedCaller = [c \in Sched!Callers |-> IF c = Sched!App THEN [step |-> "boot"] ELSE Sched!Idle]
      /\ schedShutdown = FALSE /\ schedStuck = FALSE /\ schedCrashed = FALSE /\ schedSaves = 0
      /\ schedRound = "owed"
  BY DEF Sched!Init
<1>2. schedCaller \in [Sched!Callers -> Sched!Acts]
  BY <1>1, SchedWords
<1>3. 0 \in 0..SchedLoops /\ 0 \in 0..SchedSaves
  BY ServicesAssumption
<1>4. Sched!TypeOK
  BY <1>1, <1>2, <1>3 DEF Sched!TypeOK
<1>5. SchedOne
  BY <1>1, SchedWords DEF SchedOne
<1> QED
  BY <1>1, <1>4, <1>5 DEF SchedInv, Sched!GateAfterFirstRound

LEMMA SchedMove ==
  ASSUME NEW c \in Sched!Callers, NEW s \in Sched!Acts, SchedInv, Sched!Move(c, s)
  PROVE  schedCaller' \in [Sched!Callers -> Sched!Acts]
BY DEF Sched!Move, SchedInv, Sched!TypeOK

\* startLoop makes a goroutine only when none is running.
LEMMA SchedStarts ==
  ASSUME SchedInv, NEW jitter \in BOOLEAN, Sched!StartLoop(jitter),
         schedCaller' \in [Sched!Callers -> Sched!Acts],
         UNCHANGED <<schedSetting, schedShutdown, schedStuck, schedCrashed, schedSaves>>
  PROVE  SchedInv'
<1>0. /\ SchedLoops \in Nat /\ schedMade \in 0..SchedLoops /\ schedLoop \in [Sched!Loops -> SchedSteps]
  BY ServicesAssumption DEF SchedInv, Sched!TypeOK, SchedSteps
<1>1. CASE Sched!CanStart /\ schedMade < SchedLoops
  <2> DEFINE s == IF jitter THEN "delay" ELSE "main"
  <2>1. /\ ~schedRunning /\ schedMade' = schedMade + 1 /\ schedRunning' = TRUE
        /\ schedLoop' = [schedLoop EXCEPT ![schedMade + 1] = s]
        /\ UNCHANGED <<schedStopped, schedDone, schedReady, schedRound>>
    BY <1>1 DEF Sched!StartLoop, Sched!CanStart
  <2>2. s \in {"delay", "main"}
    OBVIOUS
  <2> HIDE DEF s
  <2>3. schedMade + 1 \in Sched!Loops /\ schedMade' \in 0..SchedLoops /\ schedMade' # 0
    BY <1>0, <1>1, <2>1 DEF Sched!Loops
  <2>4. /\ schedLoop' \in [Sched!Loops -> SchedSteps]
        /\ schedLoop'[schedMade + 1] = s
        /\ \A n \in Sched!Loops : n # schedMade + 1 => schedLoop'[n] = schedLoop[n]
    BY <1>0, <2>1, <2>2, <2>3, SchedWords DEF SchedSteps
  <2>5. \A n \in Sched!Loops : n # schedMade + 1 => schedLoop'[n] \notin SchedBusy
    BY <2>1, <2>4 DEF SchedInv, SchedOne
  <2>6. \A n \in Sched!Loops : schedLoop'[n] # "none" => n <= schedMade'
    BY <1>0, <2>1, <2>4 DEF SchedInv, SchedOne, Sched!Loops
  <2>7. Sched!TypeOK'
    BY <2>1, <2>3, <2>4 DEF SchedInv, Sched!TypeOK, SchedSteps
  <2> QED
    BY <2>1, <2>3, <2>5, <2>6, <2>7 DEF SchedInv, SchedOne, Sched!GateAfterFirstRound
<1>2. CASE ~(Sched!CanStart /\ schedMade < SchedLoops)
  <2>1. UNCHANGED Sched!loopVars
    BY <1>2 DEF Sched!StartLoop
  <2> QED
    BY <2>1 DEF Sched!loopVars, SchedInv, SchedOne, Sched!TypeOK, Sched!GateAfterFirstRound
<1> QED
  BY <1>1, <1>2

\* The steps of the handlers and of the application that start no loop.
LEMMA SchedCalls ==
  ASSUME SchedInv,
         schedCaller' \in [Sched!Callers -> Sched!Acts], schedSetting' \in BOOLEAN,
         schedSaves' \in 0..SchedSaves, schedStopped' \subseteq Sched!Loops, schedShutdown' \in BOOLEAN,
         schedStuck' \in BOOLEAN, schedCrashed' \in BOOLEAN,
         UNCHANGED <<schedMade, schedRunning, schedDone, schedReady, schedLoop, schedRound>>
  PROVE  SchedInv'
BY DEF SchedInv, SchedOne, Sched!TypeOK, Sched!GateAfterFirstRound

LEMMA SchedCaller ==
  ASSUME SchedInv,
         \/ Sched!Boot
         \/ \E h \in SchedHandlers : (\E on \in BOOLEAN : Sched!Store(h, on)) \/ Sched!ReadBack(h) \/ Sched!Enable(h)
         \/ \E canceled \in BOOLEAN : Sched!Signal(canceled)
         \/ \E c \in Sched!Callers : Sched!StopLoop(c) \/ Sched!StopReturns(c)
  PROVE  SchedInv'
<1>0. /\ schedSetting \in BOOLEAN /\ schedSaves \in 0..SchedSaves /\ schedStopped \subseteq Sched!Loops
      /\ schedShutdown \in BOOLEAN /\ schedStuck \in BOOLEAN /\ schedCrashed \in BOOLEAN
      /\ schedMade \in 0..SchedLoops /\ SchedLoops \in Nat /\ SchedSaves \in Nat
      /\ schedCaller \in [Sched!Callers -> Sched!Acts]
      /\ Sched!App \in Sched!Callers /\ \A h \in SchedHandlers : h \in Sched!Callers
  BY ServicesAssumption DEF SchedInv, Sched!TypeOK, Sched!Callers
<1>1. CASE Sched!Boot
  <2>1. /\ Sched!Move(Sched!App, Sched!Idle)
        /\ UNCHANGED <<schedSetting, schedShutdown, schedStuck, schedCrashed, schedSaves>>
    BY <1>1 DEF Sched!Boot
  <2>2. schedCaller' \in [Sched!Callers -> Sched!Acts]
    BY <1>0, <2>1, SchedMove, SchedWords
  <2>3. CASE schedSetting
    BY <1>1, <2>1, <2>2, <2>3, SchedStarts DEF Sched!Boot
  <2>4. CASE ~schedSetting
    <3>1. /\ schedReady' = TRUE /\ schedRound' = "waived"
          /\ UNCHANGED <<schedMade, schedRunning, schedStopped, schedDone, schedLoop>>
      BY <1>1, <2>4 DEF Sched!Boot
    <3> QED
      BY <2>1, <2>2, <3>1 DEF SchedInv, SchedOne, Sched!TypeOK, Sched!GateAfterFirstRound
  <2> QED BY <2>3, <2>4
<1>2. CASE \E h \in SchedHandlers : (\E on \in BOOLEAN : Sched!Store(h, on)) \/ Sched!ReadBack(h) \/ Sched!Enable(h)
  <2>1. PICK h \in SchedHandlers : (\E on \in BOOLEAN : Sched!Store(h, on)) \/ Sched!ReadBack(h) \/ Sched!Enable(h)
    BY <1>2
  <2>2. CASE \E on \in BOOLEAN : Sched!Store(h, on)
    <3>1. PICK on \in BOOLEAN : Sched!Store(h, on)
      BY <2>2
    <3>2. /\ schedSaves < SchedSaves /\ schedSetting' = on /\ schedSaves' = schedSaves + 1
          /\ Sched!Move(h, [step |-> "read"])
          /\ UNCHANGED <<Sched!loopVars, schedShutdown, schedStuck, schedCrashed>>
      BY <3>1 DEF Sched!Store
    <3>3. schedCaller' \in [Sched!Callers -> Sched!Acts] /\ schedSaves' \in 0..SchedSaves
      BY <1>0, <3>2, SchedMove, SchedWords
    <3> QED
      BY <1>0, <3>2, <3>3, SchedCalls DEF Sched!loopVars
  <2>3. CASE Sched!ReadBack(h)
    <3>1. /\ Sched!Move(h, [step |-> "act", on |-> schedSetting])
          /\ UNCHANGED <<schedSetting, Sched!loopVars, schedShutdown, schedStuck, schedCrashed, schedSaves>>
      BY <2>3 DEF Sched!ReadBack
    <3>2. schedCaller' \in [Sched!Callers -> Sched!Acts]
      BY <1>0, <3>1, SchedMove, SchedWords
    <3> QED
      BY <1>0, <3>1, <3>2, SchedCalls DEF Sched!loopVars
  <2>4. CASE Sched!Enable(h)
    <3>1. /\ Sched!StartLoop(FALSE) /\ Sched!Move(h, Sched!Idle)
          /\ UNCHANGED <<schedSetting, schedShutdown, schedStuck, schedCrashed, schedSaves>>
      BY <2>4 DEF Sched!Enable
    <3>2. schedCaller' \in [Sched!Callers -> Sched!Acts]
      BY <1>0, <3>1, SchedMove, SchedWords
    <3> QED
      BY <3>1, <3>2, SchedStarts
  <2> QED BY <2>1, <2>2, <2>3, <2>4
<1>3. CASE \E canceled \in BOOLEAN : Sched!Signal(canceled)
  <2>1. PICK canceled \in BOOLEAN : Sched!Signal(canceled)
    BY <1>3
  <2>2. /\ Sched!Move(Sched!App, [step |-> "act", on |-> FALSE]) /\ schedShutdown' = canceled
        /\ UNCHANGED <<schedSetting, Sched!loopVars, schedStuck, schedCrashed, schedSaves>>
    BY <2>1 DEF Sched!Signal
  <2>3. schedCaller' \in [Sched!Callers -> Sched!Acts]
    BY <1>0, <2>2, SchedMove, SchedWords
  <2> QED
    BY <1>0, <2>2, <2>3, SchedCalls DEF Sched!loopVars
<1>4. CASE \E c \in Sched!Callers : Sched!StopLoop(c) \/ Sched!StopReturns(c)
  <2>1. PICK c \in Sched!Callers : Sched!StopLoop(c) \/ Sched!StopReturns(c)
    BY <1>4
  <2> DEFINE next == IF c = Sched!App THEN [step |-> "end"] ELSE Sched!Idle
  <2>2. next \in Sched!Acts
    BY SchedWords
  <2>3. CASE Sched!StopLoop(c)
    <3>1. /\ UNCHANGED <<schedSetting, schedMade, schedRunning, schedDone, schedReady, schedLoop,
                         schedShutdown, schedSaves, schedRound>>
          /\ \/ Sched!Move(c, next) /\ schedStopped' = schedStopped
             \/ /\ schedRunning /\ schedStopped' = schedStopped \cup {schedMade}
                /\ Sched!Move(c, [step |-> "wait", n |-> schedMade])
          /\ schedStuck' \in BOOLEAN /\ schedCrashed' \in BOOLEAN
      BY <1>0, <2>3 DEF Sched!StopLoop
    <3> HIDE DEF next
    <3>2. schedRunning => schedMade \in Sched!Loops
      BY <1>0 DEF SchedInv, SchedOne, Sched!Loops
    <3>3. schedCaller' \in [Sched!Callers -> Sched!Acts]
      BY <2>2, <3>1, <3>2, SchedMove, SchedWords
    <3>4. schedStopped' \subseteq Sched!Loops
      BY <1>0, <3>1, <3>2
    <3> QED
      BY <1>0, <3>1, <3>3, <3>4, SchedCalls
  <2>4. CASE Sched!StopReturns(c)
    <3>1. /\ Sched!Move(c, next)
          /\ UNCHANGED <<schedSetting, Sched!loopVars, schedShutdown, schedStuck, schedCrashed, schedSaves>>
      BY <2>4 DEF Sched!StopReturns
    <3>2. schedCaller' \in [Sched!Callers -> Sched!Acts]
      BY <2>2, <3>1, SchedMove
    <3> QED
      BY <1>0, <3>1, <3>2, SchedCalls DEF Sched!loopVars
  <2> QED BY <2>1, <2>3, <2>4
<1> QED
  BY <1>1, <1>2, <1>3, <1>4

\* A goroutine of the loop keeps sch.running until its deferred function clears it.
LEMMA SchedLoopStep == ASSUME SchedInv, NEW n \in Sched!Loops, Sched!LoopStep(n) PROVE SchedInv'
<1>0. /\ schedLoop \in [Sched!Loops -> SchedSteps] /\ schedMade \in 0..SchedLoops /\ SchedLoops \in Nat
      /\ schedRunning \in BOOLEAN /\ schedReady \in BOOLEAN /\ schedDone \subseteq Sched!Loops
      /\ schedCrashed \in BOOLEAN /\ schedRound \in {"owed", "done", "waived"}
  BY ServicesAssumption DEF SchedInv, Sched!TypeOK, SchedSteps
<1>1. UNCHANGED <<schedSetting, schedMade, schedStopped, schedCaller, schedShutdown, schedStuck, schedSaves>>
  BY DEF Sched!LoopStep
<1>2. CASE \/ Sched!FirstRound(n) /\ UNCHANGED <<schedRunning, schedDone, schedCrashed>>
           \/ Sched!MainLoop(n) /\ UNCHANGED <<schedRunning, schedDone, schedCrashed, schedReady, schedRound>>
  <2>1. PICK from \in Sched!Alive, to \in SchedBusy :
          schedLoop[n] = from /\ schedLoop' = [schedLoop EXCEPT ![n] = to]
    BY <1>2, SchedWords DEF Sched!FirstRound, Sched!MainLoop, Sched!Step
  <2>2. /\ schedReady' \in BOOLEAN /\ schedRound' \in {"owed", "done", "waived"}
        /\ schedReady' => schedRound' # "owed"
    <3>1. CASE Sched!FirstRound(n)
      <4>1. \/ UNCHANGED <<schedReady, schedRound>>
            \/ Sched!OpensGate("waived") \/ Sched!OpensGate("done")
        BY <3>1 DEF Sched!FirstRound
      <4>2. ASSUME NEW r \in {"waived", "done"}, Sched!OpensGate(r)
            PROVE  /\ schedReady' \in BOOLEAN /\ schedRound' \in {"owed", "done", "waived"}
                   /\ schedRound' # "owed"
        BY <1>0, <4>2 DEF Sched!OpensGate
      <4> QED BY <1>0, <4>1, <4>2 DEF SchedInv, Sched!GateAfterFirstRound
    <3>2. CASE UNCHANGED <<schedReady, schedRound>>
      BY <1>0, <3>2 DEF SchedInv, Sched!GateAfterFirstRound
    <3> QED BY <1>2, <3>1, <3>2
  <2>3. /\ schedLoop' \in [Sched!Loops -> SchedSteps]
        /\ \A m \in Sched!Loops : schedLoop'[m] = IF m = n THEN to ELSE schedLoop[m]
    BY <1>0, <2>1, SchedWords DEF SchedSteps
  <2>4. \A m \in Sched!Loops : /\ schedLoop'[m] \in SchedBusy => schedLoop[m] \in SchedBusy
                               /\ schedLoop'[m] # "none" => schedLoop[m] # "none"
    BY <2>1, <2>3, SchedWords
  <2>5. UNCHANGED <<schedRunning, schedDone, schedCrashed>>
    BY <1>2
  <2>6. Sched!TypeOK'
    BY <1>1, <2>2, <2>3, <2>5 DEF SchedInv, Sched!TypeOK, SchedSteps
  <2> QED
    BY <1>1, <2>2, <2>4, <2>5, <2>6 DEF SchedInv, SchedOne, Sched!GateAfterFirstRound
<1>3. CASE Sched!Ends(n) /\ UNCHANGED <<schedDone, schedCrashed, schedReady, schedRound>>
  <2>1. /\ schedLoop[n] = "ending" /\ schedLoop' = [schedLoop EXCEPT ![n] = "closing"] /\ schedRunning' = FALSE
    BY <1>3 DEF Sched!Ends, Sched!Step
  <2>2. /\ schedLoop' \in [Sched!Loops -> SchedSteps]
        /\ \A m \in Sched!Loops : schedLoop'[m] = IF m = n THEN "closing" ELSE schedLoop[m]
    BY <1>0, <2>1 DEF SchedSteps
  <2>3. /\ \A m \in Sched!Loops : schedLoop'[m] # "none" => schedLoop[m] # "none"
        /\ \A m \in Sched!Loops : schedLoop'[m] \notin SchedBusy
    BY <2>1, <2>2, SchedWords DEF SchedInv, SchedOne
  <2>4. Sched!TypeOK'
    BY <1>1, <1>3, <2>1, <2>2 DEF SchedInv, Sched!TypeOK, SchedSteps
  <2> QED
    BY <1>1, <1>3, <2>1, <2>3, <2>4 DEF SchedInv, SchedOne, Sched!GateAfterFirstRound
<1>4. CASE Sched!Closes(n) /\ UNCHANGED <<schedRunning, schedReady, schedRound>>
  <2>1. /\ schedLoop[n] = "closing" /\ schedLoop' = [schedLoop EXCEPT ![n] = "gone"]
        /\ schedDone' = schedDone \cup {schedMade} /\ schedCrashed' = (schedMade \in schedDone)
    BY <1>4 DEF Sched!Closes, Sched!Step
  <2>2. /\ schedLoop' \in [Sched!Loops -> SchedSteps]
        /\ \A m \in Sched!Loops : schedLoop'[m] = IF m = n THEN "gone" ELSE schedLoop[m]
    BY <1>0, <2>1 DEF SchedSteps
  <2>3. \A m \in Sched!Loops : /\ schedLoop'[m] # "none" => schedLoop[m] # "none"
                               /\ schedLoop'[m] \in SchedBusy => schedLoop[m] \in SchedBusy
    BY <2>1, <2>2, SchedWords
  <2>4. n <= schedMade
    BY <2>1 DEF SchedInv, SchedOne
  <2>5. schedMade \in Sched!Loops
    BY <1>0, <2>4 DEF Sched!Loops
  <2>6. Sched!TypeOK'
    BY <1>0, <1>1, <1>4, <2>1, <2>2, <2>5 DEF SchedInv, Sched!TypeOK, SchedSteps
  <2> QED
    BY <1>1, <1>4, <2>3, <2>6 DEF SchedInv, SchedOne, Sched!GateAfterFirstRound
<1> QED
  BY <1>2, <1>3, <1>4 DEF Sched!LoopStep

LEMMA SchedNext == SchedInv /\ [Sched!Next]_schedVars => SchedInv'
<1> SUFFICES ASSUME SchedInv, [Sched!Next]_schedVars PROVE SchedInv'
  OBVIOUS
<1>1. CASE UNCHANGED schedVars
  BY <1>1 DEF schedVars, SchedInv, SchedOne, Sched!TypeOK, Sched!GateAfterFirstRound
<1>2. CASE Sched!Next
  BY <1>2, SchedCaller, SchedLoopStep DEF Sched!Next
<1> QED
  BY <1>1, <1>2

\* The other components leave the scheduler alone.
LEMMA SchedFocus ==
  /\ SumInit => Sched!Init
  /\ [SumNext]_sumVars => [Sched!Next]_schedVars
BY DEF SumInit, SumNext, sumVars, schedVars

\* However saves of the setting, stops that give up waiting and the end of the process
\* overlap, rounds of checks never run side by side, and the gate never opens before a
\* first round that nothing has waived (startLoop, stopLoop, the loop's deferred function).
THEOREM RoundsAreSerial ==
  SumSpec => [](Sched!TypeOK /\ Sched!OneLoop /\ Sched!GateAfterFirstRound)
<1>1. SchedInv => Sched!TypeOK /\ Sched!OneLoop /\ Sched!GateAfterFirstRound
  BY DEF SchedInv, SchedOne, SchedBusy, Sched!OneLoop
<1> QED
  BY <1>1, SchedInit, SchedNext, SchedFocus, PTL DEF SumSpec

-----------------------------------------------------------------------------
(***************************************************************************)
(* UploadBroadcast: what UploadBroadcastProofs proves, of the instance of  *)
(* MCServices.                                                             *)
(***************************************************************************)
PageP == INSTANCE UploadBroadcastProofs WITH
  Tasks <- PageTasks, Clients <- PageClients, LastLeaves <- LastPageLeaves,
  Mutators <- PageMutators, Capacity <- PageCapacity, MaxVersion <- PageVersions,
  truth <- pagesTruth, subs <- pagesSubs, queue <- pagesQueue, client <- pagesClient,
  view <- pagesView, dirty <- pagesDirty, deleted <- pagesDeleted, pending <- pagesPending,
  window <- pagesWindow, pc <- pagesPc

\* The two instances have the same initial states and the same steps.
LEMMA PagesStart == SumInit => PageP!Init
BY DEF SumInit, Pages!Init, PageP!Init, Pages!Idle, PageP!Idle, Pages!Goroutines,
       PageP!Goroutines, Pages!Hidden, PageP!Hidden

LEMMA PagesWords ==
  /\ Pages!Goroutines = PageP!Goroutines /\ Pages!Idle = PageP!Idle
  /\ Pages!Gone = PageP!Gone /\ Pages!Hidden = PageP!Hidden
  /\ Pages!Snapshot = PageP!Snapshot /\ Pages!Payloads = PageP!Payloads
  /\ \A d, x : Pages!Delta(d, x) = PageP!Delta(d, x)
  /\ \A v, m : Pages!Merge(v, m) = PageP!Merge(v, m)
  /\ \A c, m : Pages!PushedOut(c, m) = PageP!PushedOut(c, m)
  /\ \A c : Pages!Full(c) <=> PageP!Full(c)
  /\ \A p, s : Pages!Go(p, s) <=> PageP!Go(p, s)
<1>1. Pages!Gone = PageP!Gone /\ Pages!Hidden = PageP!Hidden /\ \A t : Pages!Shown(t) = PageP!Shown(t)
  BY DEF Pages!Gone, PageP!Gone, Pages!Hidden, PageP!Hidden, Pages!Shown, PageP!Shown
<1>2. Pages!Snapshot = PageP!Snapshot /\ \A d, x : Pages!Delta(d, x) = PageP!Delta(d, x)
  BY <1>1 DEF Pages!Snapshot, PageP!Snapshot, Pages!Delta, PageP!Delta
<1>3. \A v, m : Pages!Merge(v, m) = PageP!Merge(v, m)
  BY <1>1 DEF Pages!Merge, PageP!Merge, Pages!Newer, PageP!Newer
<1>4. \A c : Pages!Full(c) <=> PageP!Full(c)
  BY DEF Pages!Full, PageP!Full
<1>5. \A c, m : Pages!PushedOut(c, m) = PageP!PushedOut(c, m)
  BY <1>4 DEF Pages!PushedOut, PageP!PushedOut
<1> QED
  BY <1>1, <1>2, <1>3, <1>4, <1>5
     DEF Pages!Go, PageP!Go, Pages!Goroutines, PageP!Goroutines, Pages!Idle, PageP!Idle,
         Pages!Payloads, PageP!Payloads

LEMMA PagesChange ==
  ASSUME NEW p, NEW t
  PROVE  /\ Pages!Create(p, t) => PageP!Create(p, t)
         /\ Pages!Change(p, t) => PageP!Change(p, t)
         /\ Pages!Remove(p, t) => PageP!Remove(p, t)
         /\ Pages!Broadcast(p) => PageP!Broadcast(p)
         /\ Pages!BroadcastDeleted(p) => PageP!BroadcastDeleted(p)
<1>1. Pages!StartsOrLeaves(p) => PageP!StartsOrLeaves(p)
  BY PagesWords DEF Pages!StartsOrLeaves, PageP!StartsOrLeaves
<1> QED
  BY <1>1, PagesWords
     DEF Pages!Create, PageP!Create, Pages!Change, PageP!Change, Pages!Remove, PageP!Remove,
         Pages!Broadcast, PageP!Broadcast, Pages!BroadcastDeleted, PageP!BroadcastDeleted,
         Pages!clientVars, PageP!clientVars, Pages!markVars, PageP!markVars

LEMMA PagesFlush == ASSUME NEW p PROVE Pages!Flush(p) => PageP!Flush(p)
<1>1. Pages!TakeMarks(p) => PageP!TakeMarks(p)
  BY PagesWords DEF Pages!TakeMarks, PageP!TakeMarks, Pages!clientVars, PageP!clientVars
<1>2. Pages!BuildPayload(p) => PageP!BuildPayload(p)
  BY PagesWords DEF Pages!BuildPayload, PageP!BuildPayload, Pages!clientVars, PageP!clientVars,
                    Pages!markVars, PageP!markVars
<1>3. Pages!Send(p) => PageP!Send(p)
  <2>1. {c \in pagesSubs : Pages!Full(c)} = {c \in pagesSubs : PageP!Full(c)}
    BY PagesWords
  <2> QED
    BY <2>1, PagesWords DEF Pages!Send, PageP!Send
<1>4. Pages!BuildSnapshot(p) => PageP!BuildSnapshot(p)
  BY PagesWords DEF Pages!BuildSnapshot, PageP!BuildSnapshot, Pages!clientVars, PageP!clientVars,
                    Pages!markVars, PageP!markVars
<1>5. Pages!Resend(p) => PageP!Resend(p)
  BY PagesWords DEF Pages!Resend, PageP!Resend, Pages!markVars, PageP!markVars
<1>6. Pages!ArmWindow(p) => PageP!ArmWindow(p)
  BY PagesWords DEF Pages!ArmWindow, PageP!ArmWindow, Pages!clientVars, PageP!clientVars,
                    Pages!markVars, PageP!markVars
<1> QED
  BY <1>1, <1>2, <1>3, <1>4, <1>5, <1>6 DEF Pages!Flush, PageP!Flush

LEMMA PagesPage ==
  ASSUME NEW c
  PROVE  /\ Pages!Subscribe(c) => PageP!Subscribe(c)
         /\ Pages!WriteSnapshot(c) => PageP!WriteSnapshot(c)
         /\ Pages!Receive(c) => PageP!Receive(c)
         /\ Pages!Unsubscribe(c) => PageP!Unsubscribe(c)
BY PagesWords
   DEF Pages!Subscribe, PageP!Subscribe, Pages!WriteSnapshot, PageP!WriteSnapshot,
       Pages!Receive, PageP!Receive, Pages!Unsubscribe, PageP!Unsubscribe,
       Pages!markVars, PageP!markVars

LEMMA PagesFocus == [SumNext]_sumVars => [PageP!Next]_(PageP!vars)
<1>1. [SumNext]_sumVars => [Pages!Next]_pagesVars
  BY DEF SumNext, sumVars, pagesVars
<1>2. UNCHANGED pagesVars => UNCHANGED PageP!vars
  BY DEF PageP!vars, PageP!clientVars, PageP!markVars, pagesVars
<1>3. Pages!FinishWindow => PageP!FinishWindow
  BY PagesWords DEF Pages!FinishWindow, PageP!FinishWindow, Pages!Unmarked, PageP!Unmarked,
                    Pages!clientVars, PageP!clientVars
<1>4. Pages!Next => PageP!Next
  BY <1>3, PagesWords, PagesChange, PagesFlush, PagesPage DEF Pages!Next, PageP!Next
<1> QED
  BY <1>1, <1>2, <1>4

LEMMA PagesSizes == PageP!Sizes /\ "timer" \notin PageMutators
BY ServicesAssumption DEF PageP!Sizes

LEMMA PagesTypes == PageP!Spec => []PageP!TypeOK
BY PagesSizes, PageP!ChannelsKeepTheirCapacity
LEMMA PagesSerial == PageP!Spec => []PageP!OneFlusher
BY PageP!FlushesAreSerial
LEMMA PagesConverge == ASSUME ~LastPageLeaves PROVE PageP!Spec => []PageP!Converged
BY PagesSizes, PageP!PagesConverge

LEMMA PagesMeet == PageP!TypeOK /\ PageP!OneFlusher /\ PageP!Converged => PagesAgree
<1>1. PageP!TypeOK => Pages!TypeOK
  BY PagesWords DEF PageP!TypeOK, Pages!TypeOK, PageP!PCs, Pages!PCs
<1>2. PageP!OneFlusher => Pages!OneFlusher
  BY PagesWords DEF PageP!OneFlusher, Pages!OneFlusher, PageP!Flushing, Pages!Flushing
<1>3. PageP!Converged => Pages!Converged
  BY PagesWords DEF PageP!Converged, Pages!Converged
<1> QED
  BY <1>1, <1>2, <1>3 DEF PagesAgree

\* One flush or one armed window at a time, no channel beyond its capacity, and when all
\* is delivered every page shows the tasks as they are, as long as the last page stays
\* (broadcast, flushBroadcast, finishBroadcastWindow).
THEOREM PagesComeToAgree == ASSUME ~LastPageLeaves PROVE SumSpec => []PagesAgree
<1>1. SumSpec => PageP!Spec
  BY PagesStart, PagesFocus, PTL DEF SumSpec, PageP!Spec
<1> QED
  BY <1>1, PagesTypes, PagesSerial, PagesConverge, PagesMeet, PTL

=============================================================================

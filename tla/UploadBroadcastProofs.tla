------------------------ MODULE UploadBroadcastProofs ------------------------
(***************************************************************************)
(* Proofs about UploadBroadcast, for any number of goroutines, pages and    *)
(* tasks: broadcastPending serialises the flushes, no channel goes beyond   *)
(* its capacity, and when all is delivered every page shows the tasks.      *)
(***************************************************************************)
EXTENDS UploadBroadcast, TLAPS

\* The states of a goroutine that is flushing.
Steps == {"flush", "build", "send", "slow", "resend", "end"}

\* What the induction needs besides OneFlusher: pc is a function on the
\* goroutines, so that a step of one of them changes nothing for the others.
FlushInv ==
  /\ DOMAIN pc = Goroutines /\ pc = [p \in Goroutines |-> pc[p]]
  /\ OneFlusher

-----------------------------------------------------------------------------
\* A goroutine that goes from one step outside flushBroadcast to another leaves
\* the flushing goroutines as they were.
LEMMA StaysOut ==
  ASSUME FlushInv, NEW p \in Goroutines, NEW s, s.at \notin Steps,
         pc[p].at \notin Steps, Go(p, s),
         window' = window, pending' = pending
  PROVE  FlushInv'
<1>1. DOMAIN pc' = Goroutines /\ pc' = [q \in Goroutines |-> pc'[q]]
  BY DEF FlushInv, Go
<1>2. \A q \in Goroutines : pc'[q] = IF q = p THEN s ELSE pc[q]
  BY DEF FlushInv, Go
<1>3. Flushing' = Flushing
  BY <1>2 DEF Flushing, Steps
<1> QED
  BY <1>1, <1>3 DEF FlushInv, OneFlusher

\* A flush that goes on is still the only one.
LEMMA StaysIn ==
  ASSUME FlushInv, NEW p \in Goroutines, NEW s, s.at \in Steps,
         pc[p].at \in Steps, Go(p, s),
         window' = window, pending' = pending
  PROVE  FlushInv'
<1>1. DOMAIN pc' = Goroutines /\ pc' = [q \in Goroutines |-> pc'[q]]
  BY DEF FlushInv, Go
<1>2. \A q \in Goroutines : pc'[q] = IF q = p THEN s ELSE pc[q]
  BY DEF FlushInv, Go
<1>3. Flushing' = Flushing
  BY <1>2 DEF Flushing, Steps
<1> QED
  BY <1>1, <1>3 DEF FlushInv, OneFlusher

\* A flush that begins while nothing is pending is the only one.
LEMMA Enters ==
  ASSUME FlushInv, NEW p \in Goroutines, NEW s, s.at \in Steps,
         Flushing = {}, Go(p, s), ~window', pending'
  PROVE  FlushInv'
<1>1. DOMAIN pc' = Goroutines /\ pc' = [q \in Goroutines |-> pc'[q]]
  BY DEF FlushInv, Go
<1>2. \A q \in Goroutines : pc'[q] = IF q = p THEN s ELSE pc[q]
  BY DEF FlushInv, Go
<1>3. Flushing' = {p}
  BY <1>2 DEF Flushing, Steps
<1> QED
  BY <1>1, <1>3 DEF FlushInv, OneFlusher

\* A flush that ends leaves none behind.
LEMMA Leaves ==
  ASSUME FlushInv, NEW p \in Goroutines, NEW s, s.at \notin Steps,
         p \in Flushing, Go(p, s), pending' <=> window'
  PROVE  FlushInv'
<1>1. DOMAIN pc' = Goroutines /\ pc' = [q \in Goroutines |-> pc'[q]]
  BY DEF FlushInv, Go
<1>2. \A q \in Goroutines : pc'[q] = IF q = p THEN s ELSE pc[q]
  BY DEF FlushInv, Go
<1>3. Flushing' = {}
  <2>1. \A q \in Flushing : q = p
    BY DEF FlushInv, OneFlusher
  <2> QED BY <1>2, <2>1 DEF Flushing, Steps
<1> QED
  BY <1>1, <1>3 DEF FlushInv, OneFlusher

-----------------------------------------------------------------------------
LEMMA FlushInit == Init => FlushInv
<1> SUFFICES ASSUME Init PROVE FlushInv
  OBVIOUS
<1>1. Flushing = {}
  BY DEF Init, Flushing, Idle
<1> QED
  BY <1>1 DEF Init, FlushInv, OneFlusher

LEMMA StartsStep ==
  ASSUME FlushInv, NEW p \in Goroutines, pc[p].at \notin Steps,
         StartsOrLeaves(p), window' = window
  PROVE  FlushInv'
<1>1. CASE pending
  <2>1. Go(p, Idle) /\ (pending' <=> pending)
    BY <1>1 DEF StartsOrLeaves
  <2>2. Flushing' = Flushing /\ DOMAIN pc' = Goroutines
        /\ pc' = [q \in Goroutines |-> pc'[q]]
    BY <2>1 DEF FlushInv, Go, Idle, Flushing, Steps
  <2> QED
    BY <2>1, <2>2 DEF FlushInv, OneFlusher
<1>2. CASE ~pending
  <2>1. Go(p, [at |-> "flush"]) /\ pending'
    BY <1>2 DEF StartsOrLeaves
  <2>2. Flushing = {} /\ ~window'
    BY <1>2 DEF FlushInv, OneFlusher
  <2>3. [at |-> "flush"].at \in Steps
    BY DEF Steps
  <2> QED
    BY <2>1, <2>2, <2>3, Enters
<1> QED
  BY <1>1, <1>2

LEMMA FlushNext == FlushInv /\ [Next]_vars => FlushInv'
<1> SUFFICES ASSUME FlushInv, [Next]_vars PROVE FlushInv'
  OBVIOUS
<1>1. ASSUME NEW p \in Mutators, NEW t \in Tasks, Create(p, t) PROVE FlushInv'
  <2>1. p \in Goroutines /\ Go(p, [at |-> "mark", t |-> t])
        /\ window' = window /\ pending' = pending
    BY <1>1 DEF Create, markVars, Goroutines
  <2>2. pc[p].at \notin Steps /\ [at |-> "mark", t |-> t].at \notin Steps
    BY <1>1 DEF Create, Idle, Steps
  <2> QED BY <2>1, <2>2, StaysOut
<1>2. ASSUME NEW p \in Mutators, NEW t \in Tasks, Change(p, t) PROVE FlushInv'
  <2>1. p \in Goroutines /\ Go(p, [at |-> "mark", t |-> t])
        /\ window' = window /\ pending' = pending
    BY <1>2 DEF Change, markVars, Goroutines
  <2>2. pc[p].at \notin Steps /\ [at |-> "mark", t |-> t].at \notin Steps
    BY <1>2 DEF Change, Idle, Steps
  <2> QED BY <2>1, <2>2, StaysOut
<1>3. ASSUME NEW p \in Mutators, NEW t \in Tasks, Remove(p, t) PROVE FlushInv'
  <2>1. p \in Goroutines /\ Go(p, [at |-> "unmark", t |-> t])
        /\ window' = window /\ pending' = pending
    BY <1>3 DEF Remove, markVars, Goroutines
  <2>2. pc[p].at \notin Steps /\ [at |-> "unmark", t |-> t].at \notin Steps
    BY <1>3 DEF Remove, Idle, Steps
  <2> QED BY <2>1, <2>2, StaysOut
<1>4. ASSUME NEW p \in Mutators, Broadcast(p) \/ BroadcastDeleted(p) PROVE FlushInv'
  <2>1. p \in Goroutines /\ window' = window /\ pc[p].at \notin Steps
    BY <1>4 DEF Broadcast, BroadcastDeleted, Goroutines, Steps
  <2>2. CASE subs = {}
    <3>1. Go(p, Idle) /\ pending' = pending /\ Idle.at \notin Steps
      BY <1>4, <2>2 DEF Broadcast, BroadcastDeleted, markVars, Idle, Steps
    <3> QED BY <2>1, <3>1, StaysOut
  <2>3. CASE subs # {}
    <3>1. StartsOrLeaves(p)
      BY <1>4, <2>3 DEF Broadcast, BroadcastDeleted
    <3> QED BY <2>1, <3>1, StartsStep
  <2> QED BY <2>2, <2>3
<1>5. ASSUME NEW p \in Goroutines, TakeMarks(p) PROVE FlushInv'
  <2> DEFINE s == [at |-> "build", dirty |-> dirty, deleted |-> deleted]
  <2>1. Go(p, s) /\ window' = window /\ pending' = pending
    BY <1>5 DEF TakeMarks
  <2>2. pc[p].at \in Steps /\ s.at \in Steps
    BY <1>5 DEF TakeMarks, Steps
  <2> HIDE DEF s
  <2> QED BY <2>1, <2>2, StaysIn
<1>6. ASSUME NEW p \in Goroutines, BuildPayload(p) PROVE FlushInv'
  <2> DEFINE s == [at |-> "send", payload |-> Delta(pc[p].dirty, pc[p].deleted)]
  <2>1. Go(p, s) /\ window' = window /\ pending' = pending
    BY <1>6 DEF BuildPayload, markVars
  <2>2. pc[p].at \in Steps /\ s.at \in Steps
    BY <1>6 DEF BuildPayload, Steps
  <2> HIDE DEF s
  <2> QED BY <2>1, <2>2, StaysIn
<1>7. ASSUME NEW p \in Goroutines, Send(p) PROVE FlushInv'
  <2>1. pc[p].at \in Steps /\ window' = window
    BY <1>7 DEF Send, Steps
  <2>2. CASE subs = {}
    <3>1. Go(p, Idle) /\ pending' = FALSE /\ Idle.at \notin Steps
      BY <1>7, <2>2 DEF Send, Idle, Steps
    <3>2. p \in Flushing
      BY <2>1 DEF Flushing, Steps
    <3>3. ~window'
      BY <2>1, <3>2 DEF FlushInv, OneFlusher
    <3> QED BY <3>1, <3>2, <3>3, Leaves
  <2>3. CASE subs # {}
    <3> DEFINE slow == {c \in subs : Full(c)}
    <3> DEFINE s == IF slow = {} THEN [at |-> "end"] ELSE [at |-> "slow", slow |-> slow]
    <3>1. Go(p, s) /\ pending' = pending
      BY <1>7, <2>3 DEF Send
    <3>2. s.at \in Steps
      BY DEF Steps
    <3> HIDE DEF s
    <3> QED BY <2>1, <3>1, <3>2, StaysIn
  <2> QED BY <2>2, <2>3
<1>8. ASSUME NEW p \in Goroutines, BuildSnapshot(p) PROVE FlushInv'
  <2> DEFINE s == [at |-> "resend", slow |-> pc[p].slow, payload |-> Snapshot]
  <2>1. Go(p, s) /\ window' = window /\ pending' = pending
    BY <1>8 DEF BuildSnapshot, markVars
  <2>2. pc[p].at \in Steps /\ s.at \in Steps
    BY <1>8 DEF BuildSnapshot, Steps
  <2> HIDE DEF s
  <2> QED BY <2>1, <2>2, StaysIn
<1>9. ASSUME NEW p \in Goroutines, Resend(p) PROVE FlushInv'
  <2>1. Go(p, [at |-> "end"]) /\ window' = window /\ pending' = pending
    BY <1>9 DEF Resend, markVars
  <2>2. pc[p].at \in Steps /\ [at |-> "end"].at \in Steps
    BY <1>9 DEF Resend, Steps
  <2> QED BY <2>1, <2>2, StaysIn
<1>10. ASSUME NEW p \in Goroutines, ArmWindow(p) PROVE FlushInv'
  <2>1. Go(p, Idle) /\ window' = TRUE /\ pending' = pending /\ Idle.at \notin Steps
    BY <1>10 DEF ArmWindow, markVars, Idle, Steps
  <2>2. p \in Flushing
    BY <1>10 DEF ArmWindow, Flushing
  <2>3. pending' <=> window'
    BY <2>1, <2>2 DEF FlushInv, OneFlusher
  <2> QED BY <2>1, <2>2, <2>3, Leaves
<1>11. CASE FinishWindow
  <2>1. Flushing = {} /\ pending /\ ~window'
    BY <1>11 DEF FinishWindow, FlushInv, OneFlusher
  <2>2. CASE pending' = FALSE /\ UNCHANGED pc
    <3>1. Flushing' = {}
      BY <2>1, <2>2 DEF Flushing
    <3> QED BY <2>1, <2>2, <3>1 DEF FlushInv, OneFlusher
  <2>3. CASE Go("timer", [at |-> "flush"]) /\ UNCHANGED pending
    <3>1. "timer" \in Goroutines /\ [at |-> "flush"].at \in Steps
      BY DEF Goroutines, Steps
    <3> QED BY <2>1, <2>3, <3>1, Enters
  <2> QED BY <1>11, <2>2, <2>3 DEF FinishWindow
<1>12. CASE \E c \in Clients : \/ Subscribe(c) \/ WriteSnapshot(c)
                              \/ Receive(c) \/ Unsubscribe(c)
  <2>1. pc' = pc /\ pending' = pending /\ window' = window
    BY <1>12 DEF Subscribe, WriteSnapshot, Receive, Unsubscribe, markVars
  <2> QED BY <2>1 DEF FlushInv, OneFlusher, Flushing
<1>13. CASE UNCHANGED vars
  <2>1. pc' = pc /\ pending' = pending /\ window' = window
    BY <1>13 DEF vars, markVars
  <2> QED BY <2>1 DEF FlushInv, OneFlusher, Flushing
<1> QED
  BY <1>1, <1>2, <1>3, <1>4, <1>5, <1>6, <1>7, <1>8, <1>9, <1>10,
     <1>11, <1>12, <1>13 DEF Next, Flush

\* Whatever creates, changes and deletes tasks at the same time, and however the
\* pages come and go, broadcastPending stands for one flush under way or one
\* armed window (broadcast, flushBroadcast and finishBroadcastWindow of sse.go).
THEOREM FlushesAreSerial == Spec => []OneFlusher
<1>1. FlushInv => OneFlusher
  BY DEF FlushInv
<1> QED
  BY <1>1, FlushInit, FlushNext, PTL DEF Spec

-----------------------------------------------------------------------------
(***************************************************************************)
(* Types.                                                                  *)
(***************************************************************************)
Sizes == Capacity \in Nat \ {0} /\ MaxVersion \in Nat

LEMMA PayloadIs ==
  /\ \A m \in Payloads : DOMAIN m \subseteq Tasks /\ m \in [DOMAIN m -> 0..MaxVersion]
  /\ \A S \in SUBSET Tasks : \A m \in [S -> 0..MaxVersion] : m \in Payloads
BY DEF Payloads

LEMMA PcOf ==
  ASSUME NEW s \in PCs
  PROVE  /\ s.at = "idle" => s = Idle
         /\ s.at \in {"mark", "unmark"} => s.t \in Tasks
         /\ s.at = "build" => s.dirty \subseteq Tasks /\ s.deleted \subseteq Tasks
         /\ s.at \in {"send", "resend"} => s.payload \in Payloads
         /\ s.at \in {"slow", "resend"} => s.slow \subseteq Clients
BY DEF PCs, Idle

LEMMA PcIn ==
  /\ Idle \in PCs /\ [at |-> "flush"] \in PCs /\ [at |-> "end"] \in PCs
  /\ \A a \in {"mark", "unmark"}, t \in Tasks : [at |-> a, t |-> t] \in PCs
  /\ \A d, x \in SUBSET Tasks : [at |-> "build", dirty |-> d, deleted |-> x] \in PCs
  /\ \A m \in Payloads : [at |-> "send", payload |-> m] \in PCs
  /\ \A S \in SUBSET Clients : [at |-> "slow", slow |-> S] \in PCs
  /\ \A S \in SUBSET Clients, m \in Payloads : [at |-> "resend", slow |-> S, payload |-> m] \in PCs
BY DEF PCs, Idle

LEMMA ShownIs ==
  ASSUME Sizes, TypeOK, NEW t \in Tasks
  PROVE  Shown(t) \in 0..MaxVersion /\ Shown(t) <= truth[t]
BY DEF Sizes, TypeOK, Shown, Gone, Hidden

LEMMA SnapshotIs ==
  ASSUME Sizes, TypeOK
  PROVE  Snapshot \in Payloads /\ DOMAIN Snapshot = Tasks /\ \A t \in Tasks : Snapshot[t] = Shown(t)
<1>1. Snapshot \in [Tasks -> 0..MaxVersion]
  BY ShownIs DEF Snapshot
<1> QED
  BY <1>1, PayloadIs DEF Snapshot

LEMMA DeltaIs ==
  ASSUME Sizes, TypeOK, NEW d \in SUBSET Tasks, NEW x \in SUBSET Tasks
  PROVE  /\ Delta(d, x) \in Payloads /\ DOMAIN Delta(d, x) = d \cup x
         /\ \A t \in d \cup x : Delta(d, x)[t] = IF t \in d THEN Shown(t) ELSE Hidden
<1>1. Delta(d, x) \in [d \cup x -> 0..MaxVersion]
  BY ShownIs DEF Delta, Hidden, Sizes
<1> QED
  BY <1>1, PayloadIs DEF Delta

LEMMA MergeIs ==
  ASSUME Sizes, NEW v \in [Tasks -> 0..MaxVersion], NEW m \in Payloads
  PROVE  /\ Merge(v, m) \in [Tasks -> 0..MaxVersion]
         /\ \A t \in Tasks : /\ t \notin DOMAIN m => Merge(v, m)[t] = v[t]
                             /\ t \in DOMAIN m /\ m[t] = Hidden => Merge(v, m)[t] = Hidden
                             /\ t \in DOMAIN m /\ m[t] # Hidden =>
                                  Merge(v, m)[t] = Newer(v[t], m[t])
<1>1. \A t \in Tasks : t \in DOMAIN m => m[t] \in 0..MaxVersion
  BY PayloadIs
<1> QED
  BY <1>1 DEF Merge, Newer, Hidden, Sizes

\* What a step of one goroutine does to the others.
LEMMA GoIs ==
  ASSUME TypeOK, NEW p \in Goroutines, NEW s \in PCs, Go(p, s)
  PROVE  /\ pc' \in [Goroutines -> PCs]
         /\ \A q \in Goroutines : pc'[q] = IF q = p THEN s ELSE pc[q]
BY DEF TypeOK, Go

\* A channel into which a message is put when it has room, or whose oldest message
\* makes room for it.
LEMMA ChannelRoom ==
  ASSUME Sizes, TypeOK, NEW c \in Clients, NEW m \in Payloads
  PROVE  /\ PushedOut(c, m) \in Seq(Payloads) /\ Len(PushedOut(c, m)) <= Capacity
         /\ ~Full(c) => Append(queue[c], m) \in Seq(Payloads) /\ Len(Append(queue[c], m)) <= Capacity
<1>1. queue[c] \in Seq(Payloads) /\ Len(queue[c]) <= Capacity /\ Capacity \in Nat /\ Capacity # 0
  BY DEF TypeOK, Sizes
<1>2. CASE Full(c)
  <2>1. Len(queue[c]) = Capacity /\ queue[c] # <<>>
    BY <1>1, <1>2 DEF Full
  <2>2. Tail(queue[c]) \in Seq(Payloads) /\ Len(Tail(queue[c])) = Len(queue[c]) - 1
    BY <1>1, <2>1
  <2> QED
    BY <1>1, <1>2, <2>1, <2>2 DEF PushedOut
<1>3. CASE ~Full(c)
  <2>1. Len(queue[c]) < Capacity
    BY <1>1, <1>3 DEF Full
  <2> QED
    BY <1>1, <1>3, <2>1 DEF PushedOut
<1> QED
  BY <1>2, <1>3

LEMMA TypesInit == ASSUME Sizes, Init PROVE TypeOK
<1>1. <<>> \in Seq(Payloads) /\ Len(<<>>) = 0
  OBVIOUS
<1>2. 0 \in 0..MaxVersion + 1 /\ 0 \in 0..MaxVersion /\ 0 <= Capacity
  BY DEF Sizes
<1>3. pc \in [Goroutines -> PCs]
  BY PcIn DEF Init
<1>4. truth \in [Tasks -> 0..Gone] /\ view \in [Clients -> [Tasks -> 0..MaxVersion]]
  BY <1>2 DEF Init, Gone, Hidden
<1>5. queue \in [Clients -> Seq(Payloads)] /\ \A c \in Clients : Len(queue[c]) <= Capacity
  BY <1>1, <1>2 DEF Init
<1> QED
  BY <1>3, <1>4, <1>5 DEF Init, TypeOK

LEMMA TypesChange ==
  ASSUME Sizes, TypeOK, NEW p \in Mutators, NEW t \in Tasks,
         Create(p, t) \/ Change(p, t) \/ Remove(p, t)
  PROVE  TypeOK'
<1>1. PICK a \in {"mark", "unmark"} : Go(p, [at |-> a, t |-> t])
  BY DEF Create, Change, Remove
<1>2. [at |-> a, t |-> t] \in PCs /\ p \in Goroutines
  BY PcIn DEF Goroutines
<1>3. pc' \in [Goroutines -> PCs]
  BY <1>1, <1>2, GoIs
<1>4. truth' \in [Tasks -> 0..Gone]
  <2>1. truth[t] \in 0..Gone /\ truth \in [Tasks -> 0..Gone]
    BY DEF TypeOK
  <2> QED
    BY <2>1 DEF Create, Change, Remove, Sizes, Gone, Hidden
<1>5. UNCHANGED <<subs, queue, client, view, dirty, deleted, pending, window>>
  BY DEF Create, Change, Remove, clientVars, markVars
<1> QED
  BY <1>3, <1>4, <1>5 DEF TypeOK, Gone

LEMMA TypesMark ==
  ASSUME Sizes, TypeOK, NEW p \in Mutators, Broadcast(p) \/ BroadcastDeleted(p)
  PROVE  TypeOK'
<1>1. p \in Goroutines /\ pc[p] \in PCs /\ pc[p].at \in {"mark", "unmark"}
  BY DEF Goroutines, TypeOK, Broadcast, BroadcastDeleted
<1>2. pc[p].t \in Tasks
  BY <1>1, PcOf
<1>3. Go(p, Idle) \/ Go(p, [at |-> "flush"])
  BY DEF Broadcast, BroadcastDeleted, StartsOrLeaves
<1>4. pc' \in [Goroutines -> PCs]
  BY <1>1, <1>3, PcIn, GoIs
<1>5. UNCHANGED <<truth, subs, queue, client, view, window>>
  BY DEF Broadcast, BroadcastDeleted, clientVars
<1>6. pending' \in BOOLEAN
  BY DEF Broadcast, BroadcastDeleted, StartsOrLeaves, markVars, TypeOK
<1>7. dirty' \subseteq Tasks /\ deleted' \subseteq Tasks
  BY <1>2 DEF Broadcast, BroadcastDeleted, markVars, TypeOK
<1> QED
  BY <1>4, <1>5, <1>6, <1>7 DEF TypeOK

LEMMA TypesFlush ==
  ASSUME Sizes, TypeOK, NEW p \in Goroutines, Flush(p)
  PROVE  TypeOK'
<1>0. pc[p] \in PCs
  BY DEF TypeOK
<1>1. CASE TakeMarks(p)
  <2>1. [at |-> "build", dirty |-> dirty, deleted |-> deleted] \in PCs
    BY PcIn DEF TypeOK
  <2>2. pc' \in [Goroutines -> PCs]
    BY <1>1, <2>1, GoIs DEF TakeMarks
  <2> QED
    BY <1>1, <2>2 DEF TakeMarks, TypeOK, clientVars
<1>2. CASE BuildPayload(p)
  <2>1. pc[p].dirty \subseteq Tasks /\ pc[p].deleted \subseteq Tasks
    BY <1>0, <1>2, PcOf DEF BuildPayload
  <2>2. PICK m : m = Delta(pc[p].dirty, pc[p].deleted)
    OBVIOUS
  <2>4. m \in Payloads
    <3>1. PICK d \in SUBSET Tasks, x \in SUBSET Tasks : d = pc[p].dirty /\ x = pc[p].deleted
      BY <2>1
    <3>2. Delta(d, x) \in Payloads
      BY DeltaIs
    <3> QED
      BY <2>2, <3>1, <3>2
  <2>5. [at |-> "send", payload |-> m] \in PCs
    BY <2>4, PcIn
  <2>3. pc' \in [Goroutines -> PCs]
    BY <1>2, <2>2, <2>5, GoIs DEF BuildPayload
  <2> QED
    BY <1>2, <2>3 DEF BuildPayload, TypeOK, clientVars, markVars
<1>3. CASE Send(p)
  <2> DEFINE slow == {c \in subs : Full(c)}
  <2>1. pc[p].payload \in Payloads /\ slow \subseteq Clients
    BY <1>0, <1>3, PcOf DEF Send, TypeOK
  <2>2. Go(p, Idle) \/ Go(p, [at |-> "end"]) \/ Go(p, [at |-> "slow", slow |-> slow])
    BY <1>3 DEF Send
  <2>3. pc' \in [Goroutines -> PCs]
    BY <2>1, <2>2, PcIn, GoIs
  <2>4. queue' \in [Clients -> Seq(Payloads)] /\ \A c \in Clients : Len(queue'[c]) <= Capacity
    <3>1. CASE queue' = queue
      BY <3>1 DEF TypeOK
    <3>2. CASE queue' = [c \in Clients |-> IF c \in subs \ slow
                                            THEN Append(queue[c], pc[p].payload) ELSE queue[c]]
      <4>1. \A c \in Clients : queue'[c] \in Seq(Payloads) /\ Len(queue'[c]) <= Capacity
        <5> TAKE c \in Clients
        <5>1. CASE c \in subs \ slow
          BY <2>1, <3>2, <5>1, ChannelRoom
        <5>2. CASE c \notin subs \ slow
          BY <3>2, <5>2 DEF TypeOK
        <5> QED BY <5>1, <5>2
      <4> QED
        BY <3>2, <4>1
    <3> QED
      BY <1>3, <3>1, <3>2 DEF Send
  <2>5. pending' \in BOOLEAN
    BY <1>3 DEF Send, TypeOK
  <2> QED
    BY <1>3, <2>3, <2>4, <2>5 DEF Send, TypeOK
<1>4. CASE BuildSnapshot(p)
  <2>1. pc[p].slow \subseteq Clients
    BY <1>0, <1>4, PcOf DEF BuildSnapshot
  <2>2. [at |-> "resend", slow |-> pc[p].slow, payload |-> Snapshot] \in PCs
    BY <2>1, SnapshotIs, PcIn
  <2>3. pc' \in [Goroutines -> PCs]
    BY <1>4, <2>2, GoIs DEF BuildSnapshot
  <2> QED
    BY <1>4, <2>3 DEF BuildSnapshot, TypeOK, clientVars, markVars
<1>5. CASE Resend(p)
  <2>1. pc[p].payload \in Payloads
    BY <1>0, <1>5, PcOf DEF Resend
  <2>2. pc' \in [Goroutines -> PCs]
    BY <1>5, PcIn, GoIs DEF Resend
  <2>3. \A c \in Clients : /\ queue'[c] = IF c \in pc[p].slow \cap subs
                                          THEN PushedOut(c, pc[p].payload) ELSE queue[c]
                           /\ queue'[c] \in Seq(Payloads) /\ Len(queue'[c]) <= Capacity
    BY <1>5, <2>1, ChannelRoom DEF Resend, TypeOK
  <2>4. queue' \in [Clients -> Seq(Payloads)]
    BY <1>5, <2>3 DEF Resend
  <2> QED
    BY <1>5, <2>2, <2>3, <2>4 DEF Resend, TypeOK, markVars
<1>6. CASE ArmWindow(p)
  <2>1. pc' \in [Goroutines -> PCs]
    BY <1>6, PcIn, GoIs DEF ArmWindow
  <2> QED
    BY <1>6, <2>1 DEF ArmWindow, TypeOK, clientVars, markVars
<1> QED
  BY <1>1, <1>2, <1>3, <1>4, <1>5, <1>6 DEF Flush

LEMMA TypesWindow == ASSUME TypeOK, FinishWindow PROVE TypeOK'
<1>1. UNCHANGED <<truth, subs, queue, client, view>> /\ window' \in BOOLEAN
  BY DEF FinishWindow, clientVars
<1>2. pc' \in [Goroutines -> PCs]
  <2>1. CASE UNCHANGED pc
    BY <2>1 DEF TypeOK
  <2>2. CASE Go("timer", [at |-> "flush"])
    BY <2>2, PcIn, GoIs DEF Goroutines
  <2> QED
    BY <2>1, <2>2 DEF FinishWindow
<1>3. pending' \in BOOLEAN
  BY DEF FinishWindow, TypeOK
<1>4. dirty' \subseteq Tasks /\ deleted' \subseteq Tasks
  BY DEF FinishWindow, TypeOK
<1> QED
  BY <1>1, <1>2, <1>3, <1>4 DEF TypeOK

LEMMA TypesPage ==
  ASSUME Sizes, TypeOK, NEW c \in Clients,
         Subscribe(c) \/ WriteSnapshot(c) \/ Receive(c) \/ Unsubscribe(c)
  PROVE  TypeOK'
<1>0. /\ queue \in [Clients -> Seq(Payloads)] /\ \A d \in Clients : Len(queue[d]) <= Capacity
      /\ view \in [Clients -> [Tasks -> 0..MaxVersion]] /\ <<>> \in Seq(Payloads) /\ Len(<<>>) = 0
      /\ 0 <= Capacity
  BY DEF TypeOK, Sizes
<1>1. UNCHANGED <<truth, dirty, deleted, pending, window, pc>>
  BY DEF Subscribe, WriteSnapshot, Receive, Unsubscribe, markVars
<1>2. subs' \subseteq Clients /\ client' \in [Clients -> {"off", "subscribed", "on", "left"}]
  BY DEF Subscribe, WriteSnapshot, Receive, Unsubscribe, TypeOK
<1>3. queue' \in [Clients -> Seq(Payloads)] /\ \A d \in Clients : Len(queue'[d]) <= Capacity
  <2>1. CASE queue' = queue
    BY <1>0, <2>1
  <2>2. CASE queue' = [queue EXCEPT ![c] = <<>>]
    BY <1>0, <2>2
  <2>3. CASE queue[c] # <<>> /\ queue' = [queue EXCEPT ![c] = Tail(@)]
    <3>1. Tail(queue[c]) \in Seq(Payloads) /\ Len(Tail(queue[c])) = Len(queue[c]) - 1
          /\ Len(queue[c]) \in Nat /\ Capacity \in Nat
      BY <1>0, <2>3 DEF Sizes
    <3> QED
      BY <1>0, <2>3, <3>1
  <2> QED
    BY <2>1, <2>2, <2>3 DEF Subscribe, WriteSnapshot, Receive, Unsubscribe
<1>4. view' \in [Clients -> [Tasks -> 0..MaxVersion]]
  <2>1. CASE view' = view
    BY <1>0, <2>1
  <2>2. CASE view' = [view EXCEPT ![c] = Merge(@, Snapshot)]
    BY <1>0, <2>2, SnapshotIs, MergeIs
  <2>3. CASE queue[c] # <<>> /\ view' = [view EXCEPT ![c] = Merge(@, Head(queue[c]))]
    <3>1. Head(queue[c]) \in Payloads
      BY <1>0, <2>3
    <3> QED
      BY <1>0, <2>3, <3>1, MergeIs
  <2> QED
    BY <2>1, <2>2, <2>3 DEF Subscribe, WriteSnapshot, Receive, Unsubscribe
<1> QED
  BY <1>1, <1>2, <1>3, <1>4 DEF TypeOK

LEMMA TypesNext == ASSUME Sizes, TypeOK, [Next]_vars PROVE TypeOK'
<1>1. CASE UNCHANGED vars
  BY <1>1 DEF vars, clientVars, markVars, TypeOK
<1>2. CASE Next
  BY <1>2, TypesChange, TypesMark, TypesFlush, TypesWindow, TypesPage DEF Next
<1> QED
  BY <1>1, <1>2

\* Types; no channel ever holds more than its capacity, so that no send of
\* flushBroadcast blocks while it holds subMu.
THEOREM ChannelsKeepTheirCapacity == ASSUME Sizes PROVE Spec => []TypeOK
BY TypesInit, TypesNext, PTL DEF Spec

-----------------------------------------------------------------------------
(***************************************************************************)
(* What the pages are told.                                                *)
(***************************************************************************)
\* The last message of a channel about a task says x; no message is about it.
Brings(q, x, t) ==
  \E i \in 1..Len(q) : /\ t \in DOMAIN q[i]
                       /\ \A j \in i..Len(q) : t \in DOMAIN q[j] => q[j][t] = x
Silent(q, t) == \A i \in 1..Len(q) : t \notin DOMAIN q[i]

\* A goroutine will mark the task, it is marked, or the flush has taken its mark.
Announced(t) ==
  \/ \E p \in Goroutines : pc[p].at \in {"mark", "unmark"} /\ pc[p].t = t
  \/ t \in dirty \cup deleted
  \/ \E p \in Goroutines : pc[p].at = "build" /\ t \in pc[p].dirty \cup pc[p].deleted

\* The flush is about to put a message about the task into the page's channel.
Coming(c, t) ==
  \E p \in Goroutines : \/ pc[p].at = "send" /\ t \in DOMAIN pc[p].payload
                        \/ pc[p].at \in {"slow", "resend"} /\ c \in pc[p].slow

\* A page knows what a task is, or will be told.
Told(c, t) ==
  \/ Announced(t) \/ Coming(c, t) \/ Brings(queue[c], Shown(t), t)
  \/ Silent(queue[c], t) /\ (client[c] = "on" => view[c][t] = Shown(t))
Informed == \A c \in subs, t \in Tasks : Told(c, t)

\* The message under way is right about a task, or another one will follow.
Right(m) == \A t \in DOMAIN m : Announced(t) \/ m[t] = Shown(t)
Carries(p) == pc[p].at \in {"send", "resend"}
Fresh == \A p \in Goroutines : Carries(p) => Right(pc[p].payload)

\* What replaces a message that found no room speaks of every task.
Complete == \A p \in Goroutines : pc[p].at = "resend" => DOMAIN pc[p].payload = Tasks

\* Nothing is newer than the tasks are.
NotAhead(m) == \A t \in DOMAIN m : m[t] <= truth[t]
Past ==
  /\ \A p \in Goroutines : Carries(p) => NotAhead(pc[p].payload)
  /\ \A c \in Clients : \A i \in 1..Len(queue[c]) : NotAhead(queue[c][i])
  /\ \A c \in Clients, t \in Tasks : view[c][t] <= truth[t]

\* A task that is marked as deleted is gone for good.
Goners ==
  /\ \A t \in deleted : truth[t] = Gone
  /\ \A p \in Goroutines : /\ pc[p].at = "unmark" => truth[pc[p].t] = Gone
                           /\ pc[p].at = "build" => \A t \in pc[p].deleted : truth[t] = Gone

\* Marks wait for a flush or the window; while no page is connected there are neither.
Awake ==
  /\ subs = {} => ~pending
  /\ dirty \cup deleted # {} => pending
  /\ \A c \in Clients : client[c] \in {"subscribed", "on"} <=> c \in subs
  /\ pc["timer"].at \notin {"mark", "unmark"}

PagesInv == TypeOK /\ OneFlusher /\ Awake /\ Goners /\ Past /\ Fresh /\ Informed

LEMMA AppendBrings ==
  ASSUME NEW q \in Seq(Payloads), NEW m \in Payloads, NEW t, NEW x
  PROVE  /\ t \in DOMAIN m /\ m[t] = x => Brings(Append(q, m), x, t)
         /\ t \notin DOMAIN m /\ Brings(q, x, t) => Brings(Append(q, m), x, t)
         /\ t \notin DOMAIN m /\ Silent(q, t) => Silent(Append(q, m), t)
<1>1. PICK a : a = Append(q, m)
  OBVIOUS
<1>2. /\ Len(a) = Len(q) + 1 /\ Len(q) \in Nat /\ a[Len(q) + 1] = m
      /\ \A i \in 1..Len(q) : a[i] = q[i]
  BY <1>1
<1>3. t \in DOMAIN m /\ m[t] = x => Brings(a, x, t)
  <2> SUFFICES ASSUME t \in DOMAIN m, m[t] = x PROVE Brings(a, x, t)
    OBVIOUS
  <2>1. Len(q) + 1 \in 1..Len(a) /\ t \in DOMAIN a[Len(q) + 1]
    BY <1>2
  <2>2. \A j \in (Len(q) + 1)..Len(a) : j = Len(q) + 1
    BY <1>2
  <2> QED
    BY <1>2, <2>1, <2>2 DEF Brings
<1>4. t \notin DOMAIN m /\ Brings(q, x, t) => Brings(a, x, t)
  <2> SUFFICES ASSUME t \notin DOMAIN m, Brings(q, x, t) PROVE Brings(a, x, t)
    OBVIOUS
  <2>1. PICK i \in 1..Len(q) : /\ t \in DOMAIN q[i]
                               /\ \A j \in i..Len(q) : t \in DOMAIN q[j] => q[j][t] = x
    BY DEF Brings
  <2>2. \A j \in i..Len(a) : j = Len(q) + 1 \/ (j \in i..Len(q) /\ j \in 1..Len(q))
    BY <1>2
  <2>3. \A j \in i..Len(a) : t \in DOMAIN a[j] => a[j][t] = x
    BY <1>2, <2>1, <2>2
  <2>4. i \in 1..Len(a) /\ t \in DOMAIN a[i]
    BY <1>2, <2>1
  <2> QED
    BY <2>3, <2>4 DEF Brings
<1>5. t \notin DOMAIN m /\ Silent(q, t) => Silent(a, t)
  <2>1. \A j \in 1..Len(a) : j = Len(q) + 1 \/ j \in 1..Len(q)
    BY <1>2
  <2> QED
    BY <1>2, <2>1 DEF Silent
<1> QED
  BY <1>1, <1>3, <1>4, <1>5

LEMMA TailBrings ==
  ASSUME NEW q \in Seq(Payloads), q # <<>>, NEW t, NEW x
  PROVE  /\ Brings(q, x, t) => \/ Brings(Tail(q), x, t)
                               \/ t \in DOMAIN Head(q) /\ Head(q)[t] = x /\ Silent(Tail(q), t)
         /\ Silent(q, t) => t \notin DOMAIN Head(q) /\ Silent(Tail(q), t)
<1>1. PICK r : r = Tail(q)
  OBVIOUS
<1>2. /\ Len(q) \in Nat /\ Len(q) > 0 /\ Len(r) = Len(q) - 1 /\ Head(q) = q[1]
      /\ \A i \in 1..Len(r) : r[i] = q[i + 1]
  BY <1>1
<1>3. \A i \in 1..Len(r) : i + 1 \in 1..Len(q)
  BY <1>2
<1>4. Silent(q, t) => t \notin DOMAIN Head(q) /\ Silent(r, t)
  BY <1>2, <1>3 DEF Silent
<1>5. ASSUME Brings(q, x, t), ~Silent(r, t) PROVE Brings(r, x, t)
  <2>1. PICK i \in 1..Len(q) : /\ t \in DOMAIN q[i]
                               /\ \A j \in i..Len(q) : t \in DOMAIN q[j] => q[j][t] = x
    BY <1>5 DEF Brings
  <2>2. PICK k \in 1..Len(r) : t \in DOMAIN r[k]
    BY <1>5 DEF Silent
  <2>3. CASE i = 1
    <3>1. \A j \in k..Len(r) : j \in 1..Len(r) /\ j + 1 \in i..Len(q)
      BY <1>2, <2>3
    <3>2. \A j \in k..Len(r) : t \in DOMAIN r[j] => r[j][t] = x
      BY <1>2, <2>1, <3>1
    <3> QED
      BY <2>2, <3>2 DEF Brings
  <2>4. CASE i # 1
    <3>1. PICK h \in 1..Len(r) : i = h + 1
      <4>1. i - 1 \in 1..Len(r) /\ i = (i - 1) + 1
        BY <1>2, <2>4
      <4> QED
        BY <4>1
    <3>2. \A j \in h..Len(r) : j \in 1..Len(r) /\ j + 1 \in i..Len(q)
      BY <1>2, <3>1
    <3>3. \A j \in h..Len(r) : t \in DOMAIN r[j] => r[j][t] = x
      BY <1>2, <2>1, <3>2
    <3>4. t \in DOMAIN r[h]
      BY <1>2, <2>1, <3>1
    <3> QED
      BY <3>3, <3>4 DEF Brings
  <2> QED
    BY <2>3, <2>4
<1>6. ASSUME Brings(q, x, t), Silent(r, t) PROVE t \in DOMAIN Head(q) /\ Head(q)[t] = x
  <2>1. PICK i \in 1..Len(q) : /\ t \in DOMAIN q[i]
                               /\ \A j \in i..Len(q) : t \in DOMAIN q[j] => q[j][t] = x
    BY <1>6 DEF Brings
  <2>2. CASE i = 1
    BY <1>2, <2>1, <2>2
  <2>3. CASE i # 1
    <3>1. i - 1 \in 1..Len(r) /\ i = (i - 1) + 1
      BY <1>2, <2>3
    <3>2. r[i - 1] = q[i]
      BY <1>2, <3>1
    <3> QED
      BY <1>6, <2>1, <3>1, <3>2 DEF Silent
  <2> QED
    BY <2>2, <2>3
<1> QED
  BY <1>1, <1>4, <1>5, <1>6

LEMMA MessagesPast ==
  ASSUME NEW q \in Seq(Payloads), NEW m \in Payloads, \A i \in 1..Len(q) : NotAhead(q[i])
  PROVE  /\ NotAhead(m) => \A i \in 1..Len(Append(q, m)) : NotAhead(Append(q, m)[i])
         /\ q # <<>> => NotAhead(Head(q)) /\ \A i \in 1..Len(Tail(q)) : NotAhead(Tail(q)[i])
<1>1. ASSUME NotAhead(m), NEW i \in 1..Len(Append(q, m)) PROVE NotAhead(Append(q, m)[i])
  <2>1. i \in 1..Len(q) \/ i = Len(q) + 1
    OBVIOUS
  <2>2. CASE i \in 1..Len(q)
    <3>1. Append(q, m)[i] = q[i]
      BY <2>2
    <3> QED BY <2>2, <3>1
  <2>3. CASE i = Len(q) + 1
    <3>1. Append(q, m)[i] = m
      BY <2>3
    <3> QED BY <1>1, <3>1
  <2> QED BY <2>1, <2>2, <2>3
<1>2. ASSUME q # <<>> PROVE NotAhead(Head(q))
  <2>1. 1 \in 1..Len(q) /\ Head(q) = q[1]
    BY <1>2
  <2> QED BY <2>1
<1>3. ASSUME q # <<>>, NEW i \in 1..Len(Tail(q)) PROVE NotAhead(Tail(q)[i])
  <2>1. i + 1 \in 1..Len(q) /\ Tail(q)[i] = q[i + 1]
    BY <1>3
  <2> QED BY <2>1
<1> QED
  BY <1>1, <1>2, <1>3

\* A message that is right about a task makes the page right about it, and one that is
\* not ahead of the tasks keeps the page behind them.
LEMMA MergeShows ==
  ASSUME Sizes, TypeOK, NEW v \in [Tasks -> 0..MaxVersion], NEW m \in Payloads,
         NEW t \in Tasks, v[t] <= truth[t]
  PROVE  /\ t \in DOMAIN m /\ m[t] = Shown(t) => Merge(v, m)[t] = Shown(t)
         /\ NotAhead(m) => Merge(v, m)[t] <= truth[t]
<1>1. truth[t] \in 0..Gone /\ v[t] \in 0..MaxVersion
  BY DEF TypeOK
<1>2. t \in DOMAIN m => m[t] \in 0..MaxVersion
  BY PayloadIs
<1>3. Shown(t) # Hidden => Shown(t) = truth[t]
  BY DEF Shown
<1> QED
  BY <1>1, <1>2, <1>3, MergeIs DEF NotAhead, Newer, Sizes, Hidden, Gone

-----------------------------------------------------------------------------
\* What a step of one goroutine leaves to be told.
LEMMA AnnouncedStays ==
  ASSUME NEW p \in Goroutines, NEW s,
         \A q \in Goroutines : pc'[q] = IF q = p THEN s ELSE pc[q],
         pc[p].at \notin {"mark", "unmark", "build"},
         dirty \cup deleted \subseteq dirty' \cup deleted'
  PROVE  \A t : Announced(t) => Announced(t)'
BY DEF Announced

LEMMA ComingStays ==
  ASSUME NEW p \in Goroutines, NEW s,
         \A q \in Goroutines : pc'[q] = IF q = p THEN s ELSE pc[q],
         pc[p].at \notin {"send", "slow", "resend"}
  PROVE  \A c, t : Coming(c, t) => Coming(c, t)'
BY DEF Coming

LEMMA OnlyOne ==
  ASSUME OneFlusher, NEW p \in Goroutines, pc[p].at \in Steps
  PROVE  /\ \A q \in Goroutines : q # p => pc[q].at \notin Steps
         /\ pending /\ ~window
BY DEF OneFlusher, Flushing, Steps

LEMMA NoneFlushes ==
  ASSUME OneFlusher, ~pending
  PROVE  \A q \in Goroutines : pc[q].at \notin Steps
BY DEF OneFlusher, Flushing, Steps

LEMMA ToldStays ==
  ASSUME NEW c, NEW t, Told(c, t), Announced(t) => Announced(t)', Coming(c, t) => Coming(c, t)',
         UNCHANGED <<truth, queue, client, view>>
  PROVE  Told(c, t)'
BY DEF Told, Shown

LEMMA RightStays ==
  ASSUME NEW m, Right(m), \A t : Announced(t) => Announced(t)', UNCHANGED truth
  PROVE  Right(m)'
BY DEF Right, Shown

-----------------------------------------------------------------------------
LEMMA PagesInit == ASSUME Sizes, Init, "timer" \notin Mutators PROVE PagesInv
<1>1. TypeOK /\ OneFlusher
  BY TypesInit, FlushInit DEF FlushInv
<1>2. \A p \in Goroutines : pc[p] = Idle /\ Idle.at = "idle"
  BY DEF Init, Idle
<1>3. Awake
  BY <1>2 DEF Init, Awake, Goroutines
<1>4. Goners /\ Fresh /\ Informed
  BY <1>2 DEF Init, Goners, Fresh, Carries, Informed
<1>5. Past
  BY <1>2 DEF Init, Past, Carries, Hidden
<1> QED
  BY <1>1, <1>3, <1>4, <1>5 DEF PagesInv

LEMMA ChangeStep ==
  ASSUME Sizes, "timer" \notin Mutators, PagesInv, TypeOK', OneFlusher',
         NEW p \in Mutators, NEW t \in Tasks, Create(p, t) \/ Change(p, t) \/ Remove(p, t)
  PROVE  PagesInv'
<1>1. /\ pc[p] = Idle /\ p \in Goroutines /\ p # "timer" /\ Idle.at = "idle"
      /\ UNCHANGED <<subs, queue, client, view, dirty, deleted, pending, window>>
  BY DEF Create, Change, Remove, clientVars, markVars, Goroutines, Idle
<1>2. PICK a \in {"mark", "unmark"}, v \in 0..Gone :
        /\ Go(p, [at |-> a, t |-> t]) /\ truth' = [truth EXCEPT ![t] = v]
        /\ truth[t] <= v /\ truth[t] # Gone
        /\ a = "unmark" => v = Gone
  <2>1. truth[t] \in 0..Gone /\ Gone = MaxVersion + 1
    BY DEF PagesInv, TypeOK, Gone
  <2>2. CASE Create(p, t)
    <3>1. 1 \in 0..Gone
      BY <2>1 DEF Sizes
    <3>2. /\ Go(p, [at |-> "mark", t |-> t]) /\ truth' = [truth EXCEPT ![t] = 1]
          /\ truth[t] <= 1 /\ truth[t] # Gone
          /\ "mark" \in {"mark", "unmark"} /\ "mark" # "unmark"
      BY <2>1, <2>2 DEF Create, Hidden, Sizes
    <3> QED
      BY <3>1, <3>2, Zenon
  <2>3. CASE Change(p, t)
    <3>1. truth[t] + 1 \in 0..Gone /\ truth' = [truth EXCEPT ![t] = truth[t] + 1]
      BY <2>1, <2>3 DEF Change, Sizes
    <3>2. /\ Go(p, [at |-> "mark", t |-> t])
          /\ truth[t] <= truth[t] + 1 /\ truth[t] # Gone
          /\ "mark" \in {"mark", "unmark"} /\ "mark" # "unmark"
      BY <2>1, <2>3 DEF Change, Sizes
    <3> QED
      BY <3>1, <3>2, Zenon
  <2>4. CASE Remove(p, t)
    <3>1. Gone \in 0..Gone /\ truth[t] <= Gone /\ truth[t] # Gone
      BY <2>1, <2>4 DEF Remove, Sizes
    <3> QED
      BY <2>4, <3>1 DEF Remove
  <2> QED BY <2>2, <2>3, <2>4
<1>3. PICK s : s = [at |-> a, t |-> t]
  OBVIOUS
<1>4. s \in PCs /\ s.at = a /\ s.t = t
  BY <1>3, PcIn
<1>5. \A q \in Goroutines : pc'[q] = IF q = p THEN s ELSE pc[q]
  BY <1>1, <1>2, <1>3, <1>4, GoIs DEF PagesInv
<1>6. /\ truth'[t] = v /\ \A u \in Tasks : u # t => truth'[u] = truth[u]
      /\ \A u \in Tasks : truth[u] = Gone => u # t
  BY <1>2 DEF PagesInv, TypeOK
<1>7. Announced(t)' /\ \A u : Announced(u) => Announced(u)'
  <2>1. Announced(t)'
    BY <1>1, <1>4, <1>5 DEF Announced
  <2> QED
    BY <1>1, <1>5, <2>1, AnnouncedStays
<1>8. \A c, u : Coming(c, u) => Coming(c, u)'
  BY <1>1, <1>5, ComingStays
<1>9. Awake'
  BY <1>1, <1>5 DEF PagesInv, Awake, Goroutines
<1>10. Goners'
  <2>1. \A u \in deleted : u \in Tasks /\ truth[u] = Gone
    BY DEF PagesInv, TypeOK, Goners
  <2>2. \A u \in deleted' : truth'[u] = Gone
    BY <1>1, <1>6, <2>1
  <2>3. ASSUME NEW q \in Goroutines
        PROVE  /\ pc'[q].at = "unmark" => truth'[pc'[q].t] = Gone
               /\ pc'[q].at = "build" => \A u \in pc'[q].deleted : truth'[u] = Gone
    <3>1. CASE q = p
      BY <1>2, <1>4, <1>5, <1>6, <3>1
    <3>2. CASE q # p
      <4>1. pc[q] \in PCs /\ pc'[q] = pc[q]
        BY <1>5, <3>2 DEF PagesInv, TypeOK
      <4>2. pc[q].at = "unmark" => pc[q].t \in Tasks /\ truth[pc[q].t] = Gone
        BY <4>1, PcOf DEF PagesInv, Goners
      <4>3. pc[q].at = "build" => \A u \in pc[q].deleted : u \in Tasks /\ truth[u] = Gone
        BY <4>1, PcOf DEF PagesInv, Goners
      <4> QED
        BY <1>6, <4>1, <4>2, <4>3
    <3> QED BY <3>1, <3>2
  <2> QED
    BY <2>2, <2>3 DEF Goners, Gone
<1>11. \A m \in Payloads : NotAhead(m) => NotAhead(m)'
  <2> SUFFICES ASSUME NEW m \in Payloads, NotAhead(m), NEW u \in DOMAIN m PROVE m[u] <= truth'[u]
    BY DEF NotAhead
  <2>1. u \in Tasks /\ m[u] \in 0..MaxVersion /\ m[u] <= truth[u] /\ truth[u] \in 0..Gone
    BY PayloadIs DEF NotAhead, PagesInv, TypeOK
  <2>2. CASE u = t
    BY <1>2, <1>6, <2>1, <2>2 DEF Sizes, Gone
  <2>3. CASE u # t
    BY <1>6, <2>1, <2>3
  <2> QED BY <2>2, <2>3
<1>12. Past'
  <2>1. ASSUME NEW q \in Goroutines, Carries(q)' PROVE NotAhead(pc[q].payload)' /\ pc'[q] = pc[q]
    <3>1. q # p /\ pc'[q] = pc[q] /\ Carries(q)
      BY <1>4, <1>5, <2>1 DEF Carries
    <3>2. pc[q] \in PCs
      BY DEF PagesInv, TypeOK
    <3>3. pc[q].payload \in Payloads /\ NotAhead(pc[q].payload)
      BY <3>1, <3>2, PcOf DEF PagesInv, Past, Carries
    <3>4. PICK m \in Payloads : m = pc[q].payload
      BY <3>3
    <3> QED
      BY <1>11, <3>1, <3>3, <3>4 DEF NotAhead
  <2>2. ASSUME NEW c \in Clients, NEW i \in 1..Len(queue[c]) PROVE NotAhead(queue[c][i])'
    <3>1. queue[c] \in Seq(Payloads) /\ NotAhead(queue[c][i])
      BY DEF PagesInv, TypeOK, Past
    <3>2. PICK m \in Payloads : m = queue[c][i]
      BY <3>1
    <3> QED
      BY <1>1, <1>11, <3>1, <3>2 DEF NotAhead
  <2>3. ASSUME NEW c \in Clients, NEW u \in Tasks PROVE view[c][u] <= truth'[u]
    <3>1. view[c][u] \in 0..MaxVersion /\ view[c][u] <= truth[u] /\ truth[u] \in 0..Gone
      BY DEF PagesInv, TypeOK, Past
    <3> QED
      BY <1>2, <1>6, <3>1 DEF Sizes, Gone
  <2> QED
    BY <1>1, <2>1, <2>2, <2>3 DEF Past, NotAhead
<1>13. \A u \in Tasks : u # t => Shown(u)' = Shown(u)
  BY <1>6 DEF Shown, Gone
<1>14. Fresh'
  <2> SUFFICES ASSUME NEW q \in Goroutines, Carries(q)', NEW u \in DOMAIN pc'[q].payload
               PROVE  Announced(u)' \/ pc'[q].payload[u] = Shown(u)'
    BY DEF Fresh, Right
  <2>1. q # p /\ pc'[q] = pc[q] /\ Carries(q)
    BY <1>4, <1>5 DEF Carries
  <2>2. pc[q] \in PCs
    BY DEF PagesInv, TypeOK
  <2>3. u \in Tasks /\ (Announced(u) \/ pc[q].payload[u] = Shown(u))
    BY <2>1, <2>2, PcOf, PayloadIs DEF PagesInv, Fresh, Right, Carries
  <2> QED
    BY <1>7, <1>13, <2>1, <2>3
<1>15. Informed'
  <2> SUFFICES ASSUME NEW c \in subs, NEW u \in Tasks PROVE Told(c, u)'
    BY <1>1 DEF Informed
  <2>1. CASE u = t
    BY <1>7, <2>1 DEF Told
  <2>2. CASE u # t
    <3>1. Told(c, u)
      BY DEF PagesInv, Informed
    <3> QED
      BY <1>1, <1>7, <1>8, <1>13, <2>2, <3>1 DEF Told
  <2> QED BY <2>1, <2>2
<1> QED
  BY <1>9, <1>10, <1>12, <1>14, <1>15 DEF PagesInv

LEMMA MarkStep ==
  ASSUME Sizes, "timer" \notin Mutators, PagesInv, TypeOK', OneFlusher',
         NEW p \in Mutators, Broadcast(p) \/ BroadcastDeleted(p)
  PROVE  PagesInv'
<1>1. /\ p \in Goroutines /\ p # "timer" /\ pc[p] \in PCs /\ pc[p].at \in {"mark", "unmark"}
      /\ UNCHANGED <<truth, subs, queue, client, view, window>>
  BY DEF Broadcast, BroadcastDeleted, clientVars, Goroutines, PagesInv, TypeOK
<1>2. PICK s \in {Idle, [at |-> "flush"]} : Go(p, s)
  BY DEF Broadcast, BroadcastDeleted, StartsOrLeaves
<1>3. s \in PCs /\ s.at \in {"idle", "flush"}
  BY <1>2, PcIn DEF Idle
<1>4. \A q \in Goroutines : pc'[q] = IF q = p THEN s ELSE pc[q]
  BY <1>1, <1>2, <1>3, GoIs DEF PagesInv
<1>5. PICK t \in Tasks : t = pc[p].t
  BY <1>1, PcOf
<1>6. \A q \in Goroutines : Carries(q)' => Carries(q) /\ pc'[q] = pc[q]
  BY <1>3, <1>4 DEF Carries
<1>7. Past'
  BY <1>1, <1>6 DEF PagesInv, Past, NotAhead
<1>8. CASE subs = {}
  <2>1. UNCHANGED <<dirty, deleted, pending>> /\ ~pending
    BY <1>8 DEF Broadcast, BroadcastDeleted, markVars, PagesInv, Awake
  <2>2. Awake'
    BY <1>1, <1>3, <1>4, <2>1 DEF PagesInv, Awake, Goroutines
  <2>3. Goners'
    BY <1>1, <1>3, <1>4, <2>1 DEF PagesInv, Goners, Gone
  <2>4. \A q \in Goroutines : ~Carries(q)'
    BY <1>6, <2>1, NoneFlushes DEF PagesInv, Carries, Steps
  <2>5. Fresh' /\ Informed'
    BY <1>1, <1>8, <2>4 DEF Fresh, Informed
  <2> QED
    BY <1>7, <2>2, <2>3, <2>5 DEF PagesInv
<1>9. CASE subs # {}
  <2>1. pending' = TRUE
    BY <1>9 DEF Broadcast, BroadcastDeleted, StartsOrLeaves
  <2>2. /\ dirty' \cup deleted' = dirty \cup deleted \cup {t}
        /\ deleted' \subseteq deleted \/ (deleted' = deleted \cup {t} /\ pc[p].at = "unmark")
    BY <1>5, <1>9 DEF Broadcast, BroadcastDeleted
  <2>3. Awake'
    BY <1>1, <1>3, <1>4, <1>9, <2>1 DEF PagesInv, Awake, Goroutines
  <2>4. Goners'
    <3>1. pc[p].at = "unmark" => truth[t] = Gone
      BY <1>1, <1>5 DEF PagesInv, Goners
    <3>2. \A u \in deleted' : truth[u] = Gone
      BY <2>2, <3>1 DEF PagesInv, Goners
    <3> QED
      BY <1>1, <1>3, <1>4, <3>2 DEF PagesInv, Goners, Gone
  <2>5. \A u : Announced(u) => Announced(u)'
    <3> SUFFICES ASSUME NEW u, Announced(u) PROVE Announced(u)'
      OBVIOUS
    <3>1. CASE u \in dirty \cup deleted \cup {t}
      BY <2>2, <3>1 DEF Announced
    <3>2. CASE u \notin dirty \cup deleted \cup {t}
      <4>1. PICK q \in Goroutines : \/ pc[q].at \in {"mark", "unmark"} /\ pc[q].t = u
                                    \/ pc[q].at = "build" /\ u \in pc[q].dirty \cup pc[q].deleted
        BY <3>2 DEF Announced
      <4>2. q # p
        BY <1>1, <1>5, <3>2, <4>1
      <4> QED
        BY <1>4, <4>1, <4>2 DEF Announced
    <3> QED BY <3>1, <3>2
  <2>6. \A c, u : Coming(c, u) => Coming(c, u)'
    BY <1>1, <1>4, ComingStays
  <2>7. Fresh'
    BY <1>1, <1>6, <2>5, RightStays DEF PagesInv, Fresh, Right
  <2>8. Informed'
    BY <1>1, <2>5, <2>6, ToldStays DEF PagesInv, Informed
  <2> QED
    BY <1>7, <2>3, <2>4, <2>7, <2>8 DEF PagesInv
<1> QED
  BY <1>8, <1>9

-----------------------------------------------------------------------------
\* The step of a flush: no other goroutine flushes, and what belongs to the tasks and
\* the pages apart from their channels is left alone.
LEMMA FlushFacts ==
  ASSUME PagesInv, TypeOK', NEW p \in Goroutines, Flush(p)
  PROVE  /\ pc[p] \in PCs /\ pc[p].at \in Steps /\ pending /\ subs # {}
         /\ \A q \in Goroutines : q # p => pc'[q] = pc[q] /\ pc[q].at \notin Steps
         /\ UNCHANGED <<truth, subs, client, view>>
<1>1. pc[p] \in PCs /\ pc[p].at \in Steps
  BY DEF PagesInv, TypeOK, Flush, TakeMarks, BuildPayload, Send, BuildSnapshot, Resend, ArmWindow, Steps
<1>2. pending /\ subs # {} /\ \A q \in Goroutines : q # p => pc[q].at \notin Steps
  BY <1>1, OnlyOne DEF PagesInv, Awake
<1>3. UNCHANGED <<truth, subs, client, view>>
  BY DEF Flush, TakeMarks, BuildPayload, Send, BuildSnapshot, Resend, ArmWindow, clientVars
<1>4. \E s : pc' = [pc EXCEPT ![p] = s]
  BY DEF Flush, TakeMarks, BuildPayload, Send, BuildSnapshot, Resend, ArmWindow, Go
<1>5. \A q \in Goroutines : q # p => pc'[q] = pc[q]
  BY <1>4 DEF PagesInv, TypeOK
<1> QED
  BY <1>1, <1>2, <1>3, <1>5

\* What every step of a flush keeps, whatever it puts into the channels.
LEMMA FlushKeeps ==
  ASSUME PagesInv, TypeOK', NEW p \in Goroutines, Flush(p), pending',
         pc'[p].at \notin {"mark", "unmark"}, deleted' \subseteq deleted
  PROVE  /\ Awake'
         /\ (pc'[p].at = "build" => \A t \in pc'[p].deleted : truth[t] = Gone) => Goners'
<1>1. /\ \A q \in Goroutines : q # p => pc'[q] = pc[q]
      /\ UNCHANGED <<truth, subs, client, view>> /\ subs # {}
  BY FlushFacts
<1>2. "timer" \in Goroutines
  BY DEF Goroutines
<1>3. Awake'
  BY <1>1, <1>2 DEF PagesInv, Awake
<1>4. ASSUME pc'[p].at = "build" => \A t \in pc'[p].deleted : truth[t] = Gone PROVE Goners'
  <2>1. \A t \in deleted' : truth'[t] = Gone'
    BY <1>1 DEF PagesInv, Goners, Gone
  <2>2. ASSUME NEW q \in Goroutines
        PROVE  /\ pc'[q].at = "unmark" => truth'[pc'[q].t] = Gone'
               /\ pc'[q].at = "build" => \A t \in pc'[q].deleted : truth'[t] = Gone'
    <3>1. CASE q = p
      BY <1>1, <1>4, <3>1 DEF Gone
    <3>2. CASE q # p
      BY <1>1, <3>2 DEF PagesInv, Goners, Gone
    <3> QED BY <3>1, <3>2
  <2> QED
    BY <2>1, <2>2 DEF Goners
<1> QED
  BY <1>3, <1>4

LEMMA TakeStep ==
  ASSUME PagesInv, TypeOK', OneFlusher', NEW p \in Goroutines, TakeMarks(p) PROVE PagesInv'
<1>1. Flush(p)
  BY DEF Flush
<1>2. /\ \A q \in Goroutines : q # p => pc'[q] = pc[q] /\ pc[q].at \notin Steps
      /\ UNCHANGED <<truth, subs, queue, client, view, pending>> /\ pending /\ subs # {}
      /\ pc[p].at = "flush" /\ dirty' = {} /\ deleted' = {}
  BY <1>1, FlushFacts DEF TakeMarks, clientVars
<1>3. pc'[p].at = "build" /\ pc'[p].dirty = dirty /\ pc'[p].deleted = deleted
  BY DEF TakeMarks, Go, PagesInv, TypeOK
<1>4. Awake' /\ Goners'
  BY <1>1, <1>2, <1>3, FlushKeeps DEF PagesInv, Goners
<1>5. \A t : Announced(t) => Announced(t)'
  <2> SUFFICES ASSUME NEW t, Announced(t) PROVE Announced(t)'
    OBVIOUS
  <2>1. CASE t \in dirty \cup deleted
    BY <1>3, <2>1 DEF Announced
  <2>2. CASE t \notin dirty \cup deleted
    <3>1. PICK q \in Goroutines : \/ pc[q].at \in {"mark", "unmark"} /\ pc[q].t = t
                                  \/ pc[q].at = "build" /\ t \in pc[q].dirty \cup pc[q].deleted
      BY <2>2 DEF Announced
    <3> QED
      BY <1>2, <3>1 DEF Announced
  <2> QED BY <2>1, <2>2
<1>6. \A q \in Goroutines : ~Carries(q)'
  BY <1>2, <1>3 DEF Carries, Steps
<1>7. \A c, t : Coming(c, t) => Coming(c, t)'
  BY <1>2 DEF Coming, Steps
<1>8. Past' /\ Fresh'
  BY <1>2, <1>6 DEF PagesInv, Past, Fresh, NotAhead
<1>9. Informed'
  BY <1>2, <1>5, <1>7, ToldStays DEF PagesInv, Informed
<1> QED
  BY <1>4, <1>8, <1>9 DEF PagesInv

LEMMA BuildStep ==
  ASSUME Sizes, PagesInv, TypeOK', OneFlusher', NEW p \in Goroutines, BuildPayload(p)
  PROVE  PagesInv'
<1>1. Flush(p)
  BY DEF Flush
<1>2. /\ \A q \in Goroutines : q # p => pc'[q] = pc[q] /\ pc[q].at \notin Steps
      /\ UNCHANGED <<truth, subs, queue, client, view, dirty, deleted, pending>> /\ pending /\ subs # {}
      /\ pc[p].at = "build" /\ pc[p] \in PCs
  BY <1>1, FlushFacts DEF BuildPayload, clientVars, markVars
<1>3. PICK d \in SUBSET Tasks, x \in SUBSET Tasks : d = pc[p].dirty /\ x = pc[p].deleted
  BY <1>2, PcOf
<1>4. PICK m \in Payloads : m = Delta(d, x)
  BY DeltaIs DEF PagesInv
<1>5. DOMAIN m = d \cup x /\ \A t \in d \cup x : m[t] = Shown(t)
  <2>1. DOMAIN m = d \cup x /\ \A t \in d \cup x : m[t] = IF t \in d THEN Shown(t) ELSE Hidden
    BY <1>4, DeltaIs DEF PagesInv
  <2>2. \A t \in x : Shown(t) = Hidden
    BY <1>2, <1>3 DEF PagesInv, Goners, Shown
  <2> QED BY <2>1, <2>2
<1>6. pc'[p].at = "send" /\ pc'[p].payload = m
  BY <1>3, <1>4 DEF BuildPayload, Go, PagesInv, TypeOK
<1>7. Awake' /\ Goners'
  BY <1>1, <1>2, <1>6, FlushKeeps DEF PagesInv, Goners
<1>8. \A q \in Goroutines : Carries(q)' => q = p
  BY <1>2 DEF Carries, Steps
<1>9. Right(m)' /\ NotAhead(m)'
  <2>1. \A t \in DOMAIN m : m[t] = Shown(t) /\ Shown(t) <= truth[t]
    BY <1>5, ShownIs DEF PagesInv
  <2> QED
    BY <1>2, <2>1 DEF Right, NotAhead, Shown, Gone
<1>10. Past' /\ Fresh'
  BY <1>2, <1>6, <1>8, <1>9 DEF PagesInv, Past, Fresh, NotAhead, Right
<1>11. Informed'
  <2> SUFFICES ASSUME NEW c \in subs, NEW t \in Tasks PROVE Told(c, t)'
    BY <1>2 DEF Informed
  <2>1. Told(c, t)
    BY DEF PagesInv, Informed
  <2>2. CASE t \in d \cup x
    BY <1>5, <1>6, <2>2 DEF Told, Coming
  <2>3. CASE t \notin d \cup x
    <3>1. Announced(t) => Announced(t)'
      BY <1>2, <1>3, <2>3 DEF Announced
    <3>2. ~Coming(c, t)
      BY <1>2 DEF Coming, Steps
    <3> QED
      BY <1>2, <2>1, <3>1, <3>2, ToldStays
  <2> QED BY <2>2, <2>3
<1> QED
  BY <1>7, <1>10, <1>11 DEF PagesInv

LEMMA SendStep ==
  ASSUME Sizes, PagesInv, TypeOK', OneFlusher', NEW p \in Goroutines, Send(p)
  PROVE  PagesInv'
<1>1. Flush(p)
  BY DEF Flush
<1>2. /\ \A q \in Goroutines : q # p => pc'[q] = pc[q] /\ pc[q].at \notin Steps
      /\ UNCHANGED <<truth, subs, client, view, dirty, deleted>> /\ pending /\ subs # {}
      /\ pc[p].at = "send" /\ pc[p] \in PCs
  BY <1>1, FlushFacts DEF Send
<1>3. PICK m \in Payloads : m = pc[p].payload
  BY <1>2, PcOf
<1>4. PICK slow : slow = {c \in subs : Full(c)}
  OBVIOUS
<1>5. /\ queue' = [c \in Clients |-> IF c \in subs \ slow THEN Append(queue[c], m) ELSE queue[c]]
      /\ pending' = pending
      /\ Go(p, IF slow = {} THEN [at |-> "end"] ELSE [at |-> "slow", slow |-> slow])
  BY <1>2, <1>3, <1>4 DEF Send
<1>6. PICK s : s = IF slow = {} THEN [at |-> "end"] ELSE [at |-> "slow", slow |-> slow]
  OBVIOUS
<1>7. pc'[p] = s /\ s.at \in {"end", "slow"} /\ (slow # {} => s.at = "slow" /\ s.slow = slow)
  BY <1>5, <1>6 DEF Go, PagesInv, TypeOK
<1>8. Awake' /\ Goners'
  BY <1>1, <1>2, <1>5, <1>7, FlushKeeps
<1>9. \A q \in Goroutines : ~Carries(q)'
  BY <1>2, <1>7 DEF Carries, Steps
<1>10. Right(m) /\ NotAhead(m)
  BY <1>2, <1>3 DEF PagesInv, Fresh, Past, Carries
<1>11. \A t : Announced(t) => Announced(t)'
  BY <1>2 DEF Announced
<1>12. \A c \in Clients : queue[c] \in Seq(Payloads) /\ \A i \in 1..Len(queue[c]) : NotAhead(queue[c][i])
  BY DEF PagesInv, TypeOK, Past
<1>13. Past' /\ Fresh'
  <2>1. ASSUME NEW c \in Clients, NEW i \in 1..Len(queue'[c]) PROVE NotAhead(queue'[c][i])
    <3>1. CASE queue'[c] = queue[c]
      BY <1>12, <3>1
    <3>2. CASE queue'[c] = Append(queue[c], m)
      BY <1>10, <1>12, <3>2, MessagesPast
    <3> QED BY <1>5, <3>1, <3>2
  <2> QED
    BY <1>2, <1>9, <2>1 DEF PagesInv, Past, Fresh, NotAhead
<1>14. Informed'
  <2> SUFFICES ASSUME NEW c \in subs, NEW t \in Tasks PROVE Told(c, t)'
    BY <1>2 DEF Informed
  <2>1. c \in Clients /\ Told(c, t)
    BY DEF PagesInv, TypeOK, Informed
  <2>2. CASE Announced(t)
    BY <1>11, <2>2 DEF Told
  <2>3. CASE ~Announced(t) /\ c \in slow
    <3>1. Coming(c, t)'
      BY <1>7, <2>3 DEF Coming
    <3> QED BY <3>1 DEF Told
  <2>4. CASE ~Announced(t) /\ c \notin slow
    <3>1. queue'[c] = Append(queue[c], m) /\ queue[c] \in Seq(Payloads)
      BY <1>5, <1>12, <2>1, <2>4
    <3>2. CASE t \in DOMAIN m
      <4>1. m[t] = Shown(t)
        BY <1>10, <2>4, <3>2 DEF Right
      <4>2. Brings(queue'[c], Shown(t), t)
        BY <3>1, <3>2, <4>1, AppendBrings
      <4> QED
        BY <1>2, <4>2 DEF Told, Shown
    <3>3. CASE t \notin DOMAIN m
      <4>1. ~Coming(c, t)
        BY <1>2, <1>3, <3>3 DEF Coming, Steps
      <4>2. \/ Brings(queue[c], Shown(t), t)
            \/ Silent(queue[c], t) /\ (client[c] = "on" => view[c][t] = Shown(t))
        BY <2>1, <2>4, <4>1 DEF Told
      <4>3. \/ Brings(queue'[c], Shown(t), t)
            \/ Silent(queue'[c], t) /\ (client[c] = "on" => view[c][t] = Shown(t))
        BY <3>1, <3>3, <4>2, AppendBrings
      <4> QED
        BY <1>2, <4>3 DEF Told, Shown
    <3> QED BY <3>2, <3>3
  <2> QED BY <2>2, <2>3, <2>4
<1> QED
  BY <1>8, <1>13, <1>14 DEF PagesInv

LEMMA SnapshotStep ==
  ASSUME Sizes, PagesInv, TypeOK', OneFlusher', NEW p \in Goroutines, BuildSnapshot(p)
  PROVE  PagesInv'
<1>1. Flush(p)
  BY DEF Flush
<1>2. /\ \A q \in Goroutines : q # p => pc'[q] = pc[q] /\ pc[q].at \notin Steps
      /\ UNCHANGED <<truth, subs, queue, client, view, dirty, deleted, pending>> /\ pending /\ subs # {}
      /\ pc[p].at = "slow"
  BY <1>1, FlushFacts DEF BuildSnapshot, clientVars, markVars
<1>3. PICK m \in Payloads : m = Snapshot /\ DOMAIN m = Tasks /\ \A t \in Tasks : m[t] = Shown(t)
  BY SnapshotIs DEF PagesInv
<1>4. pc'[p].at = "resend" /\ pc'[p].slow = pc[p].slow /\ pc'[p].payload = m
  BY <1>3 DEF BuildSnapshot, Go, PagesInv, TypeOK
<1>5. Awake' /\ Goners'
  BY <1>1, <1>2, <1>4, FlushKeeps
<1>6. \A q \in Goroutines : Carries(q)' => q = p
  BY <1>2 DEF Carries, Steps
<1>7. Right(m)' /\ NotAhead(m)'
  <2>1. \A t \in DOMAIN m : m[t] = Shown(t) /\ Shown(t) <= truth[t]
    BY <1>3, ShownIs DEF PagesInv
  <2> QED
    BY <1>2, <2>1 DEF Right, NotAhead, Shown, Gone
<1>8. Past' /\ Fresh'
  BY <1>2, <1>4, <1>6, <1>7 DEF PagesInv, Past, Fresh, NotAhead, Right
<1>9. \A t : Announced(t) => Announced(t)'
  BY <1>2 DEF Announced
<1>10. \A c, t : Coming(c, t) => Coming(c, t)'
  BY <1>2, <1>4 DEF Coming, Steps
<1>11. Informed'
  BY <1>2, <1>9, <1>10, ToldStays DEF PagesInv, Informed
<1> QED
  BY <1>5, <1>8, <1>11 DEF PagesInv

LEMMA ResendStep ==
  ASSUME Sizes, Complete, PagesInv, TypeOK', OneFlusher', NEW p \in Goroutines, Resend(p)
  PROVE  PagesInv'
<1>1. Flush(p)
  BY DEF Flush
<1>2. /\ \A q \in Goroutines : q # p => pc'[q] = pc[q] /\ pc[q].at \notin Steps
      /\ UNCHANGED <<truth, subs, client, view, dirty, deleted, pending>> /\ pending /\ subs # {}
      /\ pc[p].at = "resend" /\ pc[p] \in PCs
  BY <1>1, FlushFacts DEF Resend, markVars
<1>3. PICK m \in Payloads : m = pc[p].payload
  BY <1>2, PcOf
<1>4. \A c \in Clients : queue'[c] = IF c \in pc[p].slow \cap subs THEN PushedOut(c, m) ELSE queue[c]
  BY <1>3 DEF Resend
<1>5. pc'[p].at = "end"
  BY DEF Resend, Go, PagesInv, TypeOK
<1>6. Awake' /\ Goners'
  BY <1>1, <1>2, <1>5, FlushKeeps
<1>7. \A q \in Goroutines : ~Carries(q)'
  BY <1>2, <1>5 DEF Carries, Steps
<1>8. Right(m) /\ NotAhead(m)
  BY <1>2, <1>3 DEF PagesInv, Fresh, Past, Carries
<1>9. \A t : Announced(t) => Announced(t)'
  BY <1>2 DEF Announced
<1>10. ASSUME NEW c \in Clients
       PROVE  \E q \in Seq(Payloads) : /\ PushedOut(c, m) = Append(q, m)
                                       /\ \A i \in 1..Len(q) : NotAhead(q[i])
  <2>1. queue[c] \in Seq(Payloads) /\ \A i \in 1..Len(queue[c]) : NotAhead(queue[c][i])
    BY DEF PagesInv, TypeOK, Past
  <2>2. CASE Full(c)
    <3>1. queue[c] # <<>>
      BY <2>1, <2>2 DEF Full, Sizes
    <3>2. Tail(queue[c]) \in Seq(Payloads) /\ \A i \in 1..Len(Tail(queue[c])) : NotAhead(Tail(queue[c])[i])
      BY <2>1, <3>1, MessagesPast
    <3> QED
      BY <2>2, <3>2 DEF PushedOut
  <2>3. CASE ~Full(c)
    BY <2>1, <2>3 DEF PushedOut
  <2> QED BY <2>2, <2>3
<1>11. Past' /\ Fresh'
  <2>1. ASSUME NEW c \in Clients, NEW i \in 1..Len(queue'[c]) PROVE NotAhead(queue'[c][i])
    <3>1. CASE queue'[c] = queue[c]
      BY <3>1 DEF PagesInv, Past
    <3>2. CASE queue'[c] = PushedOut(c, m)
      BY <1>8, <1>10, <3>2, MessagesPast
    <3> QED BY <1>4, <3>1, <3>2
  <2> QED
    BY <1>2, <1>7, <2>1 DEF PagesInv, Past, Fresh, NotAhead
<1>12. Informed'
  <2> SUFFICES ASSUME NEW c \in subs, NEW t \in Tasks PROVE Told(c, t)'
    BY <1>2 DEF Informed
  <2>1. c \in Clients /\ Told(c, t)
    BY DEF PagesInv, TypeOK, Informed
  <2>2. CASE Announced(t)
    BY <1>9, <2>2 DEF Told
  <2>3. CASE ~Announced(t) /\ c \in pc[p].slow
    <3>1. t \in DOMAIN m
      BY <1>2, <1>3 DEF Complete
    <3>2. m[t] = Shown(t)
      BY <1>8, <2>3, <3>1 DEF Right
    <3>3. PICK q \in Seq(Payloads) : queue'[c] = Append(q, m)
      BY <1>4, <1>10, <2>1, <2>3
    <3>4. Brings(queue'[c], Shown(t), t)
      BY <3>1, <3>2, <3>3, AppendBrings
    <3> QED
      BY <1>2, <3>4 DEF Told, Shown
  <2>4. CASE ~Announced(t) /\ c \notin pc[p].slow
    <3>1. ~Coming(c, t)
      BY <1>2, <2>4 DEF Coming, Steps
    <3>2. queue'[c] = queue[c]
      BY <1>4, <2>1, <2>4
    <3> QED
      BY <1>2, <2>1, <2>4, <3>1, <3>2 DEF Told, Shown
  <2> QED BY <2>2, <2>3, <2>4
<1> QED
  BY <1>6, <1>11, <1>12 DEF PagesInv

LEMMA ArmStep ==
  ASSUME PagesInv, TypeOK', OneFlusher', NEW p \in Goroutines, ArmWindow(p) PROVE PagesInv'
<1>1. Flush(p)
  BY DEF Flush
<1>2. /\ \A q \in Goroutines : q # p => pc'[q] = pc[q] /\ pc[q].at \notin Steps
      /\ UNCHANGED <<truth, subs, queue, client, view, dirty, deleted, pending>> /\ pending /\ subs # {}
      /\ pc[p].at = "end"
  BY <1>1, FlushFacts DEF ArmWindow, clientVars, markVars
<1>3. pc'[p].at = "idle"
  BY DEF ArmWindow, Go, Idle, PagesInv, TypeOK
<1>4. Awake' /\ Goners'
  BY <1>1, <1>2, <1>3, FlushKeeps
<1>5. \A q \in Goroutines : ~Carries(q)'
  BY <1>2, <1>3 DEF Carries, Steps
<1>6. \A t : Announced(t) => Announced(t)'
  BY <1>2 DEF Announced
<1>7. \A c, t : Coming(c, t) => Coming(c, t)'
  BY <1>2 DEF Coming, Steps
<1>8. Past' /\ Fresh'
  BY <1>2, <1>5 DEF PagesInv, Past, Fresh, NotAhead
<1>9. Informed'
  BY <1>2, <1>6, <1>7, ToldStays DEF PagesInv, Informed
<1> QED
  BY <1>4, <1>8, <1>9 DEF PagesInv

LEMMA WindowStep == ASSUME PagesInv, TypeOK', OneFlusher', FinishWindow PROVE PagesInv'
<1>1. /\ window /\ pending /\ subs # {} /\ \A q \in Goroutines : pc[q].at \notin Steps
      /\ UNCHANGED <<truth, subs, queue, client, view, dirty, deleted>>
  BY DEF FinishWindow, clientVars, PagesInv, OneFlusher, Awake, Flushing, Steps
<1>2. CASE UNCHANGED pc
  <2>1. pending' \/ dirty \cup deleted = {}
    BY <1>1 DEF FinishWindow, Unmarked
  <2>2. Awake' /\ Goners' /\ Past'
    BY <1>1, <1>2, <2>1 DEF PagesInv, Awake, Goners, Past, Carries, NotAhead, Gone
  <2>3. (\A t : Announced(t) => Announced(t)') /\ \A c, t : Coming(c, t) => Coming(c, t)'
    BY <1>1, <1>2 DEF Announced, Coming
  <2>4. Fresh'
    BY <1>1, <1>2, <2>3, RightStays DEF PagesInv, Fresh, Carries
  <2>5. Informed'
    BY <1>1, <2>3, ToldStays DEF PagesInv, Informed
  <2> QED
    BY <2>2, <2>4, <2>5 DEF PagesInv
<1>3. CASE Go("timer", [at |-> "flush"]) /\ UNCHANGED pending
  <2>1. /\ \A q \in Goroutines : q # "timer" => pc'[q] = pc[q]
        /\ "timer" \in Goroutines /\ pc'["timer"].at = "flush"
        /\ pc["timer"].at \notin {"mark", "unmark", "build"}
    BY <1>1, <1>3 DEF Go, Goroutines, PagesInv, TypeOK, Awake, Steps
  <2>2. Awake' /\ Goners' /\ Past'
    <3>1. \A q \in Goroutines : ~Carries(q)'
      BY <1>1, <2>1 DEF Carries, Steps
    <3>2. Awake'
      BY <1>1, <1>3, <2>1 DEF PagesInv, Awake
    <3>3. Goners'
      BY <1>1, <1>3, <2>1 DEF PagesInv, Goners, Gone
    <3>4. Past'
      BY <1>1, <3>1 DEF PagesInv, Past, NotAhead
    <3> QED BY <3>2, <3>3, <3>4
  <2>3. (\A t : Announced(t) => Announced(t)') /\ \A c, t : Coming(c, t) => Coming(c, t)'
    BY <1>1, <2>1 DEF Announced, Coming, Steps
  <2>4. Fresh'
    BY <1>1, <2>1 DEF Fresh, Carries, Steps
  <2>5. Informed'
    BY <1>1, <2>3, ToldStays DEF PagesInv, Informed
  <2> QED
    BY <2>2, <2>4, <2>5 DEF PagesInv
<1> QED
  BY <1>1, <1>2, <1>3 DEF FinishWindow

-----------------------------------------------------------------------------
\* The step of a page changes neither the tasks nor the marks nor the flush.
LEMMA PageFrame ==
  ASSUME PagesInv, NEW c \in Clients,
         Subscribe(c) \/ WriteSnapshot(c) \/ Receive(c) \/ Unsubscribe(c)
  PROVE  /\ UNCHANGED <<truth, dirty, deleted, pending, window, pc>>
         /\ \A d \in Clients : d # c => /\ queue'[d] = queue[d] /\ client'[d] = client[d]
                                        /\ view'[d] = view[d] /\ (d \in subs' <=> d \in subs)
         /\ \A d, t : Announced(t)' = Announced(t) /\ Coming(d, t)' = Coming(d, t)
         /\ Goners' /\ Fresh'
<1>1. UNCHANGED <<truth, dirty, deleted, pending, window, pc>>
  BY DEF Subscribe, WriteSnapshot, Receive, Unsubscribe, markVars
<1>2. \A d \in Clients : d # c => /\ queue'[d] = queue[d] /\ client'[d] = client[d]
                                  /\ view'[d] = view[d] /\ (d \in subs' <=> d \in subs)
  BY DEF Subscribe, WriteSnapshot, Receive, Unsubscribe, PagesInv, TypeOK
<1>3. \A d, t : Announced(t)' = Announced(t) /\ Coming(d, t)' = Coming(d, t)
  BY <1>1 DEF Announced, Coming
<1>4. Goners' /\ Fresh'
  BY <1>1, <1>3 DEF PagesInv, Goners, Fresh, Right, Carries, Shown, Gone
<1> QED
  BY <1>1, <1>2, <1>3, <1>4

\* So what has to be seen is what becomes of its own channel and of what it shows.
LEMMA PageStep ==
  ASSUME PagesInv, TypeOK', OneFlusher', NEW c \in Clients,
         Subscribe(c) \/ WriteSnapshot(c) \/ Receive(c) \/ Unsubscribe(c),
         subs' = {} => subs = {},
         client'[c] \in {"subscribed", "on"} <=> c \in subs',
         \A i \in 1..Len(queue'[c]) : NotAhead(queue'[c][i]),
         \A t \in Tasks : view'[c][t] <= truth[t],
         c \in subs' => \A t \in Tasks :
           \/ Announced(t) \/ Coming(c, t) \/ Brings(queue'[c], Shown(t), t)
           \/ Silent(queue'[c], t) /\ (client'[c] = "on" => view'[c][t] = Shown(t))
  PROVE  PagesInv'
<1>1. Awake'
  BY PageFrame DEF PagesInv, Awake
<1>2. Past'
  <2>1. \A p \in Goroutines : Carries(p)' => NotAhead(pc[p].payload)'
    BY PageFrame DEF PagesInv, Past, Carries, NotAhead
  <2>2. \A d \in Clients : \A i \in 1..Len(queue'[d]) : NotAhead(queue'[d][i])
    BY PageFrame DEF PagesInv, Past
  <2>3. \A d \in Clients, t \in Tasks : view'[d][t] <= truth[t]
    BY PageFrame DEF PagesInv, Past
  <2> QED
    BY <2>1, <2>2, <2>3, PageFrame DEF Past, NotAhead
<1>3. Informed'
  <2> SUFFICES ASSUME NEW d \in subs', NEW t \in Tasks PROVE Told(d, t)'
    BY DEF Informed
  <2>1. d \in Clients
    BY DEF TypeOK
  <2>2. CASE d = c
    BY <2>2, PageFrame DEF Told, Shown, Gone
  <2>3. CASE d # c
    <3>1. d \in subs /\ Told(d, t)
      BY <2>1, <2>3, PageFrame DEF PagesInv, Informed
    <3> QED
      BY <2>1, <2>3, <3>1, PageFrame DEF Told, Shown, Gone
  <2> QED BY <2>2, <2>3
<1> QED
  BY <1>1, <1>2, <1>3, PageFrame DEF PagesInv

LEMMA SubscribeStep ==
  ASSUME PagesInv, TypeOK', OneFlusher', NEW c \in Clients, Subscribe(c) PROVE PagesInv'
<1>1. queue'[c] = <<>> /\ client'[c] = "subscribed" /\ c \in subs' /\ view' = view
  BY DEF Subscribe, PagesInv, TypeOK
<1>2. \A t \in Tasks : view[c][t] <= truth[t]
  BY DEF PagesInv, Past
<1>3. \A t : Silent(<<>>, t)
  BY DEF Silent
<1>4. \A i \in 1..Len(queue'[c]) : NotAhead(queue'[c][i])
  BY <1>1
<1> QED
  BY <1>1, <1>2, <1>3, <1>4, PageStep

LEMMA WriteStep ==
  ASSUME Sizes, PagesInv, TypeOK', OneFlusher', NEW c \in Clients, WriteSnapshot(c) PROVE PagesInv'
<1>1. /\ queue' = queue /\ subs' = subs /\ client'[c] = "on" /\ c \in subs
      /\ view'[c] = Merge(view[c], Snapshot)
  BY DEF WriteSnapshot, PagesInv, TypeOK, Awake
<1>2. \A i \in 1..Len(queue[c]) : NotAhead(queue[c][i])
  BY DEF PagesInv, Past
<1>3. \A t \in Tasks : view'[c][t] <= truth[t] /\ view'[c][t] = Shown(t)
  <2> SUFFICES ASSUME NEW t \in Tasks PROVE view'[c][t] <= truth[t] /\ view'[c][t] = Shown(t)
    OBVIOUS
  <2>1. view[c] \in [Tasks -> 0..MaxVersion] /\ view[c][t] <= truth[t]
    BY DEF PagesInv, TypeOK, Past
  <2>2. Snapshot \in Payloads /\ t \in DOMAIN Snapshot /\ Snapshot[t] = Shown(t) /\ NotAhead(Snapshot)
    BY SnapshotIs, ShownIs DEF PagesInv, NotAhead
  <2> QED
    BY <1>1, <2>1, <2>2, MergeShows DEF PagesInv
<1>4. \A t \in Tasks : \/ Announced(t) \/ Coming(c, t) \/ Brings(queue'[c], Shown(t), t)
                       \/ Silent(queue'[c], t) /\ (client'[c] = "on" => view'[c][t] = Shown(t))
  BY <1>1, <1>3 DEF PagesInv, Informed, Told
<1> QED
  BY <1>1, <1>2, <1>3, <1>4, PageStep

LEMMA ReceiveStep ==
  ASSUME Sizes, PagesInv, TypeOK', OneFlusher', NEW c \in Clients, Receive(c) PROVE PagesInv'
<1>1. PICK q \in Seq(Payloads) : q = queue[c] /\ q # <<>>
  BY DEF Receive, PagesInv, TypeOK
<1>2. PICK m \in Payloads : m = Head(q)
  BY <1>1
<1>3. PICK v \in [Tasks -> 0..MaxVersion] : v = view[c]
  BY DEF PagesInv, TypeOK
<1>4. /\ queue'[c] = Tail(q) /\ subs' = subs /\ client' = client /\ client[c] = "on" /\ c \in subs
      /\ view'[c] = Merge(v, m)
  BY <1>1, <1>2, <1>3 DEF Receive, PagesInv, TypeOK, Awake
<1>5. NotAhead(m) /\ \A i \in 1..Len(Tail(q)) : NotAhead(Tail(q)[i])
  BY <1>1, <1>2, MessagesPast DEF PagesInv, Past
<1>6. ASSUME NEW t \in Tasks
      PROVE  /\ view'[c][t] <= truth[t]
             /\ t \in DOMAIN m /\ m[t] = Shown(t) => view'[c][t] = Shown(t)
             /\ t \notin DOMAIN m => view'[c][t] = view[c][t]
  <2>1. v[t] <= truth[t]
    BY <1>3 DEF PagesInv, Past
  <2> QED
    BY <1>3, <1>4, <1>5, <2>1, MergeShows, MergeIs DEF PagesInv
<1>7. ASSUME NEW t \in Tasks
      PROVE  \/ Announced(t) \/ Coming(c, t) \/ Brings(Tail(q), Shown(t), t)
             \/ Silent(Tail(q), t) /\ view'[c][t] = Shown(t)
  <2>1. \/ Announced(t) \/ Coming(c, t) \/ Brings(q, Shown(t), t)
        \/ Silent(q, t) /\ view[c][t] = Shown(t)
    BY <1>1, <1>4 DEF PagesInv, Informed, Told
  <2>2. CASE Brings(q, Shown(t), t)
    BY <1>1, <1>2, <1>6, <2>2, TailBrings
  <2>3. CASE Silent(q, t) /\ view[c][t] = Shown(t)
    BY <1>1, <1>2, <1>6, <2>3, TailBrings
  <2> QED BY <2>1, <2>2, <2>3
<1> QED
  BY <1>4, <1>5, <1>6, <1>7, PageStep

LEMMA LeaveStep ==
  ASSUME ~LastLeaves, PagesInv, TypeOK', OneFlusher', NEW c \in Clients, Unsubscribe(c)
  PROVE  PagesInv'
<1>1. queue'[c] = <<>> /\ client'[c] = "left" /\ view' = view /\ c \notin subs'
  BY DEF Unsubscribe, PagesInv, TypeOK
<1>2. subs' # {}
  BY DEF Unsubscribe, PagesInv, Awake
<1>3. \A t \in Tasks : view[c][t] <= truth[t]
  BY DEF PagesInv, Past
<1>4. \A i \in 1..Len(queue'[c]) : NotAhead(queue'[c][i])
  BY <1>1
<1> QED
  BY <1>1, <1>2, <1>3, <1>4, PageStep

-----------------------------------------------------------------------------
LEMMA CompleteNext ==
  ASSUME Sizes, TypeOK, Complete, [Next]_vars PROVE Complete'
<1>1. CASE UNCHANGED pc
  BY <1>1 DEF Complete
<1>2. ASSUME NEW p \in Goroutines, NEW s, Go(p, s), s.at = "resend" => DOMAIN s.payload = Tasks
      PROVE  Complete'
  BY <1>2 DEF Complete, Go, TypeOK
<1>3. CASE Next
  <2>1. ASSUME NEW p \in Mutators, NEW t \in Tasks, Create(p, t) \/ Change(p, t) \/ Remove(p, t)
        PROVE  Complete'
    <3>1. p \in Goroutines /\ \E a \in {"mark", "unmark"} : Go(p, [at |-> a, t |-> t])
      BY <2>1 DEF Create, Change, Remove, Goroutines
    <3> QED BY <1>2, <3>1
  <2>2. ASSUME NEW p \in Mutators, Broadcast(p) \/ BroadcastDeleted(p) PROVE Complete'
    <3>1. p \in Goroutines /\ (Go(p, Idle) \/ Go(p, [at |-> "flush"])) /\ Idle.at = "idle"
      BY <2>2 DEF Broadcast, BroadcastDeleted, StartsOrLeaves, Goroutines, Idle
    <3> QED BY <1>2, <3>1
  <2>3. ASSUME NEW p \in Goroutines, Flush(p) PROVE Complete'
    <3>1. CASE BuildSnapshot(p)
      <4>1. PICK s : s = [at |-> "resend", slow |-> pc[p].slow, payload |-> Snapshot]
        OBVIOUS
      <4>2. DOMAIN s.payload = Tasks /\ Go(p, s)
        BY <3>1, <4>1, SnapshotIs DEF BuildSnapshot
      <4> QED BY <1>2, <4>2
    <3>2. CASE ~BuildSnapshot(p)
      <4>1. \E s : Go(p, s) /\ s.at # "resend"
        BY <2>3, <3>2 DEF Flush, TakeMarks, BuildPayload, Send, Resend, ArmWindow, Idle
      <4> QED BY <1>2, <4>1
    <3> QED BY <3>1, <3>2
  <2>4. CASE FinishWindow
    <3>1. "timer" \in Goroutines /\ (UNCHANGED pc \/ Go("timer", [at |-> "flush"]))
      BY <2>4 DEF FinishWindow, Goroutines
    <3> QED BY <1>1, <1>2, <3>1
  <2>5. ASSUME NEW c \in Clients, Subscribe(c) \/ WriteSnapshot(c) \/ Receive(c) \/ Unsubscribe(c)
        PROVE  Complete'
    BY <1>1, <2>5 DEF Subscribe, WriteSnapshot, Receive, Unsubscribe
  <2> QED
    BY <1>3, <2>1, <2>2, <2>3, <2>4, <2>5 DEF Next
<1> QED
  BY <1>1, <1>3 DEF vars

LEMMA PagesNext ==
  ASSUME Sizes, ~LastLeaves, "timer" \notin Mutators, Complete, PagesInv, [Next]_vars
  PROVE  PagesInv'
<1>1. TypeOK'
  BY TypesNext DEF PagesInv
<1>2. OneFlusher'
  <2>1. FlushInv
    BY DEF FlushInv, PagesInv, TypeOK
  <2> QED
    BY <2>1, FlushNext DEF FlushInv
<1>3. CASE UNCHANGED vars
  <2>1. UNCHANGED <<truth, subs, queue, client, view, dirty, deleted, pending, window, pc>>
    BY <1>3 DEF vars, clientVars, markVars
  <2>2. Awake' /\ Goners' /\ Past'
    BY <2>1 DEF PagesInv, Awake, Goners, Past, Carries, NotAhead, Gone
  <2>3. (\A t : Announced(t) => Announced(t)') /\ \A c, t : Coming(c, t) => Coming(c, t)'
    BY <2>1 DEF Announced, Coming
  <2>4. Fresh'
    BY <2>1, <2>3, RightStays DEF PagesInv, Fresh, Carries
  <2>5. Informed'
    BY <2>1, <2>3, ToldStays DEF PagesInv, Informed
  <2> QED
    BY <1>1, <1>2, <2>2, <2>4, <2>5 DEF PagesInv
<1>4. CASE Next
  BY <1>1, <1>2, <1>4, ChangeStep, MarkStep, TakeStep, BuildStep, SendStep, SnapshotStep, ResendStep,
     ArmStep, WindowStep, SubscribeStep, WriteStep, ReceiveStep, LeaveStep DEF Next, Flush
<1> QED
  BY <1>3, <1>4

\* When all that was announced is delivered and read, every page shows the tasks as they
\* are, whatever changed meanwhile and however often its channel overflowed: each task is
\* about to be marked, marked, in the message under way or the last word of the page's
\* channel, or shown.  The last page must not leave: a mark that nobody is there to see is
\* dropped while an older message may still be under way (broadcast, sse.go:36).
THEOREM PagesConverge ==
  ASSUME Sizes, ~LastLeaves, "timer" \notin Mutators PROVE Spec => []Converged
<1>1. PagesInv => Converged
  <2> SUFFICES ASSUME PagesInv, NEW c \in Clients, client[c] = "on", queue[c] = <<>>,
                      ~pending, \A p \in Goroutines : pc[p] = Idle
               PROVE  view[c] = Snapshot
    BY DEF Converged
  <2>1. c \in subs /\ dirty \cup deleted = {}
    BY DEF PagesInv, Awake
  <2>2. \A t : ~Announced(t) /\ ~Coming(c, t)
    BY <2>1 DEF Announced, Coming, Idle
  <2>3. \A x, t : ~Brings(<<>>, x, t)
    BY DEF Brings
  <2>4. \A t \in Tasks : view[c][t] = Shown(t)
    BY <2>1, <2>2, <2>3 DEF PagesInv, Informed, Told
  <2>5. view[c] \in [Tasks -> 0..MaxVersion]
    BY DEF PagesInv, TypeOK
  <2> QED
    BY <2>4, <2>5 DEF Snapshot
<1>2. Init => PagesInv /\ Complete
  <2>1. Init => Complete
    BY DEF Init, Complete, Idle
  <2> QED BY <2>1, PagesInit
<1>3. PagesInv /\ Complete /\ [Next]_vars => (PagesInv /\ Complete)'
  BY PagesNext, CompleteNext DEF PagesInv
<1> QED
  BY <1>1, <1>2, <1>3, PTL DEF Spec

=============================================================================

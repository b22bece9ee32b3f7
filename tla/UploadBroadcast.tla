--------------------------- MODULE UploadBroadcast ---------------------------
(***************************************************************************)
(* How the subscribers of internal/upload/sse.go learn what the tasks are:  *)
(* changes are marked in two sets, one goroutine at a time turns the sets   *)
(* into a delta and puts it into the bounded channel of every subscriber,   *)
(* marks made within the next 120 ms wait for the end of that window, and a *)
(* subscriber whose channel is full gets a snapshot instead.                *)
(*                                                                          *)
(* A task is its version number, which stands for updated_at: every change   *)
(* a page would show makes the next version.  A payload is the function     *)
(* from the tasks it speaks of to the version it shows, Hidden for a task   *)
(* that is not (or no longer) there.  deltaPayload looks the tasks up one   *)
(* by one; as no property relates two tasks, it is one step here, and a     *)
(* call that names several tasks is several calls.  broadcast without a     *)
(* task, the request for a full snapshot, has no caller and is left out.    *)
(***************************************************************************)
EXTENDS Naturals, Sequences

CONSTANTS Tasks,     \* task ids
          Clients,   \* pages; each opens the event stream once
          LastLeaves,\* whether the last page connected may close it
          Mutators,  \* goroutines that change tasks; none is called "timer"
          Capacity,  \* capacity of a subscriber's channel (8 in the code), at least 1
          MaxVersion \* bound: versions of a task

VARIABLES truth,    \* Manager.tasks: the version of each task
          subs,     \* Manager.subs
          queue,    \* the channel of each subscriber
          client,   \* what the handler of each page is doing
          view,     \* what each page shows
          dirty, deleted,   \* broadcastDirtyTaskIDs, broadcastDeletedTaskIDs
          pending,  \* broadcastPending
          window,   \* the timer of finishBroadcastWindow is armed
          pc        \* what each goroutine is doing

clientVars == <<subs, queue, client, view>>
markVars   == <<dirty, deleted, pending>>
vars == <<truth, clientVars, markVars, window, pc>>

Gone == MaxVersion + 1
Hidden == 0
Shown(t) == IF truth[t] = Gone THEN Hidden ELSE truth[t]
Snapshot == [t \in Tasks |-> Shown(t)]
Delta(d, x) == [t \in d \cup x |-> IF t \in d THEN Shown(t) ELSE Hidden]

\* A page forgets a task it is told is gone, and keeps what it shows of a task
\* when the message is older.
Newer(a, b) == IF a < b THEN b ELSE a
Merge(shown, m) ==
  [t \in Tasks |-> IF t \notin DOMAIN m THEN shown[t]
                   ELSE IF m[t] = Hidden THEN Hidden ELSE Newer(shown[t], m[t])]

Payloads == UNION {[S -> 0..MaxVersion] : S \in SUBSET Tasks}

Goroutines == Mutators \cup {"timer"}
Idle == [at |-> "idle"]
PCs == {Idle, [at |-> "flush"], [at |-> "end"]}
  \cup [at : {"mark", "unmark"}, t : Tasks]
  \cup [at : {"build"}, dirty : SUBSET Tasks, deleted : SUBSET Tasks]
  \cup [at : {"send"}, payload : Payloads]
  \cup [at : {"slow"}, slow : SUBSET Clients]
  \cup [at : {"resend"}, slow : SUBSET Clients, payload : Payloads]

Go(p, s) == pc' = [pc EXCEPT ![p] = s]

Init ==
  /\ truth = [t \in Tasks |-> Hidden]
  /\ subs = {} /\ queue = [c \in Clients |-> <<>>]
  /\ client = [c \in Clients |-> "off"]
  /\ view = [c \in Clients |-> [t \in Tasks |-> Hidden]]
  /\ dirty = {} /\ deleted = {} /\ pending = FALSE
  /\ window = FALSE
  /\ pc = [p \in Goroutines |-> Idle]

-----------------------------------------------------------------------------
(***************************************************************************)
(* Changes.  The goroutine that changed a task under Manager.mu calls       *)
(* broadcast or broadcastDeleted after it has released the lock.            *)
(***************************************************************************)
\* A batch whose rows cannot be written, and is taken away again, is left out.
Create(p, t) ==
  /\ pc[p] = Idle /\ truth[t] = Hidden
  /\ truth' = [truth EXCEPT ![t] = 1]
  /\ Go(p, [at |-> "mark", t |-> t])
  /\ UNCHANGED <<clientVars, markVars, window>>

\* Bound: MaxVersion versions of a task.
Change(p, t) ==
  /\ pc[p] = Idle /\ truth[t] \in 1..MaxVersion-1
  /\ truth' = [truth EXCEPT ![t] = @ + 1]
  /\ Go(p, [at |-> "mark", t |-> t])
  /\ UNCHANGED <<clientVars, markVars, window>>

Remove(p, t) ==
  /\ pc[p] = Idle /\ truth[t] \in 1..MaxVersion
  /\ truth' = [truth EXCEPT ![t] = Gone]
  /\ Go(p, [at |-> "unmark", t |-> t])
  /\ UNCHANGED <<clientVars, markVars, window>>

\* The caller that finds no broadcast under way does it.
StartsOrLeaves(p) ==
  /\ Go(p, IF pending THEN Idle ELSE [at |-> "flush"])
  /\ pending' = TRUE

Broadcast(p) ==
  /\ pc[p].at = "mark"
  /\ IF subs = {} THEN Go(p, Idle) /\ UNCHANGED markVars
     ELSE /\ deleted' = deleted \ {pc[p].t}
          /\ dirty' = dirty \cup {pc[p].t}
          /\ StartsOrLeaves(p)
  /\ UNCHANGED <<truth, clientVars, window>>

BroadcastDeleted(p) ==
  /\ pc[p].at = "unmark"
  /\ IF subs = {} THEN Go(p, Idle) /\ UNCHANGED markVars
     ELSE /\ dirty' = dirty \ {pc[p].t}
          /\ deleted' = deleted \cup {pc[p].t}
          /\ StartsOrLeaves(p)
  /\ UNCHANGED <<truth, clientVars, window>>

-----------------------------------------------------------------------------
(***************************************************************************)
(* flushBroadcast and finishBroadcastWindow.                                *)
(***************************************************************************)
TakeMarks(p) ==
  /\ pc[p].at = "flush"
  /\ Go(p, [at |-> "build", dirty |-> dirty, deleted |-> deleted])
  /\ dirty' = {} /\ deleted' = {}
  /\ UNCHANGED <<truth, clientVars, pending, window>>

BuildPayload(p) ==
  /\ pc[p].at = "build"
  /\ Go(p, [at |-> "send", payload |-> Delta(pc[p].dirty, pc[p].deleted)])
  /\ UNCHANGED <<truth, clientVars, markVars, window>>

Full(c) == Len(queue[c]) >= Capacity

Send(p) ==
  LET payload == pc[p].payload
      slow == {c \in subs : Full(c)}
  IN
  /\ pc[p].at = "send"
  /\ IF subs = {}
     THEN /\ pending' = FALSE /\ Go(p, Idle)
          /\ UNCHANGED queue
     ELSE /\ queue' = [c \in Clients |->
                         IF c \in subs \ slow THEN Append(queue[c], payload) ELSE queue[c]]
          /\ Go(p, IF slow = {} THEN [at |-> "end"] ELSE [at |-> "slow", slow |-> slow])
          /\ UNCHANGED pending
  /\ UNCHANGED <<truth, subs, client, view, dirty, deleted, window>>

\* The deltas of the slow subscribers are replaced by a snapshot, for which
\* their oldest message makes room.
BuildSnapshot(p) ==
  /\ pc[p].at = "slow"
  /\ Go(p, [at |-> "resend", slow |-> pc[p].slow, payload |-> Snapshot])
  /\ UNCHANGED <<truth, clientVars, markVars, window>>

DroppedInstead(c, m) == IF Full(c) THEN queue[c] ELSE Append(queue[c], m)
PushedOut(c, m) == Append(IF Full(c) THEN Tail(queue[c]) ELSE queue[c], m)

Resend(p) ==
  /\ pc[p].at = "resend"
  /\ queue' = [c \in Clients |-> IF c \in pc[p].slow \cap subs
                                 THEN PushedOut(c, pc[p].payload) ELSE queue[c]]
  /\ Go(p, [at |-> "end"])
  /\ UNCHANGED <<truth, subs, client, view, markVars, window>>

ArmWindow(p) ==
  /\ pc[p].at = "end"
  /\ window' = TRUE /\ Go(p, Idle)
  /\ UNCHANGED <<truth, clientVars, markVars>>

NothingMarked == dirty = {}
Unmarked == dirty = {} /\ deleted = {}

FinishWindow ==
  /\ window /\ window' = FALSE
  /\ IF subs = {}
     THEN /\ pending' = FALSE /\ dirty' = {} /\ deleted' = {}
          /\ UNCHANGED pc
     ELSE /\ IF Unmarked THEN pending' = FALSE /\ UNCHANGED pc
                         ELSE Go("timer", [at |-> "flush"]) /\ UNCHANGED pending
          /\ UNCHANGED <<dirty, deleted>>
  /\ UNCHANGED <<truth, clientVars>>

-----------------------------------------------------------------------------
(***************************************************************************)
(* The handler of a page: subscribe, write a snapshot, then copy messages.  *)
(***************************************************************************)
Subscribe(c) ==
  /\ client[c] = "off"
  /\ client' = [client EXCEPT ![c] = "subscribed"]
  /\ subs' = subs \cup {c}
  /\ queue' = [queue EXCEPT ![c] = <<>>]
  /\ UNCHANGED <<truth, view, markVars, window, pc>>

WriteSnapshot(c) ==
  /\ client[c] = "subscribed"
  /\ client' = [client EXCEPT ![c] = "on"]
  /\ view' = [view EXCEPT ![c] = Merge(@, Snapshot)]
  /\ UNCHANGED <<truth, subs, queue, markVars, window, pc>>

Receive(c) ==
  /\ client[c] = "on" /\ queue[c] # <<>>
  /\ view' = [view EXCEPT ![c] = Merge(@, Head(queue[c]))]
  /\ queue' = [queue EXCEPT ![c] = Tail(@)]
  /\ UNCHANGED <<truth, subs, client, markVars, window, pc>>

Unsubscribe(c) ==
  /\ (LastLeaves \/ subs # {c}) /\ client[c] \in {"subscribed", "on"}
  /\ client' = [client EXCEPT ![c] = "left"]
  /\ subs' = subs \ {c}
  /\ queue' = [queue EXCEPT ![c] = <<>>]
  /\ UNCHANGED <<truth, view, markVars, window, pc>>

-----------------------------------------------------------------------------
Flush(p) ==
  \/ TakeMarks(p) \/ BuildPayload(p) \/ Send(p) \/ BuildSnapshot(p)
  \/ Resend(p) \/ ArmWindow(p)

Next ==
  \/ \E p \in Mutators :
       \/ \E t \in Tasks : Create(p, t) \/ Change(p, t) \/ Remove(p, t)
       \/ Broadcast(p) \/ BroadcastDeleted(p)
  \/ \E p \in Goroutines : Flush(p)
  \/ FinishWindow
  \/ \E c \in Clients : Subscribe(c) \/ WriteSnapshot(c) \/ Receive(c) \/ Unsubscribe(c)

Spec == Init /\ [][Next]_vars

(***************************************************************************)
(* A goroutine that has something to do does it, the timer fires, and a     *)
(* connected page reads its stream.  Nobody has to change or open anything. *)
(***************************************************************************)
Fairness ==
  /\ \A p \in Mutators :
       WF_vars(Broadcast(p) \/ BroadcastDeleted(p))
  /\ \A p \in Goroutines : WF_vars(Flush(p))
  /\ WF_vars(FinishWindow)
  /\ \A c \in Clients : WF_vars(WriteSnapshot(c) \/ Receive(c))

FairSpec == Spec /\ Fairness

-----------------------------------------------------------------------------
\* Types; a channel never holds more than its capacity, so that no send of
\* flushBroadcast, which holds subMu, can block.
TypeOK ==
  /\ truth \in [Tasks -> 0..Gone]
  /\ subs \subseteq Clients
  /\ queue \in [Clients -> Seq(Payloads)]
  /\ \A c \in Clients : Len(queue[c]) <= Capacity
  /\ client \in [Clients -> {"off", "subscribed", "on", "left"}]
  /\ view \in [Clients -> [Tasks -> 0..MaxVersion]]
  /\ pending \in BOOLEAN /\ window \in BOOLEAN
  /\ dirty \subseteq Tasks /\ deleted \subseteq Tasks
  /\ pc \in [Goroutines -> PCs]

Flushing == {p \in Goroutines :
  pc[p].at \in {"flush", "build", "send", "slow", "resend", "end"}}

\* broadcastPending stands for exactly one flush under way or one armed window:
\* one goroutine at a time builds payloads and queues them, so that no channel
\* holds an older delta behind a newer one.
OneFlusher ==
  /\ pending <=> Flushing # {} \/ window
  /\ window => Flushing = {}
  /\ \A p, q \in Flushing : p = q

\* When everything that was announced has been delivered and read, a page shows
\* the tasks as they are, however its channel overflowed and whatever it missed
\* while it connected: no task is stuck in an old state on it (sse.go:107-108).
Converged ==
  \A c \in Clients :
    (/\ client[c] = "on" /\ queue[c] = <<>>
     /\ ~pending /\ \A p \in Goroutines : pc[p] = Idle)
      => view[c] = Snapshot

\* A page that stays connected gets to see every task as it is.
PagesCatchUp ==
  \A c \in Clients, t \in Tasks :
    []<>(client[c] # "on" \/ view[c][t] = Shown(t))

=============================================================================

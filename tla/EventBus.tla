------------------------------ MODULE EventBus ------------------------------
(***************************************************************************)
(* internal/eventbus.Bus: a bounded queue that one goroutine dispatches to *)
(* the handlers, and a Close that lets it finish what was accepted.        *)
(*                                                                         *)
(* The handlers are numbered in the order of their Subscribe, which comes  *)
(* before any Publish; the type of an event selects some of them, a        *)
(* subscriber stands here for a component that takes every type.  What a   *)
(* handler does is left out, except that it may panic and that it returns: *)
(* those of this program hand long work to goroutines of their own and     *)
(* never publish.                                                          *)
(***************************************************************************)
EXTENDS Naturals, Sequences, SequencesExt

CONSTANTS Publishers,  \* goroutines that publish
          Closers,     \* goroutines that call Close
          Handlers,    \* number of handlers of an event
          Capacity,    \* capacity of Bus.queue
          Quota        \* bound: events of one publisher

ASSUME BusAssumption == Handlers \in Nat /\ Capacity \in Nat /\ Quota \in Nat

VARIABLES queue,     \* Bus.queue
          closed,    \* Bus.closed is closed
          run,       \* step of the dispatching goroutine; "gone": Bus.done is closed
          turn,      \* the handler it calls next, 0 between two events
          pub,       \* step of every publisher
          sent,      \* events every publisher has published
          closer,    \* step of every closer
          accepted,  \* history: the events put into the queue
          taken,     \* history: the events taken out of it
          log,       \* history: the events every handler was called with
          promised   \* history: how many were accepted when Close was called

vars == <<queue, closed, run, turn, pub, sent, closer, accepted, taken, log, promised>>

Events == Publishers \X (1..Quota)

TypeOK ==
  /\ queue \in Seq(Events) /\ Len(queue) <= Capacity
  /\ closed \in BOOLEAN /\ run \in {"run", "drain", "gone"} /\ turn \in 0..Handlers
  /\ pub \in [Publishers -> {"idle", "sending"}] /\ sent \in [Publishers -> 0..Quota]
  /\ closer \in [Closers -> {"idle", "waiting", "closed"}]
  /\ accepted \in Seq(Events) /\ taken \in Seq(Events)
  /\ log \in [1..Handlers -> Seq(Events)] /\ promised \in Nat

Init ==
  /\ queue = <<>> /\ closed = FALSE /\ run = "run" /\ turn = 0
  /\ pub = [p \in Publishers |-> "idle"] /\ sent = [p \in Publishers |-> 0]
  /\ closer = [c \in Closers |-> "idle"]
  /\ accepted = <<>> /\ taken = <<>> /\ log = [h \in 1..Handlers |-> <<>>]
  /\ promised = 0

-----------------------------------------------------------------------------
Publish(p) ==
  /\ pub[p] = "idle" /\ sent[p] < Quota
  /\ pub' = [pub EXCEPT ![p] = "sending"] /\ sent' = [sent EXCEPT ![p] = @ + 1]
  /\ UNCHANGED <<queue, closed, run, turn, closer, accepted, taken, log, promised>>

\* The select of Publish: of two ready cases Go takes either.
Enqueue(p) ==
  /\ pub[p] = "sending" /\ Len(queue) < Capacity
  /\ pub' = [pub EXCEPT ![p] = "idle"]
  /\ queue' = Append(queue, <<p, sent[p]>>) /\ accepted' = Append(accepted, <<p, sent[p]>>)
  /\ UNCHANGED <<closed, run, turn, sent, closer, taken, log, promised>>
Discard(p) ==
  /\ pub[p] = "sending" /\ closed
  /\ pub' = [pub EXCEPT ![p] = "idle"]
  /\ UNCHANGED <<queue, closed, run, turn, sent, closer, accepted, taken, log, promised>>

-----------------------------------------------------------------------------
\* run and drain take an event.
Take ==
  /\ run \in {"run", "drain"} /\ turn = 0 /\ queue # <<>>
  /\ queue' = Tail(queue) /\ taken' = Append(taken, Head(queue))
  /\ turn' = IF Handlers = 0 THEN 0 ELSE 1
  /\ UNCHANGED <<closed, run, pub, sent, closer, accepted, log, promised>>

\* dispatch calls the handlers one after the other; safeCall recovers a panic,
\* the next one is called all the same.
PanicEndsEvent ==
  /\ turn \in 1..Handlers
  /\ log' = [log EXCEPT ![turn] = Append(@, taken[Len(taken)])]
  /\ turn' \in {0, (turn + 1) % (Handlers + 1)}
  /\ UNCHANGED <<queue, closed, run, pub, sent, closer, accepted, taken, promised>>
CallHandler ==
  /\ turn \in 1..Handlers
  /\ log' = [log EXCEPT ![turn] = Append(@, taken[Len(taken)])]
  /\ turn' = IF turn = Handlers THEN 0 ELSE turn + 1
  /\ UNCHANGED <<queue, closed, run, pub, sent, closer, accepted, taken, promised>>

\* The select of run sees that the bus is closed, drain that the queue is empty.
Drain ==
  /\ run = "run" /\ turn = 0 /\ closed /\ run' = "drain"
  /\ UNCHANGED <<queue, closed, turn, pub, sent, closer, accepted, taken, log, promised>>
ExitUndrained ==
  /\ run = "drain" /\ turn = 0 /\ run' = "gone"
  /\ UNCHANGED <<queue, closed, turn, pub, sent, closer, accepted, taken, log, promised>>
Exit ==
  /\ run = "drain" /\ turn = 0 /\ queue = <<>> /\ run' = "gone"
  /\ UNCHANGED <<queue, closed, turn, pub, sent, closer, accepted, taken, log, promised>>

-----------------------------------------------------------------------------
Close(c) ==
  /\ closer[c] = "idle" /\ closer' = [closer EXCEPT ![c] = "waiting"]
  /\ closed' = TRUE /\ promised' = IF closed THEN promised ELSE Len(accepted)
  /\ UNCHANGED <<queue, run, turn, pub, sent, accepted, taken, log>>

\* Close waits for the dispatcher, or its context ends: it may be called again.
ReturnsAtOnce(c) ==
  /\ closer[c] = "waiting" /\ closer' = [closer EXCEPT ![c] = "closed"]
  /\ UNCHANGED <<queue, closed, run, turn, pub, sent, accepted, taken, log, promised>>
Closed(c) ==
  /\ closer[c] = "waiting" /\ run = "gone" /\ closer' = [closer EXCEPT ![c] = "closed"]
  /\ UNCHANGED <<queue, closed, run, turn, pub, sent, accepted, taken, log, promised>>
GivesUp(c) ==
  /\ closer[c] = "waiting" /\ closer' = [closer EXCEPT ![c] = "idle"]
  /\ UNCHANGED <<queue, closed, run, turn, pub, sent, accepted, taken, log, promised>>

Dispatch == Take \/ CallHandler \/ Drain \/ Exit

Next ==
  \/ \E p \in Publishers : Publish(p) \/ Enqueue(p) \/ Discard(p)
  \/ Dispatch
  \/ \E c \in Closers : Close(c) \/ Closed(c) \/ GivesUp(c)

Spec == Init /\ [][Next]_vars

\* Handlers return, and a sender that finds room takes it.
Fairness ==
  /\ WF_vars(Take) /\ WF_vars(CallHandler) /\ WF_vars(Drain) /\ WF_vars(Exit)
  /\ \A p \in Publishers : WF_vars(Enqueue(p)) /\ WF_vars(Discard(p))
FairSpec == Spec /\ Fairness

-----------------------------------------------------------------------------
\* Every handler sees the events in the order they were accepted in, each once,
\* none left out: a failure and the recovery after it never change places on
\* their way to the tasks, also when a handler panics.
InOrder == \A h \in 1..Handlers : IsPrefix(log[h], accepted)

\* Close lets the bus finish: when the dispatcher is gone, every event whose
\* Publish had returned before Close was called has been handled
\* (bus.go:112; eventbus tests: the queued events are drained).
DrainedAtClose == run = "gone" => \A h \in 1..Handlers : Len(log[h]) >= promised

\* After a Close that returned nil no handler runs: what they use may be closed.
QuietAfterClose == [][\A c \in Closers : closer[c] = "closed" => UNCHANGED log]_vars

\* No publisher is stuck on a full queue, the bus closed or not.
PublishReturns == \A p \in Publishers : []<>(pub[p] = "idle")

\* While the bus is open, everything that is accepted reaches every handler.
\* (Accepted events are finitely many here.)
AcceptedIsHandled ==
  []<>(closed \/ \A h \in 1..Handlers : Len(log[h]) = Len(accepted))

=============================================================================

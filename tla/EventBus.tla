------------------------------ MODULE EventBus ------------------------------
(***************************************************************************)
(* The event bus (src/src/events/EventManager.cpp): a bounded priority      *)
(* queue, worker threads that sleep on a condition variable, and handlers   *)
(* that are called on a copy of the subscriber list with no lock held.      *)
(* Publishers notify after they have released the queue's mutex; stop       *)
(* clears the running flag outside the mutex, so a worker's test of its     *)
(* wait condition and its falling asleep are two steps, with the mutex held *)
(* between them.                                                            *)
(***************************************************************************)
EXTENDS Naturals, FiniteSets, Functions

CONSTANTS
  Workers, Publishers,
  Events,      \* a set of numbers: the order of their timestamps
  Urgent,      \* those of high priority
  Handlers,    \* subscriptions; those in Leaving are unsubscribed at some time
  Leaving,
  MaxQueue     \* event_queue_size

VARIABLES
  running,   \* running_
  queue,     \* event_queue_
  holder,    \* who holds queue_mutex_ from one step to the next
  worker,    \* per worker: where it is, the event it has, the handlers still to call
  sender,    \* per publisher: where it is, the event, the handlers still to call
  stopper,   \* the thread in stop(true), likewise
  subs,      \* the active subscriptions
  sent,      \* history: the events that were put into the queue or sent directly
  due,       \* history: the queued or held events when stop was called
  calls      \* history: how often a handler was called with an event

busVars == <<running, queue, holder, worker, sender, stopper, subs, sent, due, calls>>

NoEvent == 0
Idle(at) == [at |-> at, ev |-> NoEvent, todo |-> {}]

BusInit ==
  /\ running = TRUE /\ queue = {} /\ holder = "free"
  /\ worker = [w \in Workers |-> Idle("loop")]
  /\ sender = [p \in Publishers |-> Idle("idle")]
  /\ stopper = Idle("idle")
  /\ subs = Handlers /\ sent = {} /\ due = {}
  /\ calls = [h \in Handlers |-> [e \in Events |-> 0]]

\* higher priority first, then the earlier timestamp
Before(a, b) == IF a \in Urgent <=> b \in Urgent THEN a < b ELSE a \in Urgent
Top == CHOOSE e \in queue : \A f \in queue \ {e} : Before(e, f)
Awake == [w \in Workers |-> IF worker[w].at = "asleep" THEN [worker[w] EXCEPT !.at = "test"]
                                                       ELSE worker[w]]
Free == holder = "free"
-----------------------------------------------------------------------------
(* publish, publishBatch, publishSync *)
Publish(p, e) ==
  /\ sender[p].at = "idle" /\ Free /\ e \notin sent
  /\ IF Cardinality(queue) >= MaxQueue
     THEN UNCHANGED <<queue, sender, sent>>                       \* dropped
     ELSE /\ queue' = queue \cup {e} /\ sent' = sent \cup {e}
          /\ sender' = [sender EXCEPT ![p].at = "notify"]
  /\ UNCHANGED <<running, holder, worker, stopper, subs, due, calls>>

\* as many of the batch as fit, under one lock
PublishBatch(p, b) ==
  LET room == MaxQueue - Cardinality(queue)
      fit  == {e \in b : Cardinality({f \in b : f < e}) < room}
  IN /\ sender[p].at = "idle" /\ Free /\ Cardinality(b) > 1 /\ b \cap sent = {}
     /\ queue' = queue \cup fit /\ sent' = sent \cup fit
     /\ sender' = [sender EXCEPT ![p].at = "notify_all"]
     /\ UNCHANGED <<running, holder, worker, stopper, subs, due, calls>>

NotifyOne(p) ==
  /\ sender[p].at = "notify"
  /\ sender' = [sender EXCEPT ![p].at = "idle"]
  /\ \/ \E w \in Workers : worker[w].at = "asleep" /\ worker' = [worker EXCEPT ![w].at = "test"]
     \/ (\A w \in Workers : worker[w].at # "asleep") /\ UNCHANGED worker
  /\ UNCHANGED <<running, queue, holder, stopper, subs, sent, due, calls>>

NotifyAll(p) ==
  /\ sender[p].at = "notify_all"
  /\ sender' = [sender EXCEPT ![p].at = "idle"] /\ worker' = Awake
  /\ UNCHANGED <<running, queue, holder, stopper, subs, sent, due, calls>>

\* the publisher's own thread calls the handlers
PublishSync(p, e) ==
  /\ sender[p].at = "idle" /\ e \notin sent
  /\ sender' = [sender EXCEPT ![p] = [at |-> "call", ev |-> e, todo |-> subs]]
  /\ sent' = sent \cup {e}
  /\ UNCHANGED <<running, queue, holder, worker, stopper, subs, due, calls>>
-----------------------------------------------------------------------------
(* processEvents *)
\* the loop's test of running_
Loop(w) ==
  /\ worker[w].at = "loop"
  /\ worker' = [worker EXCEPT ![w].at = IF running THEN "test" ELSE "gone"]
  /\ UNCHANGED <<running, queue, holder, sender, stopper, subs, sent, due, calls>>

\* the wait condition, tested with the mutex held
Test(w) ==
  /\ worker[w].at = "test" /\ Free
  /\ CASE queue # {} ->
            /\ worker' = [worker EXCEPT ![w].at = "copy", ![w].ev = Top]
            /\ queue' = queue \ {Top} /\ UNCHANGED holder
       [] queue = {} /\ running ->
            /\ worker' = [worker EXCEPT ![w].at = "doze"]
            /\ holder' = w /\ UNCHANGED queue
       [] OTHER ->
            /\ worker' = [worker EXCEPT ![w].at = "gone"]
            /\ UNCHANGED <<queue, holder>>
  /\ UNCHANGED <<running, sender, stopper, subs, sent, due, calls>>

Sleep(w) ==
  /\ worker[w].at = "doze"
  /\ worker' = [worker EXCEPT ![w].at = "asleep"] /\ holder' = "free"
  /\ UNCHANGED <<running, queue, sender, stopper, subs, sent, due, calls>>

(* dispatchEvent: the subscribers are copied, then called without the lock *)
Called(h, e) == calls' = [calls EXCEPT ![h][e] = @ + 1]
Copy(w) ==
  /\ worker[w].at = "copy"
  /\ worker' = [worker EXCEPT ![w].at = "call", ![w].todo = subs]
  /\ UNCHANGED <<running, queue, holder, sender, stopper, subs, sent, due, calls>>
WorkerCalls(w, h) ==
  /\ worker[w].at = "call" /\ h \in worker[w].todo
  /\ worker' = [worker EXCEPT ![w].todo = @ \ {h}]
  /\ Called(h, worker[w].ev)
  /\ UNCHANGED <<running, queue, holder, sender, stopper, subs, sent, due>>
WorkerDone(w) ==
  /\ worker[w].at = "call" /\ worker[w].todo = {}
  /\ worker' = [worker EXCEPT ![w] = Idle("loop")]
  /\ UNCHANGED <<running, queue, holder, sender, stopper, subs, sent, due, calls>>
SenderCalls(p, h) ==
  /\ sender[p].at = "call" /\ h \in sender[p].todo
  /\ sender' = IF sender[p].todo = {h} THEN [sender EXCEPT ![p] = Idle("idle")]
                                       ELSE [sender EXCEPT ![p].todo = @ \ {h}]
  /\ Called(h, sender[p].ev)
  /\ UNCHANGED <<running, queue, holder, worker, stopper, subs, sent, due>>

Unsubscribe(h) ==
  /\ h \in subs \cap Leaving /\ subs' = subs \ {h}
  /\ UNCHANGED <<running, queue, holder, worker, sender, stopper, sent, due, calls>>
-----------------------------------------------------------------------------
(* stop(true) *)
StopCall ==
  /\ stopper.at = "idle" /\ running
  /\ running' = FALSE /\ stopper' = Idle("drain")
  /\ due' = queue \cup ({worker[w].ev : w \in Workers} \ {NoEvent})
  /\ UNCHANGED <<queue, holder, worker, sender, subs, sent, calls>>
\* mutant: the emptiness of the queue is tested without the mutex
DrainUnlocked ==
  /\ stopper.at = "drain"
  /\ IF queue = {} THEN stopper' = Idle("notify") /\ UNCHANGED queue
     ELSE stopper' = [at |-> "call", ev |-> Top, todo |-> subs] /\ queue' = queue \ {Top}
  /\ UNCHANGED <<running, holder, worker, sender, subs, sent, due, calls>>
\* with the mutex held; it is released while an event is dispatched
Drain ==
  /\ stopper.at = "drain" /\ Free
  /\ IF queue = {} THEN stopper' = Idle("notify") /\ UNCHANGED queue
     ELSE stopper' = [at |-> "call", ev |-> Top, todo |-> subs] /\ queue' = queue \ {Top}
  /\ UNCHANGED <<running, holder, worker, sender, subs, sent, due, calls>>
StopperCalls(h) ==
  /\ stopper.at = "call" /\ h \in stopper.todo
  /\ stopper' = IF stopper.todo = {h} THEN Idle("drain") ELSE [stopper EXCEPT !.todo = @ \ {h}]
  /\ Called(h, stopper.ev)
  /\ UNCHANGED <<running, queue, holder, worker, sender, subs, sent, due>>
StopNotify ==
  /\ stopper.at = "notify"
  /\ stopper' = Idle("join") /\ worker' = Awake
  /\ UNCHANGED <<running, queue, holder, sender, subs, sent, due, calls>>
\* mutant: the workers are detached
StopJoinDetached ==
  /\ stopper.at = "join"
  /\ stopper' = Idle("stopped")
  /\ UNCHANGED <<running, queue, holder, worker, sender, subs, sent, due, calls>>
StopJoin ==
  /\ stopper.at = "join" /\ \A w \in Workers : worker[w].at = "gone"
  /\ stopper' = Idle("stopped")
  /\ UNCHANGED <<running, queue, holder, worker, sender, subs, sent, due, calls>>

BusNext ==
  \/ \E p \in Publishers, e \in Events : Publish(p, e) \/ PublishSync(p, e)
  \/ \E p \in Publishers, b \in SUBSET Events : PublishBatch(p, b)
  \/ \E p \in Publishers : NotifyOne(p) \/ NotifyAll(p) \/ \E h \in Handlers : SenderCalls(p, h)
  \/ \E w \in Workers : Loop(w) \/ Test(w) \/ Sleep(w) \/ Copy(w) \/ WorkerDone(w)
  \/ \E w \in Workers, h \in Handlers : WorkerCalls(w, h)
  \/ \E h \in Handlers : Unsubscribe(h) \/ StopperCalls(h)
  \/ StopCall \/ Drain \/ StopNotify \/ StopJoin

BusSpec == BusInit /\ [][BusNext]_busVars
-----------------------------------------------------------------------------
\* No wake-up is lost: a queued event has a worker that is awake, or a notification under way,
\* as long as the bus runs; and when stop waits for the workers, none of them sleeps.
NoLostWakeup ==
  /\ running /\ queue # {} =>
       \/ \E w \in Workers : worker[w].at # "asleep"
       \/ \E p \in Publishers : sender[p].at \in {"notify", "notify_all"}
  /\ stopper.at = "join" => \A w \in Workers : worker[w].at \notin {"doze", "asleep"}

\* stop(true) loses nothing and repeats nothing: when it has returned, every handler that was
\* not unsubscribed has been called exactly once with each event that was queued, or at a
\* worker, when stop was called; and no handler is ever called twice with an event.
Drained ==
  /\ stopper.at = "stopped" => \A h \in Handlers \ Leaving, e \in due : calls[h][e] = 1
  /\ \A h \in Handlers, e \in Events : calls[h][e] <= 1
=============================================================================

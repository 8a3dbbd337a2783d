--------------------------- MODULE Process_proofs ---------------------------
(***************************************************************************)
(* What the threads of the process run on. The event bus, for any number of *)
(* workers, publishers, events and handlers: no wake-up is lost, and        *)
(* stop(true) loses and repeats nothing. The life of the process, for any   *)
(* number of instruments, posters and restarts: the shutdown's sweeps leave *)
(* what they can account for, a start begins with a clean slate, and the    *)
(* order mover keeps the order of the jobs that it was given.               *)
(***************************************************************************)
EXTENDS EventBus, Lifecycle, FiniteSetTheorems, NaturalsInduction, WellFoundedInduction, TLAPS

-----------------------------------------------------------------------------
(* The event bus.                                                            *)

(* There is a worker (worker_threads), events are told apart by their time   *)
(* stamps, and 0 and "free" stand for no event and no worker.                *)
BusConstants ==
  /\ Workers # {} /\ "free" \notin Workers
  /\ Events \in SUBSET (Nat \ {NoEvent})

AtWorker  == {"loop", "test", "doze", "asleep", "copy", "call", "gone"}
AtSender  == {"idle", "notify", "notify_all", "call"}
AtStopper == {"idle", "drain", "call", "notify", "join", "stopped"}
Thread(ats) == [at : ats, ev : Events \cup {NoEvent}, todo : SUBSET Handlers]

(* A thread has an event, and handlers to call, just while it dispatches.    *)
Carries(t) ==
  /\ t.at \in {"copy", "call"} => t.ev \in Events
  /\ t.at \notin {"copy", "call"} => t.ev = NoEvent
  /\ t.at # "call" => t.todo = {}

(* The types of the variables.                                               *)
BusTypes ==
  /\ running \in BOOLEAN
  /\ queue \in SUBSET Events
  /\ holder \in Workers \cup {"free"}
  /\ worker \in [Workers -> Thread(AtWorker)]
  /\ sender \in [Publishers -> Thread(AtSender)]
  /\ stopper \in Thread(AtStopper)
  /\ subs \in SUBSET Handlers
  /\ sent \in SUBSET Events
  /\ calls \in [Handlers -> [Events -> Nat]]
  /\ \A w \in Workers : Carries(worker[w])
  /\ \A p \in Publishers : Carries(sender[p])
  /\ Carries(stopper)

(* The mutex is held from one step to the next only by the worker that has   *)
(* found the queue empty and is about to sleep, so the queue is empty then.  *)
MutexOK ==
  /\ \A w \in Workers : worker[w].at = "doze" <=> holder = w
  /\ ~Free => queue = {}

(* The flag is cleared before stop does anything else; workers end only      *)
(* afterwards; none is about to sleep once stop has found the queue empty.   *)
StopOK ==
  /\ running <=> stopper.at = "idle"
  /\ running => \A w \in Workers : worker[w].at # "gone"
  /\ stopper.at \in {"notify", "join", "stopped"} => \A w \in Workers : worker[w].at # "doze"
  /\ stopper.at \in {"join", "stopped"} => \A w \in Workers : worker[w].at # "asleep"

(* While the bus runs, a queued event has a worker that will look at it, or  *)
(* a notification under way.                                                 *)
Attended ==
  running /\ queue # {} =>
    \/ \E w \in Workers : worker[w].at # "asleep"
    \/ \E p \in Publishers : sender[p].at \in {"notify", "notify_all"}

(* The inductive invariant behind NoLostWakeup.                              *)
WakeInv == BusTypes /\ MutexOK /\ StopOK /\ Attended

-----------------------------------------------------------------------------
(* Every set of events that is not empty has one that is due before the      *)
(* others.                                                                   *)
LEMMA LeastEvent ==
  ASSUME BusConstants, NEW S \in SUBSET Events, S # {}
  PROVE  \E e \in S : \A f \in S \ {e} : Before(e, f)
<1>1. ASSUME NEW R \in SUBSET Nat, R # {}
      PROVE  \E e \in R : \A f \in R \ {e} : e < f
  <2>1. PICK e \in R : \A f \in R : <<f, e>> \notin OpToRel(<, Nat)
    BY <1>1, NatLessThanWellFounded, WFMin, Zenon
  <2>2. \A f \in R : ~(f < e)
    BY <2>1 DEF OpToRel
  <2>. QED
    BY <2>2
<1>2. S \in SUBSET Nat
  BY DEF BusConstants
<1>3. CASE S \cap Urgent = {}
  <2>1. PICK e \in S : \A f \in S \ {e} : e < f
    BY <1>1, <1>2
  <2>. QED
    BY <2>1, <1>3 DEF Before
<1>4. CASE S \cap Urgent # {}
  <2>1. PICK e \in S \cap Urgent : \A f \in (S \cap Urgent) \ {e} : e < f
    BY <1>1, <1>2, <1>4
  <2>. QED
    BY <2>1 DEF Before
<1>. QED
  BY <1>3, <1>4

(* What is taken from a queue that is not empty was in it.                   *)
LEMMA TopQueued ==
  ASSUME BusConstants, BusTypes, queue # {}
  PROVE  Top \in queue
<1>1. \E e \in queue : \A f \in queue \ {e} : Before(e, f)
  BY LeastEvent DEF BusTypes
<1>. QED
  BY <1>1, Zenon DEF Top

(* At the start nothing is queued and every worker is at its loop.           *)
LEMMA WakeInit ==
  ASSUME BusConstants, BusInit
  PROVE  WakeInv
BY DEF BusConstants, BusInit, Idle, WakeInv, BusTypes, MutexOK, StopOK, Attended, Free, Thread,
       AtWorker, AtSender, AtStopper, Carries

(* Every step keeps the types.                                               *)
LEMMA TypesStep ==
  ASSUME BusConstants, BusTypes, BusNext
  PROVE  BusTypes'
<1>. USE DEF BusTypes, Thread, AtWorker, AtSender, AtStopper, Carries, BusConstants
<1>1. ASSUME NEW p \in Publishers, NEW e \in Events, Publish(p, e) PROVE BusTypes'
  <2>1. CASE Cardinality(queue) >= MaxQueue
    BY <1>1, <2>1 DEF Publish
  <2>2. CASE ~(Cardinality(queue) >= MaxQueue)
    <3>1. sender' = [sender EXCEPT ![p].at = "notify"]
      BY <1>1, <2>2 DEF Publish
    <3>2. sender' \in [Publishers -> Thread(AtSender)] /\ \A q \in Publishers : Carries(sender'[q])
      BY <1>1, <3>1 DEF Publish
    <3>. QED
      BY <1>1, <2>2, <3>2 DEF Publish
  <2>. QED
    BY <2>1, <2>2
<1>2. ASSUME NEW p \in Publishers, NEW e \in Events, PublishSync(p, e) PROVE BusTypes'
  BY <1>2 DEF PublishSync
<1>3. ASSUME NEW p \in Publishers, NEW b \in SUBSET Events, PublishBatch(p, b) PROVE BusTypes'
  BY <1>3 DEF PublishBatch
<1>4. ASSUME NEW p \in Publishers, NotifyOne(p) PROVE BusTypes'
  <2>1. worker' \in [Workers -> Thread(AtWorker)] /\ \A w \in Workers : Carries(worker'[w])
    <3>1. CASE UNCHANGED worker
      BY <3>1
    <3>2. ASSUME NEW w \in Workers, worker[w].at = "asleep", worker' = [worker EXCEPT ![w].at = "test"]
          PROVE  worker' \in [Workers -> Thread(AtWorker)] /\ \A v \in Workers : Carries(worker'[v])
      BY <3>2
    <3>. QED
      BY <1>4, <3>1, <3>2 DEF NotifyOne
  <2>2. sender' \in [Publishers -> Thread(AtSender)] /\ \A q \in Publishers : Carries(sender'[q])
    BY <1>4 DEF NotifyOne
  <2>. QED
    BY <1>4, <2>1, <2>2 DEF NotifyOne
<1>5. ASSUME NEW p \in Publishers, NotifyAll(p) PROVE BusTypes'
  BY <1>5 DEF NotifyAll, Awake
<1>6. ASSUME NEW p \in Publishers, NEW h \in Handlers, SenderCalls(p, h) PROVE BusTypes'
  <2>1. sender' \in [Publishers -> Thread(AtSender)] /\ \A q \in Publishers : Carries(sender'[q])
    <3>1. CASE sender[p].todo = {h}
      BY <1>6, <3>1 DEF SenderCalls, Idle
    <3>2. CASE sender[p].todo # {h}
      <4>1. sender' = [sender EXCEPT ![p].todo = @ \ {h}] /\ sender[p].at = "call"
        BY <1>6, <3>2 DEF SenderCalls
      <4>. QED
        BY <4>1
    <3>. QED
      BY <3>1, <3>2
  <2>2. calls' \in [Handlers -> [Events -> Nat]]
    BY <1>6 DEF SenderCalls, Called
  <2>. QED
    BY <1>6, <2>1, <2>2 DEF SenderCalls
<1>7. ASSUME NEW w \in Workers, Loop(w) PROVE BusTypes'
  BY <1>7 DEF Loop
<1>8. ASSUME NEW w \in Workers, Test(w) PROVE BusTypes'
  <2>1. CASE queue # {}
    <3>1. Top \in queue
      BY <2>1, TopQueued
    <3>2. worker' = [worker EXCEPT ![w].at = "copy", ![w].ev = Top] /\ queue' = queue \ {Top}
          /\ UNCHANGED holder
      BY <1>8, <2>1 DEF Test
    <3>3. UNCHANGED <<running, sender, stopper, subs, sent, due, calls>> /\ worker[w].at = "test"
      BY <1>8 DEF Test
    <3>. HIDE DEF Top
    <3>. QED
      BY <3>1, <3>2, <3>3
  <2>2. CASE queue = {}
    <3>1. CASE running
      BY <1>8, <2>2, <3>1 DEF Test
    <3>2. CASE ~running
      <4>1. worker' = [worker EXCEPT ![w].at = "gone"]
        BY <1>8, <2>2, <3>2 DEF Test
      <4>2. UNCHANGED <<queue, holder>>
        BY <1>8, <2>2, <3>2 DEF Test
      <4>3. UNCHANGED <<running, sender, stopper, subs, sent, due, calls>> /\ worker[w].at = "test"
        BY <1>8 DEF Test
      <4>. QED
        BY <4>1, <4>2, <4>3
    <3>. QED
      BY <3>1, <3>2
  <2>. QED
    BY <2>1, <2>2
<1>9. ASSUME NEW w \in Workers, Sleep(w) PROVE BusTypes'
  BY <1>9 DEF Sleep
<1>10. ASSUME NEW w \in Workers, Copy(w) PROVE BusTypes'
  BY <1>10, ZenonT(30) DEF Copy
<1>11. ASSUME NEW w \in Workers, WorkerDone(w) PROVE BusTypes'
  BY <1>11 DEF WorkerDone, Idle
<1>12. ASSUME NEW w \in Workers, NEW h \in Handlers, WorkerCalls(w, h) PROVE BusTypes'
  BY <1>12 DEF WorkerCalls, Called
<1>13. ASSUME NEW h \in Handlers, Unsubscribe(h) PROVE BusTypes'
  BY <1>13 DEF Unsubscribe
<1>14. ASSUME NEW h \in Handlers, StopperCalls(h) PROVE BusTypes'
  BY <1>14 DEF StopperCalls, Called, Idle
<1>15. ASSUME StopCall PROVE BusTypes'
  BY <1>15 DEF StopCall, Idle
<1>16. ASSUME Drain PROVE BusTypes'
  <2>1. CASE queue # {}
    <3>1. Top \in queue
      BY <2>1, TopQueued
    <3>2. stopper' = [at |-> "call", ev |-> Top, todo |-> subs] /\ queue' = queue \ {Top}
          /\ UNCHANGED <<running, holder, worker, sender, subs, sent, due, calls>>
      BY <1>16, <2>1 DEF Drain
    <3>. HIDE DEF Top
    <3>. QED
      BY <3>1, <3>2
  <2>2. CASE queue = {}
    BY <1>16, <2>2 DEF Drain, Idle
  <2>. QED
    BY <2>1, <2>2
<1>17. ASSUME StopNotify PROVE BusTypes'
  BY <1>17 DEF StopNotify, Idle, Awake
<1>18. ASSUME StopJoin PROVE BusTypes'
  BY <1>18 DEF StopJoin, Idle
<1>. QED
  BY <1>1, <1>2, <1>3, <1>4, <1>5, <1>6, <1>7, <1>8, <1>9, <1>10, <1>11, <1>12, <1>13, <1>14, <1>15, <1>16, <1>17, <1>18, Zenon DEF BusNext

(* Every step keeps the queue from changing while a worker falls asleep.     *)
LEMMA MutexStep ==
  ASSUME BusConstants, BusTypes, MutexOK, BusNext
  PROVE  MutexOK'
<1>. USE DEF MutexOK, Free, BusConstants, BusTypes, Thread, AtWorker
<1>1. ASSUME NEW p \in Publishers, NEW e \in Events, Publish(p, e) PROVE MutexOK'
  BY <1>1 DEF Publish
<1>2. ASSUME NEW p \in Publishers, NEW e \in Events, PublishSync(p, e) PROVE MutexOK'
  BY <1>2 DEF PublishSync
<1>3. ASSUME NEW p \in Publishers, NEW b \in SUBSET Events, PublishBatch(p, b) PROVE MutexOK'
  BY <1>3 DEF PublishBatch
<1>4. ASSUME NEW p \in Publishers, NotifyOne(p) PROVE MutexOK'
  BY <1>4 DEF NotifyOne
<1>5. ASSUME NEW p \in Publishers, NotifyAll(p) PROVE MutexOK'
  BY <1>5 DEF NotifyAll, Awake
<1>6. ASSUME NEW p \in Publishers, NEW h \in Handlers, SenderCalls(p, h) PROVE MutexOK'
  BY <1>6 DEF SenderCalls, Called, Idle
<1>7. ASSUME NEW w \in Workers, Loop(w) PROVE MutexOK'
  BY <1>7 DEF Loop
<1>8. ASSUME NEW w \in Workers, Test(w) PROVE MutexOK'
  BY <1>8 DEF Test
<1>9. ASSUME NEW w \in Workers, Sleep(w) PROVE MutexOK'
  BY <1>9 DEF Sleep
<1>10. ASSUME NEW w \in Workers, Copy(w) PROVE MutexOK'
  BY <1>10 DEF Copy
<1>11. ASSUME NEW w \in Workers, WorkerDone(w) PROVE MutexOK'
  BY <1>11 DEF WorkerDone, Idle
<1>12. ASSUME NEW w \in Workers, NEW h \in Handlers, WorkerCalls(w, h) PROVE MutexOK'
  BY <1>12 DEF WorkerCalls, Called
<1>13. ASSUME NEW h \in Handlers, Unsubscribe(h) PROVE MutexOK'
  BY <1>13 DEF Unsubscribe
<1>14. ASSUME NEW h \in Handlers, StopperCalls(h) PROVE MutexOK'
  BY <1>14 DEF StopperCalls, Called, Idle
<1>15. ASSUME StopCall PROVE MutexOK'
  BY <1>15 DEF StopCall, Idle
<1>16. ASSUME Drain PROVE MutexOK'
  BY <1>16 DEF Drain, Idle
<1>17. ASSUME StopNotify PROVE MutexOK'
  BY <1>17 DEF StopNotify, Idle, Awake
<1>18. ASSUME StopJoin PROVE MutexOK'
  BY <1>18 DEF StopJoin, Idle
<1>. QED
  BY <1>1, <1>2, <1>3, <1>4, <1>5, <1>6, <1>7, <1>8, <1>9, <1>10, <1>11, <1>12, <1>13, <1>14, <1>15, <1>16, <1>17, <1>18, Zenon DEF BusNext

(* Every step keeps the order in which stop proceeds.                        *)
LEMMA StopStep ==
  ASSUME BusConstants, BusTypes, MutexOK, StopOK, BusNext
  PROVE  StopOK'
<1>. USE DEF StopOK, MutexOK, Free, BusConstants, BusTypes, Thread, AtWorker, AtStopper
<1>1. ASSUME NEW p \in Publishers, NEW e \in Events, Publish(p, e) PROVE StopOK'
  BY <1>1 DEF Publish
<1>2. ASSUME NEW p \in Publishers, NEW e \in Events, PublishSync(p, e) PROVE StopOK'
  BY <1>2 DEF PublishSync
<1>3. ASSUME NEW p \in Publishers, NEW b \in SUBSET Events, PublishBatch(p, b) PROVE StopOK'
  BY <1>3 DEF PublishBatch
<1>4. ASSUME NEW p \in Publishers, NotifyOne(p) PROVE StopOK'
  <2>1. UNCHANGED <<running, stopper>>
    BY <1>4 DEF NotifyOne
  <2>2. \A w \in Workers : worker'[w].at = worker[w].at \/ worker'[w].at = "test"
    BY <1>4 DEF NotifyOne
  <2>. QED
    BY <2>1, <2>2
<1>5. ASSUME NEW p \in Publishers, NotifyAll(p) PROVE StopOK'
  BY <1>5 DEF NotifyAll, Awake
<1>6. ASSUME NEW p \in Publishers, NEW h \in Handlers, SenderCalls(p, h) PROVE StopOK'
  BY <1>6 DEF SenderCalls, Called, Idle
<1>7. ASSUME NEW w \in Workers, Loop(w) PROVE StopOK'
  BY <1>7 DEF Loop
<1>8. ASSUME NEW w \in Workers, Test(w) PROVE StopOK'
  <2>1. UNCHANGED <<running, stopper>>
    BY <1>8 DEF Test
  <2>2. \A v \in Workers \ {w} : worker'[v] = worker[v]
    BY <1>8 DEF Test
  <2>3. worker'[w].at \in {"copy", "doze", "gone"}
    BY <1>8 DEF Test
  <2>4. /\ worker'[w].at = "doze" => running
        /\ worker'[w].at = "gone" => ~running
    BY <1>8 DEF Test
  <2>. QED
    BY <2>1, <2>2, <2>3, <2>4
<1>9. ASSUME NEW w \in Workers, Sleep(w) PROVE StopOK'
  BY <1>9 DEF Sleep
<1>10. ASSUME NEW w \in Workers, Copy(w) PROVE StopOK'
  BY <1>10 DEF Copy
<1>11. ASSUME NEW w \in Workers, WorkerDone(w) PROVE StopOK'
  BY <1>11 DEF WorkerDone, Idle
<1>12. ASSUME NEW w \in Workers, NEW h \in Handlers, WorkerCalls(w, h) PROVE StopOK'
  BY <1>12 DEF WorkerCalls, Called
<1>13. ASSUME NEW h \in Handlers, Unsubscribe(h) PROVE StopOK'
  BY <1>13 DEF Unsubscribe
<1>14. ASSUME NEW h \in Handlers, StopperCalls(h) PROVE StopOK'
  BY <1>14 DEF StopperCalls, Called, Idle
<1>15. ASSUME StopCall PROVE StopOK'
  BY <1>15 DEF StopCall, Idle
<1>16. ASSUME Drain PROVE StopOK'
  BY <1>16 DEF Drain, Idle
<1>17. ASSUME StopNotify PROVE StopOK'
  BY <1>17 DEF StopNotify, Idle, Awake
<1>18. ASSUME StopJoin PROVE StopOK'
  BY <1>18 DEF StopJoin, Idle
<1>. QED
  BY <1>1, <1>2, <1>3, <1>4, <1>5, <1>6, <1>7, <1>8, <1>9, <1>10, <1>11, <1>12, <1>13, <1>14, <1>15, <1>16, <1>17, <1>18, Zenon DEF BusNext

(* Every step keeps a queued event attended to.                              *)
LEMMA AttendedStep ==
  ASSUME BusConstants, BusTypes, MutexOK, StopOK, Attended, BusNext
  PROVE  Attended'
<1>. USE DEF Attended, MutexOK, StopOK, Free, BusConstants, BusTypes, Thread, AtWorker, AtSender
<1>1. ASSUME NEW p \in Publishers, NEW e \in Events, Publish(p, e) PROVE Attended'
  BY <1>1 DEF Publish
<1>2. ASSUME NEW p \in Publishers, NEW e \in Events, PublishSync(p, e) PROVE Attended'
  BY <1>2 DEF PublishSync
<1>3. ASSUME NEW p \in Publishers, NEW b \in SUBSET Events, PublishBatch(p, b) PROVE Attended'
  BY <1>3 DEF PublishBatch
<1>4. ASSUME NEW p \in Publishers, NotifyOne(p) PROVE Attended'
  BY <1>4 DEF NotifyOne
<1>5. ASSUME NEW p \in Publishers, NotifyAll(p) PROVE Attended'
  BY <1>5 DEF NotifyAll, Awake
<1>6. ASSUME NEW p \in Publishers, NEW h \in Handlers, SenderCalls(p, h) PROVE Attended'
  BY <1>6 DEF SenderCalls, Called, Idle
<1>7. ASSUME NEW w \in Workers, Loop(w) PROVE Attended'
  BY <1>7 DEF Loop
<1>8. ASSUME NEW w \in Workers, Test(w) PROVE Attended'
  BY <1>8 DEF Test
<1>9. ASSUME NEW w \in Workers, Sleep(w) PROVE Attended'
  BY <1>9 DEF Sleep
<1>10. ASSUME NEW w \in Workers, Copy(w) PROVE Attended'
  BY <1>10 DEF Copy
<1>11. ASSUME NEW w \in Workers, WorkerDone(w) PROVE Attended'
  BY <1>11 DEF WorkerDone, Idle
<1>12. ASSUME NEW w \in Workers, NEW h \in Handlers, WorkerCalls(w, h) PROVE Attended'
  BY <1>12 DEF WorkerCalls, Called
<1>13. ASSUME NEW h \in Handlers, Unsubscribe(h) PROVE Attended'
  BY <1>13 DEF Unsubscribe
<1>14. ASSUME NEW h \in Handlers, StopperCalls(h) PROVE Attended'
  BY <1>14 DEF StopperCalls, Called, Idle
<1>15. ASSUME StopCall PROVE Attended'
  BY <1>15 DEF StopCall, Idle
<1>16. ASSUME Drain PROVE Attended'
  BY <1>16 DEF Drain, Idle
<1>17. ASSUME StopNotify PROVE Attended'
  BY <1>17 DEF StopNotify, Idle, Awake
<1>18. ASSUME StopJoin PROVE Attended'
  BY <1>18 DEF StopJoin, Idle
<1>. QED
  BY <1>1, <1>2, <1>3, <1>4, <1>5, <1>6, <1>7, <1>8, <1>9, <1>10, <1>11, <1>12, <1>13, <1>14, <1>15, <1>16, <1>17, <1>18, Zenon DEF BusNext


(* No wake-up is lost, however publishers, workers and stop interleave:      *)
(* while the bus runs, a queued event has a worker that is awake or a        *)
(* notification under way, and none sleeps when stop waits for the workers.  *)
THEOREM NothingSleepsOn ==
  ASSUME BusConstants
  PROVE  BusSpec => []NoLostWakeup
<1>1. BusInit => WakeInv
  BY WakeInit
<1>2. WakeInv /\ [BusNext]_busVars => WakeInv'
  <2>. SUFFICES ASSUME WakeInv, [BusNext]_busVars PROVE WakeInv'
    OBVIOUS
  <2>1. CASE BusNext
    BY <2>1, TypesStep, MutexStep, StopStep, AttendedStep DEF WakeInv
  <2>2. CASE UNCHANGED busVars
    BY <2>2 DEF busVars, WakeInv, BusTypes, MutexOK, Free, StopOK, Attended, Carries
  <2>. QED
    BY <2>1, <2>2
<1>3. WakeInv => NoLostWakeup
  BY DEF WakeInv, NoLostWakeup, Attended, StopOK
<1>. QED
  BY <1>1, <1>2, <1>3, PTL DEF BusSpec

-----------------------------------------------------------------------------
NotCalled(e) == \A h \in Handlers : calls[h][e] = 0
Unheld(e) ==
  /\ \A w \in Workers : worker[w].ev # e
  /\ \A p \in Publishers : sender[p].ev # e
  /\ stopper.ev # e
Staying == Handlers \ Leaving

(* An event is dispatched by at most one thread.                             *)
Parted ==
  /\ \A v, w \in Workers : worker[v].ev = worker[w].ev /\ worker[v].ev # NoEvent => v = w
  /\ \A p, q \in Publishers : sender[p].ev = sender[q].ev /\ sender[p].ev # NoEvent => p = q
  /\ \A w \in Workers, p \in Publishers : worker[w].ev # NoEvent => worker[w].ev # sender[p].ev
  /\ \A w \in Workers : worker[w].ev # NoEvent => worker[w].ev # stopper.ev
  /\ \A p \in Publishers : sender[p].ev # NoEvent => sender[p].ev # stopper.ev

(* No thread has an event that is queued, or that was never published, and   *)
(* no handler was called with it.                                            *)
Placed ==
  /\ \A e \in queue : e \in sent /\ NotCalled(e) /\ Unheld(e)
  /\ \A e \in Events \ sent : NotCalled(e) /\ Unheld(e)

(* The handlers a thread has still to call were not called with its event.   *)
ToCall(t) ==
  /\ t.at = "copy" => NotCalled(t.ev)
  /\ \A h \in t.todo : calls[h][t.ev] = 0
CallsOK ==
  /\ \A w \in Workers : ToCall(worker[w])
  /\ \A p \in Publishers : ToCall(sender[p])
  /\ ToCall(stopper)
  /\ \A h \in Handlers, e \in Events : calls[h][e] <= 1

(* Those that stay subscribed and are no longer to be called were called.    *)
HasCalled(t) == t.at = "call" => \A h \in Staying \ t.todo : calls[h][t.ev] = 1
DoneOK ==
  /\ Staying \subseteq subs
  /\ \A w \in Workers : HasCalled(worker[w])
  /\ HasCalled(stopper)

(* Where an event that stop has to care for can be.                          *)
Owed(h, e) ==
  \/ calls[h][e] = 1
  \/ e \in queue
  \/ \E w \in Workers : worker[w].ev = e /\ (worker[w].at = "copy" \/ h \in worker[w].todo)
  \/ stopper.ev = e /\ h \in stopper.todo
DueOK ==
  /\ due \subseteq sent
  /\ \A h \in Staying, e \in due : Owed(h, e)

(* Once stop has found the queue empty no event it cares for is queued, and  *)
(* it returns when every worker has ended.                                   *)
EndOK ==
  /\ stopper.at \in {"notify", "join", "stopped"} => queue \cap due = {}
  /\ stopper.at = "stopped" => \A w \in Workers : worker[w].at = "gone"

(* The inductive invariant behind Drained.                                   *)
Tracked == Parted /\ Placed /\ CallsOK /\ DoneOK /\ DueOK
DrainInv == BusTypes /\ Tracked /\ EndOK

(* At the start nothing was published.                                       *)
LEMMA DrainInit ==
  ASSUME BusConstants, BusInit
  PROVE  DrainInv
<1>1. BusTypes
  BY WakeInit DEF WakeInv
<1>. QED
  BY <1>1 DEF BusConstants, BusInit, Idle, DrainInv, Parted, Placed, NotCalled, Unheld, CallsOK, ToCall, DoneOK,
       HasCalled, Staying, DueOK, EndOK, Tracked, Owed, NoEvent

(* Two states of a thread in which it dispatches alike.                      *)
Alike(t, u) ==
  /\ t.ev = u.ev /\ t.todo = u.todo
  /\ t.at = "copy" <=> u.at = "copy"
  /\ t.at = "call" <=> u.at = "call"

(* A step in which no thread goes on dispatching, nothing leaves the queue,  *)
(* and what enters it was never published.                                   *)
LEMMA QuietStep ==
  ASSUME BusConstants, BusTypes, Tracked, NEW new \in SUBSET (Events \ sent),
         queue' = queue \cup new, sent' = sent \cup new,
         \A w \in Workers : Alike(worker'[w], worker[w]),
         \A p \in Publishers : Alike(sender'[p], sender[p]),
         Alike(stopper', stopper),
         UNCHANGED <<subs, due, calls>>
  PROVE  Tracked'
<1>. USE DEF Tracked, BusTypes
<1>1. Parted'
  BY DEF Parted, Alike
<1>2. \A e : Unheld(e) => Unheld(e)'
  BY DEF Unheld, Alike
<1>3. Placed'
  BY <1>2 DEF Placed, NotCalled
<1>4. CallsOK'
  BY DEF CallsOK, ToCall, NotCalled, Alike
<1>5. DoneOK'
  BY DEF DoneOK, HasCalled, Alike, Staying
<1>6. \A h, e : Owed(h, e) => Owed(h, e)'
  BY DEF Owed, Alike
<1>7. DueOK'
  BY <1>6 DEF DueOK, Staying
<1>. QED
  BY <1>1, <1>3, <1>4, <1>5, <1>7

(* A publisher that dispatches an event itself starts.                       *)
LEMMA SyncStep ==
  ASSUME BusConstants, BusTypes, Tracked, NEW p \in Publishers, NEW e \in Events, PublishSync(p, e)
  PROVE  Tracked'
<1>. USE DEF Tracked, BusTypes, Thread, Carries, BusConstants
<1>1. sender[p].ev = NoEvent /\ e \notin sent
  BY DEF PublishSync
<1>2. sender' = [sender EXCEPT ![p] = [at |-> "call", ev |-> e, todo |-> subs]]
  BY DEF PublishSync
<1>3. UNCHANGED <<queue, worker, stopper, subs, due, calls>> /\ sent' = sent \cup {e}
  BY DEF PublishSync
<1>11. Parted'
  BY <1>1, <1>2, <1>3 DEF Parted, Placed, Unheld
<1>12. Placed'
  BY <1>1, <1>2, <1>3 DEF Parted, Placed, Unheld, NotCalled
<1>13. CallsOK'
  BY <1>1, <1>2, <1>3 DEF CallsOK, ToCall, Placed, NotCalled, Unheld, Parted
<1>14. DoneOK'
  BY <1>1, <1>2, <1>3 DEF DoneOK, HasCalled, Staying, Parted, CallsOK, ToCall
<1>15. DueOK'
  BY <1>1, <1>2, <1>3 DEF DueOK, Owed, Staying, DoneOK, HasCalled
<1>. QED
  BY <1>11, <1>12, <1>13, <1>14, <1>15

(* A worker takes the first event of the queue.                              *)
LEMMA TakeStep ==
  ASSUME BusConstants, BusTypes, Tracked, NEW w \in Workers, Test(w), queue # {}
  PROVE  Tracked'
<1>. USE DEF Tracked, BusTypes, Thread, Carries, BusConstants
<1>1. Top \in queue
  BY TopQueued
<1>2. worker[w].ev = NoEvent /\ worker[w].todo = {}
  BY DEF Test
<1>3. PICK e \in queue : worker' = [worker EXCEPT ![w].at = "copy", ![w].ev = e] /\ queue' = queue \ {e}
  BY <1>1 DEF Test
<1>4. UNCHANGED <<sender, stopper, subs, sent, due, calls>>
  BY DEF Test
<1>11. Parted'
  BY <1>1, <1>2, <1>3, <1>4 DEF Parted, Placed, Unheld
<1>12. Placed'
  BY <1>1, <1>2, <1>3, <1>4 DEF Parted, Placed, Unheld, NotCalled
<1>13. CallsOK'
  BY <1>1, <1>2, <1>3, <1>4 DEF CallsOK, ToCall, Placed, NotCalled, Unheld, Parted
<1>14. DoneOK'
  BY <1>1, <1>2, <1>3, <1>4 DEF DoneOK, HasCalled, Staying, Parted, CallsOK, ToCall
<1>15. DueOK'
  BY <1>1, <1>2, <1>3, <1>4 DEF DueOK, Owed, Staying, DoneOK, HasCalled
<1>. QED
  BY <1>11, <1>12, <1>13, <1>14, <1>15

(* A worker copies the subscribers.                                          *)
LEMMA CopyStep ==
  ASSUME BusConstants, BusTypes, Tracked, NEW w \in Workers, Copy(w)
  PROVE  Tracked'
<1>. USE DEF Tracked, BusTypes, Thread, Carries, BusConstants
<1>1. worker[w].at = "copy"
  BY DEF Copy
<1>2. worker' = [worker EXCEPT ![w].at = "call", ![w].todo = subs]
  BY DEF Copy
<1>3. UNCHANGED <<queue, sender, stopper, subs, sent, due, calls>>
  BY DEF Copy
<1>11. Parted'
  BY <1>1, <1>2, <1>3 DEF Parted, Placed, Unheld
<1>12. Placed'
  BY <1>1, <1>2, <1>3 DEF Parted, Placed, Unheld, NotCalled
<1>13. CallsOK'
  BY <1>1, <1>2, <1>3 DEF CallsOK, ToCall, Placed, NotCalled, Unheld, Parted
<1>14. DoneOK'
  BY <1>1, <1>2, <1>3 DEF DoneOK, HasCalled, Staying, Parted, CallsOK, ToCall
<1>15. DueOK'
  BY <1>1, <1>2, <1>3 DEF DueOK, Owed, Staying, DoneOK, HasCalled
<1>. QED
  BY <1>11, <1>12, <1>13, <1>14, <1>15

(* A worker calls a handler.                                                 *)
LEMMA WorkerCallsStep ==
  ASSUME BusConstants, BusTypes, Tracked, NEW w \in Workers, NEW h \in Handlers, WorkerCalls(w, h)
  PROVE  Tracked'
<1>. USE DEF Tracked, BusTypes, Thread, Carries, BusConstants
<1>1. worker[w].at = "call" /\ h \in worker[w].todo /\ worker[w].ev \in Events
  BY DEF WorkerCalls
<1>2. worker' = [worker EXCEPT ![w].todo = @ \ {h}]
  BY DEF WorkerCalls
<1>3. calls' = [calls EXCEPT ![h][worker[w].ev] = @ + 1] /\ calls[h][worker[w].ev] = 0
  BY <1>1 DEF WorkerCalls, Called, CallsOK, ToCall
<1>4. UNCHANGED <<queue, sender, stopper, subs, sent, due>>
  BY DEF WorkerCalls
<1>11. Parted'
  BY <1>1, <1>2, <1>3, <1>4 DEF Parted, Placed, Unheld
<1>12. Placed'
  BY <1>1, <1>2, <1>3, <1>4 DEF Parted, Placed, Unheld, NotCalled
<1>13. CallsOK'
  BY <1>1, <1>2, <1>3, <1>4 DEF CallsOK, ToCall, Placed, NotCalled, Unheld, Parted
<1>14. DoneOK'
  BY <1>1, <1>2, <1>3, <1>4 DEF DoneOK, HasCalled, Staying, Parted, CallsOK, ToCall
<1>15. DueOK'
  BY <1>1, <1>2, <1>3, <1>4 DEF DueOK, Owed, Staying, DoneOK, HasCalled
<1>. QED
  BY <1>11, <1>12, <1>13, <1>14, <1>15

(* A worker has called them all.                                             *)
LEMMA WorkerDoneStep ==
  ASSUME BusConstants, BusTypes, Tracked, NEW w \in Workers, WorkerDone(w)
  PROVE  Tracked'
<1>. USE DEF Tracked, BusTypes, Thread, Carries, BusConstants
<1>1. worker[w].at = "call" /\ worker[w].todo = {}
  BY DEF WorkerDone
<1>2. worker' = [worker EXCEPT ![w] = [at |-> "loop", ev |-> NoEvent, todo |-> {}]]
  BY DEF WorkerDone, Idle
<1>3. UNCHANGED <<queue, sender, stopper, subs, sent, due, calls>>
  BY DEF WorkerDone
<1>11. Parted'
  BY <1>1, <1>2, <1>3 DEF Parted, Placed, Unheld
<1>12. Placed'
  BY <1>1, <1>2, <1>3 DEF Parted, Placed, Unheld, NotCalled
<1>13. CallsOK'
  BY <1>1, <1>2, <1>3 DEF CallsOK, ToCall, Placed, NotCalled, Unheld, Parted
<1>14. DoneOK'
  BY <1>1, <1>2, <1>3 DEF DoneOK, HasCalled, Staying, Parted, CallsOK, ToCall
<1>15. DueOK'
  BY <1>1, <1>2, <1>3 DEF DueOK, Owed, Staying, DoneOK, HasCalled
<1>. QED
  BY <1>11, <1>12, <1>13, <1>14, <1>15

(* A publisher calls a handler.                                              *)
LEMMA SenderCallsStep ==
  ASSUME BusConstants, BusTypes, Tracked, NEW p \in Publishers, NEW h \in Handlers, SenderCalls(p, h)
  PROVE  Tracked'
<1>. USE DEF Tracked, BusTypes, Thread, Carries, BusConstants
<1>1. sender[p].at = "call" /\ h \in sender[p].todo /\ sender[p].ev \in Events
  BY DEF SenderCalls
<1>2. \/ sender' = [sender EXCEPT ![p] = [at |-> "idle", ev |-> NoEvent, todo |-> {}]]
      \/ sender' = [sender EXCEPT ![p].todo = @ \ {h}]
  BY DEF SenderCalls, Idle
<1>3. calls' = [calls EXCEPT ![h][sender[p].ev] = @ + 1] /\ calls[h][sender[p].ev] = 0
  BY <1>1 DEF SenderCalls, Called, CallsOK, ToCall
<1>4. UNCHANGED <<queue, worker, stopper, subs, sent, due>>
  BY DEF SenderCalls
<1>5. /\ sender'[p].ev \in {sender[p].ev, NoEvent}
      /\ \A q \in Publishers \ {p} : sender'[q] = sender[q]
  BY <1>1, <1>2
<1>6. \A q \in Publishers : sender'[q].ev \in {sender[q].ev, NoEvent}
  BY <1>5
<1>11. Parted'
  <2>. HIDE DEF BusTypes, BusConstants, Carries
  <2>. QED
    BY <1>4, <1>6 DEF Parted
<1>12. Placed'
  <2>1. \A e \in Events : Unheld(e) => Unheld(e)'
    BY <1>1, <1>4, <1>5 DEF Unheld, NoEvent
  <2>2. \A e \in Events : Unheld(e) /\ NotCalled(e) => NotCalled(e)'
    BY <1>1, <1>3 DEF Unheld, NotCalled
  <2>. QED
    BY <1>4, <2>1, <2>2 DEF Placed
<1>13. CallsOK'
  BY <1>1, <1>2, <1>3, <1>4, SMTT(30) DEF CallsOK, ToCall, Placed, NotCalled, Unheld, Parted
<1>14. DoneOK'
  BY <1>1, <1>2, <1>3, <1>4 DEF DoneOK, HasCalled, Staying, Parted, CallsOK, ToCall
<1>15. DueOK'
  BY <1>1, <1>2, <1>3, <1>4 DEF DueOK, Owed, Staying, DoneOK, HasCalled
<1>. QED
  BY <1>11, <1>12, <1>13, <1>14, <1>15

(* The stopping thread calls a handler.                                      *)
LEMMA StopperCallsStep ==
  ASSUME BusConstants, BusTypes, Tracked, NEW h \in Handlers, StopperCalls(h)
  PROVE  Tracked'
<1>. USE DEF Tracked, BusTypes, Thread, Carries, BusConstants
<1>1. stopper.at = "call" /\ h \in stopper.todo /\ stopper.ev \in Events
  BY DEF StopperCalls
<1>2. \/ stopper' = [at |-> "drain", ev |-> NoEvent, todo |-> {}] /\ stopper.todo = {h}
      \/ stopper' = [stopper EXCEPT !.todo = @ \ {h}]
  BY DEF StopperCalls, Idle
<1>3. calls' = [calls EXCEPT ![h][stopper.ev] = @ + 1] /\ calls[h][stopper.ev] = 0
  BY <1>1 DEF StopperCalls, Called, CallsOK, ToCall
<1>4. UNCHANGED <<queue, worker, sender, subs, sent, due>>
  BY DEF StopperCalls
<1>11. Parted'
  BY <1>1, <1>2, <1>3, <1>4 DEF Parted, Placed, Unheld
<1>12. Placed'
  BY <1>1, <1>2, <1>3, <1>4 DEF Parted, Placed, Unheld, NotCalled
<1>13. CallsOK'
  <2>1. \A g \in Handlers, f \in Events :
          calls'[g][f] = IF g = h /\ f = stopper.ev THEN 1 ELSE calls[g][f]
    BY <1>1, <1>3
  <2>10. \A g \in Handlers, f \in Events : f # stopper.ev => calls'[g][f] = calls[g][f]
    BY <2>1
  <2>2. /\ stopper'.at # "copy" /\ stopper'.todo \subseteq stopper.todo \ {h}
        /\ stopper'.todo # {} => stopper'.ev = stopper.ev
    BY <1>1, <1>2
  <2>3. \A g \in stopper'.todo : calls'[g][stopper'.ev] = 0
    <3>1. \A g \in stopper.todo : g \in Handlers /\ calls[g][stopper.ev] = 0
      BY DEF CallsOK, ToCall
    <3>. HIDE DEF BusTypes, BusConstants, Carries
    <3>. QED
      BY <1>1, <2>1, <2>2, <3>1
  <2>4. \A w \in Workers : worker[w].ev # NoEvent => worker[w].ev # stopper.ev
    BY DEF Parted
  <2>5. \A p \in Publishers : sender[p].ev # NoEvent => sender[p].ev # stopper.ev
    BY DEF Parted
  <2>6. \A w \in Workers : ToCall(worker[w])'
    <3>. SUFFICES ASSUME NEW w \in Workers PROVE ToCall(worker[w])'
      OBVIOUS
    <3>1. ToCall(worker[w]) /\ worker'[w] = worker[w] /\ worker[w].todo \subseteq Handlers
      BY <1>4 DEF CallsOK
    <3>2. CASE worker[w].at \notin {"copy", "call"}
      BY <3>1, <3>2 DEF ToCall
    <3>3. CASE worker[w].at \in {"copy", "call"}
      <4>1. worker[w].ev \in Events /\ worker[w].ev # stopper.ev
        BY <2>4, <3>3
      <4>. HIDE DEF BusTypes, BusConstants, Tracked
      <4>2. \A g \in Handlers : calls'[g][worker[w].ev] = calls[g][worker[w].ev]
        BY <2>10, <4>1
      <4>. QED
        BY <3>1, <4>2 DEF ToCall, NotCalled
    <3>. QED
      BY <3>2, <3>3
  <2>7. \A p \in Publishers : ToCall(sender[p])'
    <3>. SUFFICES ASSUME NEW p \in Publishers PROVE ToCall(sender[p])'
      OBVIOUS
    <3>1. /\ ToCall(sender[p]) /\ sender'[p] = sender[p] /\ sender[p].todo \subseteq Handlers
          /\ sender[p].at # "copy"
      BY <1>4 DEF CallsOK, AtSender
    <3>2. CASE sender[p].at # "call"
      BY <3>1, <3>2 DEF ToCall
    <3>3. CASE sender[p].at = "call"
      <4>1. sender[p].ev \in Events /\ sender[p].ev # stopper.ev
        BY <2>5, <3>3
      <4>. HIDE DEF BusTypes, BusConstants, Tracked
      <4>2. \A g \in Handlers : calls'[g][sender[p].ev] = calls[g][sender[p].ev]
        BY <2>10, <4>1
      <4>. QED
        BY <3>1, <4>2 DEF ToCall
    <3>. QED
      BY <3>2, <3>3
  <2>8. ToCall(stopper)'
    BY <2>2, <2>3 DEF ToCall
  <2>9. \A g \in Handlers, f \in Events : calls'[g][f] <= 1
    BY <2>1 DEF CallsOK
  <2>. QED
    BY <2>6, <2>7, <2>8, <2>9 DEF CallsOK
<1>14. DoneOK'
  BY <1>1, <1>2, <1>3, <1>4 DEF DoneOK, HasCalled, Staying, Parted, CallsOK, ToCall
<1>15. DueOK'
  BY <1>1, <1>2, <1>3, <1>4, SMTT(30) DEF DueOK, Owed, Staying, DoneOK, HasCalled
<1>. QED
  BY <1>11, <1>12, <1>13, <1>14, <1>15

(* stop is called: it has to care for what is queued or at a worker.         *)
LEMMA StopCallStep ==
  ASSUME BusConstants, BusTypes, Tracked, StopCall
  PROVE  Tracked'
<1>. USE DEF Tracked, BusTypes, Thread, Carries, BusConstants
<1>1. stopper.ev = NoEvent /\ stopper.todo = {}
  BY DEF StopCall
<1>2. stopper' = [at |-> "drain", ev |-> NoEvent, todo |-> {}]
  BY DEF StopCall, Idle
<1>3. UNCHANGED <<queue, worker, sender, subs, sent, calls>>
  BY DEF StopCall
<1>4. due' = queue \cup ({worker[w].ev : w \in Workers} \ {NoEvent})
  BY DEF StopCall
<1>11. Parted'
  BY <1>1, <1>2, <1>3, <1>4 DEF Parted, Placed, Unheld
<1>12. Placed'
  BY <1>1, <1>2, <1>3, <1>4 DEF Parted, Placed, Unheld, NotCalled
<1>13. CallsOK'
  BY <1>1, <1>2, <1>3, <1>4 DEF CallsOK, ToCall, Placed, NotCalled, Unheld, Parted
<1>14. DoneOK'
  BY <1>1, <1>2, <1>3, <1>4 DEF DoneOK, HasCalled, Staying, Parted, CallsOK, ToCall
<1>15. DueOK'
  <2>1. due' \subseteq sent'
    <3>1. \A w \in Workers : worker[w].ev # NoEvent => worker[w].ev \in sent
      BY DEF Placed, Unheld
    <3>2. \A e \in queue : e \in sent
      BY DEF Placed
    <3>. HIDE DEF BusTypes, BusConstants
    <3>. QED
      BY <1>3, <1>4, <3>1, <3>2
  <2>2. ASSUME NEW h \in Staying, NEW e \in queue
        PROVE  Owed(h, e)'
    BY <1>3, <2>2 DEF Owed
  <2>3. ASSUME NEW h \in Staying, NEW w \in Workers, NEW e, e = worker[w].ev, e # NoEvent
        PROVE  Owed(h, e)'
    <3>1. calls[h][e] = 1 \/ worker[w].at = "copy" \/ h \in worker[w].todo
      BY <2>3 DEF DoneOK, HasCalled
    <3>. QED
      BY <1>3, <2>3, <3>1 DEF Owed
  <2>. QED
    <3>1. ASSUME NEW h \in Staying, NEW e \in due'
          PROVE  Owed(h, e)'
      <4>1. CASE e \in queue
        BY <2>2, <4>1
      <4>2. CASE e \notin queue
        <5>1. PICK w \in Workers : e = worker[w].ev /\ e # NoEvent
          BY <1>4, <4>2
        <5>. QED
          BY <2>3, <5>1, Zenon
      <4>. QED
        BY <4>1, <4>2
    <3>. QED
      BY <2>1, <3>1 DEF DueOK, Staying
<1>. QED
  BY <1>11, <1>12, <1>13, <1>14, <1>15

(* stop takes the first event of the queue.                                  *)
LEMMA DrainStep ==
  ASSUME BusConstants, BusTypes, Tracked, Drain, queue # {}
  PROVE  Tracked'
<1>. USE DEF Tracked, BusTypes, Thread, Carries, BusConstants
<1>1. Top \in queue
  BY TopQueued
<1>2. stopper.ev = NoEvent /\ stopper.todo = {}
  BY DEF Drain
<1>3. PICK e \in queue : stopper' = [at |-> "call", ev |-> e, todo |-> subs] /\ queue' = queue \ {e}
  BY <1>1 DEF Drain
<1>4. UNCHANGED <<worker, sender, subs, sent, due, calls>>
  BY DEF Drain
<1>11. Parted'
  BY <1>1, <1>2, <1>3, <1>4 DEF Parted, Placed, Unheld
<1>12. Placed'
  BY <1>1, <1>2, <1>3, <1>4 DEF Parted, Placed, Unheld, NotCalled
<1>13. CallsOK'
  BY <1>1, <1>2, <1>3, <1>4 DEF CallsOK, ToCall, Placed, NotCalled, Unheld, Parted
<1>14. DoneOK'
  BY <1>1, <1>2, <1>3, <1>4 DEF DoneOK, HasCalled, Staying, Parted, CallsOK, ToCall
<1>15. DueOK'
  BY <1>1, <1>2, <1>3, <1>4 DEF DueOK, Owed, Staying, DoneOK, HasCalled
<1>. QED
  BY <1>11, <1>12, <1>13, <1>14, <1>15

(* A handler that leaves is unsubscribed.                                    *)
LEMMA UnsubscribeStep ==
  ASSUME BusConstants, BusTypes, Tracked, NEW h \in Handlers, Unsubscribe(h)
  PROVE  Tracked'
<1>. USE DEF Tracked, BusTypes, Thread, Carries, BusConstants
<1>1. subs' = subs \ {h} /\ h \in Leaving
  BY DEF Unsubscribe
<1>2. UNCHANGED <<queue, worker, sender, stopper, sent, due, calls>>
  BY DEF Unsubscribe
<1>11. Parted'
  BY <1>1, <1>2 DEF Parted, Placed, Unheld
<1>12. Placed'
  BY <1>1, <1>2 DEF Parted, Placed, Unheld, NotCalled
<1>13. CallsOK'
  BY <1>1, <1>2 DEF CallsOK, ToCall, Placed, NotCalled, Unheld, Parted
<1>14. DoneOK'
  BY <1>1, <1>2 DEF DoneOK, HasCalled, Staying, Parted, CallsOK, ToCall
<1>15. DueOK'
  BY <1>1, <1>2 DEF DueOK, Owed, Staying, DoneOK, HasCalled
<1>. QED
  BY <1>11, <1>12, <1>13, <1>14, <1>15

(* The same when nothing enters the queue either.                            *)
LEMMA StillStep ==
  ASSUME BusConstants, BusTypes, Tracked,
         \A w \in Workers : Alike(worker'[w], worker[w]),
         \A p \in Publishers : Alike(sender'[p], sender[p]),
         Alike(stopper', stopper),
         UNCHANGED <<queue, sent, subs, due, calls>>
  PROVE  Tracked'
<1>1. {} \in SUBSET (Events \ sent) /\ queue' = queue \cup {} /\ sent' = sent \cup {}
  OBVIOUS
<1>. QED
  BY <1>1, QuietStep

(* Every step keeps track of every event.                                    *)
LEMMA TrackedStep ==
  ASSUME BusConstants, BusTypes, Tracked, BusNext
  PROVE  Tracked'
<1>. USE DEF BusTypes
<1>1. ASSUME NEW p \in Publishers, NEW e \in Events, Publish(p, e) PROVE Tracked'
  <2>1. CASE Cardinality(queue) >= MaxQueue
    BY <1>1, <2>1, StillStep DEF Publish, Alike
  <2>2. CASE ~(Cardinality(queue) >= MaxQueue)
    <3>1. /\ {e} \in SUBSET (Events \ sent)
          /\ queue' = queue \cup {e} /\ sent' = sent \cup {e}
          /\ sender' = [sender EXCEPT ![p].at = "notify"] /\ sender[p].at = "idle"
          /\ UNCHANGED <<worker, stopper, subs, due, calls>>
      BY <1>1, <2>2 DEF Publish
    <3>2. \A q \in Publishers : Alike(sender'[q], sender[q])
      BY <3>1 DEF Alike, Thread
    <3>. QED
      BY <3>1, <3>2, QuietStep DEF Alike
  <2>. QED
    BY <2>1, <2>2
<1>2. ASSUME NEW p \in Publishers, NEW b \in SUBSET Events, PublishBatch(p, b) PROVE Tracked'
  <2>1. PICK new \in SUBSET b : queue' = queue \cup new /\ sent' = sent \cup new
    BY <1>2 DEF PublishBatch
  <2>2. /\ new \in SUBSET (Events \ sent)
        /\ sender' = [sender EXCEPT ![p].at = "notify_all"] /\ sender[p].at = "idle"
        /\ UNCHANGED <<worker, stopper, subs, due, calls>>
    BY <1>2 DEF PublishBatch
  <2>3. \A q \in Publishers : Alike(sender'[q], sender[q])
    BY <2>2 DEF Alike, Thread
  <2>. QED
    BY <2>1, <2>2, <2>3, QuietStep DEF Alike
<1>3. ASSUME NEW p \in Publishers, NotifyOne(p) \/ NotifyAll(p) PROVE Tracked'
  <2>1. \A q \in Publishers : Alike(sender'[q], sender[q])
    BY <1>3 DEF NotifyOne, NotifyAll, Alike, Thread
  <2>2. \A w \in Workers : Alike(worker'[w], worker[w])
    <3>1. CASE NotifyOne(p)
      <4>1. UNCHANGED worker \/ \E v \in Workers : worker[v].at = "asleep" /\ worker' = [worker EXCEPT ![v].at = "test"]
        BY <3>1 DEF NotifyOne
      <4>. QED
        BY <4>1 DEF Alike, Thread
    <3>2. CASE NotifyAll(p)
      BY <3>2 DEF NotifyAll, Awake, Alike, Thread
    <3>. QED
      BY <1>3, <3>1, <3>2
  <2>3. UNCHANGED <<queue, sent, stopper, subs, due, calls>>
    BY <1>3 DEF NotifyOne, NotifyAll
  <2>. QED
    BY <2>1, <2>2, <2>3, StillStep DEF Alike
<1>4. ASSUME NEW w \in Workers, Loop(w) \/ Sleep(w) \/ (Test(w) /\ queue = {}) PROVE Tracked'
  <2>1. UNCHANGED <<queue, sent, sender, stopper, subs, due, calls>>
    BY <1>4 DEF Loop, Sleep, Test
  <2>2. PICK at \in {"test", "gone", "asleep", "doze"} : worker' = [worker EXCEPT ![w].at = at]
    BY <1>4 DEF Loop, Sleep, Test
  <2>3. worker[w].at \notin {"copy", "call"}
    BY <1>4 DEF Loop, Sleep, Test
  <2>4. \A v \in Workers : Alike(worker'[v], worker[v])
    BY <2>2, <2>3 DEF Alike, Thread
  <2>. QED
    BY <2>1, <2>4, StillStep DEF Alike
<1>5. ASSUME StopNotify \/ StopJoin \/ (Drain /\ queue = {}) PROVE Tracked'
  <2>1. UNCHANGED <<queue, sent, sender, subs, due, calls>>
    BY <1>5 DEF StopNotify, StopJoin, Drain
  <2>2. \A v \in Workers : Alike(worker'[v], worker[v])
    BY <1>5 DEF StopNotify, StopJoin, Drain, Awake, Alike, Thread
  <2>3. Alike(stopper', stopper)
    <3>1. stopper.at \in {"notify", "join", "drain"} /\ \E at \in {"join", "stopped", "notify"} : stopper' = Idle(at)
      BY <1>5 DEF StopNotify, StopJoin, Drain
    <3>. QED
      BY <3>1 DEF Alike, Idle, Carries, Thread
  <2>. QED
    BY <2>1, <2>2, <2>3, StillStep DEF Alike
<1>6. ASSUME NEW w \in Workers, Test(w) PROVE Tracked'
  BY <1>4, <1>6, TakeStep
<1>7. ASSUME Drain PROVE Tracked'
  BY <1>5, <1>7, DrainStep
<1>. HIDE DEF BusTypes
<1>9. ASSUME NEW w \in Workers, Loop(w) \/ Test(w) \/ Sleep(w) \/ Copy(w) \/ WorkerDone(w)
      PROVE  Tracked'
  <2>1. CASE Loop(w) \/ Sleep(w)
    BY <1>4, <2>1, Zenon
  <2>2. CASE Test(w)
    BY <1>6, <2>2, Zenon
  <2>3. CASE Copy(w)
    BY <2>3, CopyStep
  <2>4. CASE WorkerDone(w)
    BY <2>4, WorkerDoneStep
  <2>. QED
    BY <1>9, <2>1, <2>2, <2>3, <2>4
<1>10. CASE \E p \in Publishers : NotifyOne(p) \/ NotifyAll(p) \/ \E h \in Handlers : SenderCalls(p, h)
  BY <1>3, <1>10, SenderCallsStep
<1>. QED
  <2>1. CASE \E p \in Publishers, e \in Events : Publish(p, e) \/ PublishSync(p, e)
    BY <1>1, <2>1, SyncStep
  <2>2. CASE \E h \in Handlers : Unsubscribe(h) \/ StopperCalls(h)
    BY <2>2, UnsubscribeStep, StopperCallsStep
  <2>3. CASE StopCall \/ Drain \/ StopNotify \/ StopJoin
    BY <1>5, <1>7, <2>3, StopCallStep, Zenon
  <2>4. CASE \E w \in Workers, h \in Handlers : WorkerCalls(w, h)
    BY <2>4, WorkerCallsStep
  <2>. QED
    BY <1>2, <1>9, <1>10, <2>1, <2>2, <2>3, <2>4, Zenon DEF BusNext

(* Every step keeps what holds once stop has drained the queue.              *)
LEMMA EndStep ==
  ASSUME BusConstants, BusTypes, Placed, DueOK, EndOK, BusNext
  PROVE  EndOK'
<1>. USE DEF EndOK, BusTypes, Thread
<1>1. ASSUME NEW p \in Publishers, NEW e \in Events, Publish(p, e) PROVE EndOK'
  <2>1. stopper' = stopper /\ worker' = worker /\ due' = due /\ queue' \subseteq queue \cup {e} /\ e \notin due
    BY <1>1 DEF Publish, DueOK
  <2>. QED
    BY <2>1
<1>2. ASSUME NEW p \in Publishers, NEW e \in Events, PublishSync(p, e) PROVE EndOK'
  BY <1>2 DEF PublishSync
<1>3. ASSUME NEW p \in Publishers, NEW b \in SUBSET Events, PublishBatch(p, b) PROVE EndOK'
  <2>1. stopper' = stopper /\ worker' = worker /\ due' = due
    BY <1>3 DEF PublishBatch
  <2>2. queue' \subseteq queue \cup b
    BY <1>3 DEF PublishBatch
  <2>3. b \cap due = {}
    BY <1>3 DEF PublishBatch, DueOK
  <2>. QED
    BY <2>1, <2>2, <2>3
<1>4. ASSUME NEW p \in Publishers, NotifyOne(p) PROVE EndOK'
  BY <1>4 DEF NotifyOne
<1>5. ASSUME NEW p \in Publishers, NotifyAll(p) PROVE EndOK'
  BY <1>5 DEF NotifyAll, Awake
<1>6. ASSUME NEW p \in Publishers, NEW h \in Handlers, SenderCalls(p, h) PROVE EndOK'
  BY <1>6 DEF SenderCalls, Called, Idle
<1>7. ASSUME NEW w \in Workers, Loop(w) PROVE EndOK'
  BY <1>7 DEF Loop
<1>8. ASSUME NEW w \in Workers, Test(w) PROVE EndOK'
  BY <1>8 DEF Test
<1>9. ASSUME NEW w \in Workers, Sleep(w) PROVE EndOK'
  BY <1>9 DEF Sleep
<1>10. ASSUME NEW w \in Workers, Copy(w) PROVE EndOK'
  BY <1>10 DEF Copy
<1>11. ASSUME NEW w \in Workers, WorkerDone(w) PROVE EndOK'
  BY <1>11 DEF WorkerDone, Idle
<1>12. ASSUME NEW w \in Workers, NEW h \in Handlers, WorkerCalls(w, h) PROVE EndOK'
  BY <1>12 DEF WorkerCalls, Called
<1>13. ASSUME NEW h \in Handlers, Unsubscribe(h) PROVE EndOK'
  BY <1>13 DEF Unsubscribe
<1>14. ASSUME NEW h \in Handlers, StopperCalls(h) PROVE EndOK'
  BY <1>14 DEF StopperCalls, Called, Idle
<1>15. ASSUME StopCall PROVE EndOK'
  BY <1>15 DEF StopCall, Idle
<1>16. ASSUME Drain PROVE EndOK'
  BY <1>16 DEF Drain, Idle
<1>17. ASSUME StopNotify PROVE EndOK'
  BY <1>17 DEF StopNotify, Idle, Awake
<1>18. ASSUME StopJoin PROVE EndOK'
  BY <1>18 DEF StopJoin, Idle
<1>. QED
  BY <1>1, <1>2, <1>3, <1>4, <1>5, <1>6, <1>7, <1>8, <1>9, <1>10, <1>11, <1>12, <1>13, <1>14, <1>15, <1>16, <1>17, <1>18, Zenon DEF BusNext

(* stop(true) loses nothing and repeats nothing: when it has returned, every *)
(* handler that stays subscribed was called exactly once with each event     *)
(* that was queued or at a worker when stop was called, and no handler is    *)
(* ever called twice with an event, whoever dispatches it.                   *)
THEOREM StopDrains ==
  ASSUME BusConstants
  PROVE  BusSpec => []Drained
<1>1. BusInit => DrainInv
  BY DrainInit
<1>2. DrainInv /\ [BusNext]_busVars => DrainInv'
  <2>. SUFFICES ASSUME DrainInv, [BusNext]_busVars PROVE DrainInv'
    OBVIOUS
  <2>1. CASE BusNext
    BY <2>1, TypesStep, TrackedStep, EndStep DEF DrainInv, Tracked
  <2>2. CASE UNCHANGED busVars
    BY <2>2 DEF busVars, DrainInv, BusTypes, Carries, Tracked, Parted, Placed, NotCalled, Unheld, CallsOK,
       ToCall, DoneOK, HasCalled, DueOK, Owed, EndOK
  <2>. QED
    BY <2>1, <2>2
<1>3. DrainInv => Drained
  <2>. SUFFICES ASSUME DrainInv PROVE Drained
    OBVIOUS
  <2>. USE DEF DrainInv, Tracked, BusTypes
  <2>1. ASSUME stopper.at = "stopped", NEW h \in Staying, NEW e \in due
        PROVE  calls[h][e] = 1
    <3>1. /\ e \notin queue /\ e \in Events
          /\ \A w \in Workers : worker[w].ev = NoEvent /\ worker[w].todo = {}
          /\ stopper.todo = {}
      BY <2>1 DEF EndOK, DueOK, Carries
    <3>2. Owed(h, e)
      BY DEF DueOK
    <3>3. e # NoEvent
      BY <3>1 DEF BusConstants
    <3>. QED
      BY <3>1, <3>2, <3>3 DEF Owed
  <2>2. \A h \in Handlers, e \in Events : calls[h][e] <= 1
    BY DEF CallsOK
  <2>. QED
    BY <2>1, <2>2 DEF Drained, Staying
<1>. QED
  BY <1>1, <1>2, <1>3, PTL DEF BusSpec

-----------------------------------------------------------------------------
(* Lifecycle.                                                                *)

(* What the sweeps note of themselves is not an instrument.                  *)
LifeConstants ==
  /\ {"all", "again"} \cap Instruments = {}
  /\ MaxPosts \in Nat

Desk     == [at : {"idle", "checked", "found"}, job : Jobs \cup {NoJob}, posts : Nat]

(* The types of the mover's variables.                                       *)
MoverTypes ==
  /\ mode \in {"unset", "sharded", "single"}
  /\ workers \in [Keys -> Worker]
  /\ poster \in [Posters -> Desk]
  /\ shut \in [at : {"open", "called", "stopping", "joined"}, copied : SUBSET Keys]

(* A worker has the jobs of its own instruments, one of them while it runs.  *)
OwnJobs(k) ==
  /\ \A n \in 1 .. Len(workers[k].queue) : KeyOf(InstrumentOf(workers[k].queue[n])) = k
  /\ workers[k].at = "running" => workers[k].job \in Jobs /\ KeyOf(InstrumentOf(workers[k].job)) = k
  /\ workers[k].at # "running" => workers[k].job = NoJob
  /\ workers[k].at = "none" => workers[k].queue = <<>>

(* A poster that has found its worker has started it, and the mover is       *)
(* sharded or not from the first worker on.                                  *)
Found(p) ==
  /\ poster[p].at # "idle" => poster[p].job \in Jobs
  /\ poster[p].at = "found" =>
       mode # "unset" /\ workers[KeyOf(InstrumentOf(poster[p].job))].at # "none"
MoverOK ==
  /\ \A k \in Keys : OwnJobs(k) /\ (mode = "unset" => workers[k].at = "none")
  /\ \A p \in Posters : Found(p)

(* The workers that shutdown has seen are gone once it has joined them.      *)
JoinOK ==
  /\ shut.at = "joined" => \A k \in shut.copied : workers[k].at = "gone"
  /\ \A k \in shut.copied : workers[k].at # "none"
MoverInv == MoverTypes /\ MoverOK /\ JoinOK

-----------------------------------------------------------------------------
(* The mover's queue is empty at the start.                                  *)
LEMMA MoverStart ==
  ASSUME MoverInit
  PROVE  MoverInv
<1>1. NoWorker \in Worker
  BY DEF NoWorker, Worker
<1>2. MoverTypes
  BY <1>1 DEF MoverInit, MoverTypes, Desk
<1>3. MoverOK
  BY DEF MoverInit, MoverOK, OwnJobs, Found, NoWorker
<1>4. JoinOK
  BY DEF MoverInit, JoinOK
<1>. QED
  BY <1>2, <1>3, <1>4 DEF MoverInv

(* A worker and a poster that are as their types say.                        *)
LEMMA MoverParts ==
  ASSUME MoverTypes
  PROVE  /\ \A k \in Keys : /\ workers[k] \in Worker /\ workers[k].queue \in Seq(Jobs)
                            /\ workers[k].job \in Jobs \cup {NoJob} /\ workers[k].stop \in BOOLEAN
                            /\ workers[k].at \in {"none", "waiting", "running", "gone"}
         /\ \A p \in Posters : /\ poster[p] \in Desk /\ poster[p].posts \in Nat
                               /\ poster[p].job \in Jobs \cup {NoJob}
         /\ \A j \in Jobs : InstrumentOf(j) \in Instruments /\ KeyOf(InstrumentOf(j)) \in Keys
BY DEF MoverTypes, Worker, Desk, Jobs, InstrumentOf, KeyOf, Keys

(* A post is started: the job is of the poster's own.                        *)
LEMMA PostCheckStep ==
  ASSUME LifeConstants, MoverInv, NEW p \in Posters, NEW i \in Instruments, PostCheck(p, i)
  PROVE  MoverInv'
<1>. USE DEF MoverInv
<1>. DEFINE n == poster[p].posts + 1
            j == <<i, p, n>>
<1>1. /\ poster' = [poster EXCEPT ![p] = [at |-> "checked", job |-> j, posts |-> n]]
      /\ poster[p].posts < MaxPosts
      /\ UNCHANGED <<mode, workers, shut>>
  BY DEF PostCheck
<1>2. j \in Jobs /\ n \in Nat
  BY <1>1, MoverParts DEF LifeConstants, Jobs
<1>. HIDE DEF j, n
<1>3. MoverTypes'
  BY <1>1, <1>2 DEF MoverTypes, Desk
<1>4. \A q \in Posters : Found(q)'
  <2>1. poster'[p].at = "checked" /\ poster'[p].job = j
    BY <1>1 DEF MoverTypes
  <2>2. \A q \in Posters \ {p} : poster'[q] = poster[q]
    BY <1>1 DEF MoverTypes
  <2>. QED
    BY <1>1, <1>2, <2>1, <2>2 DEF MoverOK, Found, KeyOf
<1>5. MoverOK' /\ JoinOK'
  BY <1>1, <1>4 DEF MoverOK, JoinOK, OwnJobs, KeyOf
<1>. QED
  BY <1>3, <1>5

(* The mover is sharded, or not, before it has a worker.                     *)
LEMMA ShardingStep ==
  ASSUME MoverInv, ShardingResolve
  PROVE  MoverInv'
<1>. USE DEF MoverInv
<1>1. mode = "unset" /\ mode' \in {"sharded", "single"} /\ UNCHANGED <<workers, poster, shut>>
  BY DEF ShardingResolve
<1>2. \A k \in Keys : workers[k].at = "none" /\ workers[k].queue = <<>>
  BY <1>1 DEF MoverOK, OwnJobs
<1>3. MoverTypes' /\ JoinOK'
  BY <1>1 DEF MoverTypes, JoinOK
<1>4. MoverOK'
  BY <1>1, <1>2 DEF MoverOK, OwnJobs, Found
<1>. QED
  BY <1>3, <1>4

(* A worker changes and the posters do not.                                  *)
LEMMA WorkerChanged ==
  ASSUME MoverInv, NEW k \in Keys, NEW new \in Worker,
         workers' = [workers EXCEPT ![k] = new],
         UNCHANGED <<mode, shut>>, mode # "unset",
         poster' = poster, new.at # "none", workers[k].at \in {"gone"} => new.at = "gone",
         \A m \in 1 .. Len(new.queue) : KeyOf(InstrumentOf(new.queue[m])) = k,
         new.at = "running" => new.job \in Jobs /\ KeyOf(InstrumentOf(new.job)) = k,
         new.at # "running" => new.job = NoJob
  PROVE  MoverInv'
<1>. USE DEF MoverInv
<1>1. MoverTypes'
  BY DEF MoverTypes
<1>2. workers'[k] = new /\ \A l \in Keys \ {k} : workers'[l] = workers[l]
  BY DEF MoverTypes
<1>3. \A l \in Keys : workers[l].at # "none" => workers'[l].at # "none"
  BY <1>2
<1>4. \A l \in Keys : OwnJobs(l)'
  BY <1>2 DEF OwnJobs, MoverOK, KeyOf
<1>5. \A p \in Posters : Found(p)'
  <2>1. SUFFICES ASSUME NEW p \in Posters
                 PROVE  Found(p)'
    OBVIOUS
  <2>2. poster[p].at = "found" => KeyOf(InstrumentOf(poster[p].job)) \in Keys
    BY MoverParts DEF MoverOK, Found
  <2>. QED
    BY <1>3, <2>2 DEF Found, MoverOK, KeyOf
<1>6. JoinOK'
  <2>1. shut.copied \subseteq Keys
    BY DEF MoverTypes
  <2>. QED
    BY <1>2, <1>3, <2>1 DEF JoinOK
<1>. QED
  BY <1>1, <1>4, <1>5, <1>6 DEF MoverOK

(* A poster looks its worker up, or starts it.                               *)
LEMMA WorkerForStep ==
  ASSUME MoverInv, NEW p \in Posters, WorkerFor(p)
  PROVE  MoverInv'
<1>. USE DEF MoverInv
<1>. DEFINE j == poster[p].job
            k == KeyOf(InstrumentOf(j))
<1>1. /\ poster[p].at = "checked" /\ mode # "unset" /\ UNCHANGED <<mode, shut>>
      /\ poster' = [poster EXCEPT ![p].at = "found"]
      /\ workers' = IF workers[k].at = "none" THEN [workers EXCEPT ![k].at = "waiting"] ELSE workers
  BY DEF WorkerFor
<1>2. j \in Jobs /\ k \in Keys
  BY <1>1, MoverParts DEF MoverOK, Found
<1>3. /\ poster'[p].at = "found" /\ poster'[p].job = j
      /\ poster' \in [Posters -> Desk]
      /\ \A q \in Posters \ {p} : poster'[q] = poster[q]
  BY <1>1 DEF MoverTypes, Desk
<1>. HIDE DEF j, k
<1>4. /\ workers' \in [Keys -> Worker] /\ workers'[k].at # "none"
      /\ \A l \in Keys : /\ workers'[l].queue = workers[l].queue /\ workers'[l].job = workers[l].job
                         /\ workers[l].at # "none" => workers'[l] = workers[l]
                         /\ workers'[l].at # workers[l].at => l = k /\ workers'[l].at = "waiting"
                         /\ workers'[l].at = "none" => workers[l].at = "none"
  <2>1. CASE workers[k].at = "none"
    <3>1. workers' = [workers EXCEPT ![k].at = "waiting"]
      BY <1>1, <2>1
    <3>2. workers'[k] = [workers[k] EXCEPT !.at = "waiting"] /\ workers[k] \in Worker
      BY <1>2, <3>1 DEF MoverTypes
    <3>3. \A l \in Keys \ {k} : workers'[l] = workers[l]
      BY <3>1 DEF MoverTypes
    <3>4. /\ workers'[k] \in Worker /\ workers'[k].at = "waiting"
          /\ workers'[k].queue = workers[k].queue /\ workers'[k].job = workers[k].job
      BY <3>2 DEF Worker
    <3>. QED
      BY <1>2, <2>1, <3>1, <3>3, <3>4 DEF MoverTypes
  <2>2. CASE workers[k].at # "none"
    BY <1>1, <2>2 DEF MoverTypes
  <2>. QED
    BY <2>1, <2>2
<1>5. MoverTypes'
  BY <1>1, <1>3, <1>4 DEF MoverTypes
<1>6. \A l \in Keys : OwnJobs(l)'
  BY <1>1, <1>4 DEF MoverOK, OwnJobs, KeyOf
<1>7. \A q \in Posters : Found(q)'
  <2>1. SUFFICES ASSUME NEW q \in Posters
                 PROVE  Found(q)'
    OBVIOUS
  <2>2. KeyOf(InstrumentOf(j))' = k
    BY <1>1, <1>2 DEF k, j, KeyOf
  <2>3. CASE q = p
    BY <1>1, <1>2, <1>3, <1>4, <2>2, <2>3 DEF Found, KeyOf, k
  <2>4. CASE q # p
    <3>1. poster'[q] = poster[q] /\ Found(q)
      BY <1>3, <2>4 DEF MoverOK
    <3>2. poster[q].at = "found" => KeyOf(InstrumentOf(poster[q].job)) \in Keys
      BY <3>1, MoverParts DEF Found
    <3>. QED
      BY <1>1, <1>4, <3>1, <3>2 DEF Found, KeyOf
  <2>. QED
    BY <2>3, <2>4
<1>8. JoinOK'
  BY <1>1, <1>4 DEF JoinOK, MoverTypes
<1>. QED
  BY <1>1, <1>5, <1>6, <1>7, <1>8 DEF MoverOK

(* A poster puts its job at the end of its worker's queue.                   *)
LEMMA PostPushStep ==
  ASSUME MoverInv, NEW p \in Posters, PostPush(p)
  PROVE  MoverInv'
<1>. USE DEF MoverInv
<1>. DEFINE j == poster[p].job
            k == KeyOf(InstrumentOf(j))
            new == [workers[k] EXCEPT !.queue = Append(@, j)]
<1>1. /\ poster[p].at = "found" /\ UNCHANGED <<mode, shut>>
      /\ poster' = [poster EXCEPT ![p].at = "idle", ![p].job = NoJob]
      /\ workers' = [workers EXCEPT ![k].queue = Append(@, j)]
  BY DEF PostPush
<1>2. j \in Jobs /\ k \in Keys /\ workers[k].at # "none" /\ mode # "unset"
  BY <1>1, MoverParts DEF MoverOK, Found
<1>3. workers[k] \in Worker /\ workers[k].queue \in Seq(Jobs)
  BY <1>2, MoverParts
<1>4. workers' = [workers EXCEPT ![k] = new]
  BY <1>1, <1>2, <1>3 DEF MoverTypes
<1>5. /\ new \in Worker /\ new.at = workers[k].at /\ new.job = workers[k].job
      /\ new.queue = Append(workers[k].queue, j)
  BY <1>2, <1>3, SMTT(30) DEF Worker
<1>6. \A m \in 1 .. Len(new.queue) : KeyOf(InstrumentOf(new.queue[m])) = k
  <2>1. \A m \in 1 .. Len(workers[k].queue) : KeyOf(InstrumentOf(workers[k].queue[m])) = k
    BY <1>2 DEF MoverOK, OwnJobs
  <2>. HIDE DEF k, j, new
  <2>2. KeyOf(InstrumentOf(j)) = k
    BY DEF k
  <2>. QED
    BY <1>3, <1>5, <2>1, <2>2
<1>7. /\ new.at = "running" => new.job \in Jobs /\ KeyOf(InstrumentOf(new.job)) = k
      /\ new.at # "running" => new.job = NoJob
  BY <1>2, <1>5 DEF MoverOK, OwnJobs
<1>. HIDE DEF k, j, new
<1>8. /\ poster' \in [Posters -> Desk] /\ poster'[p].at = "idle"
      /\ \A q \in Posters \ {p} : poster'[q] = poster[q]
  BY <1>1 DEF MoverTypes, Desk
<1>9. workers' \in [Keys -> Worker] /\ workers'[k] = new
      /\ \A l \in Keys \ {k} : workers'[l] = workers[l]
  BY <1>2, <1>4, <1>5 DEF MoverTypes
<1>10. MoverTypes'
  BY <1>1, <1>8, <1>9 DEF MoverTypes
<1>11. \A l \in Keys : OwnJobs(l)'
  BY <1>1, <1>2, <1>5, <1>6, <1>7, <1>9 DEF OwnJobs, MoverOK, KeyOf
<1>12. \A q \in Posters : Found(q)'
  <2>1. SUFFICES ASSUME NEW q \in Posters, q # p
                 PROVE  Found(q)'
    BY <1>8 DEF Found
  <2>2. poster[q].at = "found" => KeyOf(InstrumentOf(poster[q].job)) \in Keys
    BY MoverParts DEF MoverOK, Found
  <2>. QED
    BY <1>1, <1>2, <1>5, <1>8, <1>9, <2>1, <2>2 DEF Found, MoverOK, KeyOf
<1>13. JoinOK'
  BY <1>1, <1>2, <1>5, <1>9 DEF JoinOK, MoverTypes
<1>. QED
  BY <1>1, <1>2, <1>10, <1>11, <1>12, <1>13 DEF MoverOK

(* What the worker's thread does.                                            *)
LEMMA WorkerThreadStep ==
  ASSUME MoverInv, NEW k \in Keys, Take(k) \/ Finish(k) \/ Leave(k)
  PROVE  MoverInv'
<1>. USE DEF MoverInv
<1>1. workers[k] \in Worker /\ workers[k].queue \in Seq(Jobs)
  BY MoverParts
<1>2. workers[k].at # "none" => mode # "unset"
  BY DEF MoverOK
<1>3. CASE Take(k)
  <2>. DEFINE new == [workers[k] EXCEPT !.at = "running", !.queue = Tail(@), !.job = Head(workers[k].queue)]
  <2>1. /\ workers[k].at = "waiting" /\ workers[k].queue # <<>>
        /\ workers' = [workers EXCEPT ![k] = new] /\ UNCHANGED <<mode, poster, shut>>
    BY <1>1, <1>3 DEF Take, MoverTypes
  <2>2. /\ Head(workers[k].queue) \in Jobs /\ Head(workers[k].queue) = workers[k].queue[1]
        /\ Tail(workers[k].queue) \in Seq(Jobs)
        /\ Len(Tail(workers[k].queue)) = Len(workers[k].queue) - 1
        /\ \A m \in 1 .. Len(workers[k].queue) - 1 : Tail(workers[k].queue)[m] = workers[k].queue[m + 1]
        /\ Len(workers[k].queue) \in Nat /\ 1 <= Len(workers[k].queue)
    BY <1>1, <2>1
  <2>3. /\ new \in Worker /\ new.at = "running" /\ new.queue = Tail(workers[k].queue)
        /\ new.job = Head(workers[k].queue)
    BY <1>1, <2>2 DEF Worker
  <2>4. \A m \in 1 .. Len(workers[k].queue) : KeyOf(InstrumentOf(workers[k].queue[m])) = k
    BY DEF MoverOK, OwnJobs
  <2>. HIDE DEF new
  <2>5. \A m \in 1 .. Len(new.queue) : KeyOf(InstrumentOf(new.queue[m])) = k
    BY <2>2, <2>3, <2>4
  <2>6. KeyOf(InstrumentOf(new.job)) = k
    BY <2>2, <2>3, <2>4
  <2>. QED
    BY <1>2, <2>1, <2>2, <2>3, <2>5, <2>6, WorkerChanged
<1>4. CASE Finish(k)
  <2>. DEFINE new == [workers[k] EXCEPT !.at = "waiting", !.job = NoJob]
  <2>1. /\ workers[k].at = "running"
        /\ workers' = [workers EXCEPT ![k] = new] /\ UNCHANGED <<mode, poster, shut>>
    BY <1>1, <1>4 DEF Finish, MoverTypes
  <2>2. new \in Worker /\ new.at = "waiting" /\ new.queue = workers[k].queue /\ new.job = NoJob
    BY <1>1 DEF Worker
  <2>3. \A m \in 1 .. Len(workers[k].queue) : KeyOf(InstrumentOf(workers[k].queue[m])) = k
    BY DEF MoverOK, OwnJobs
  <2>. HIDE DEF new
  <2>. QED
    BY <1>2, <2>1, <2>2, <2>3, WorkerChanged
<1>5. CASE Leave(k)
  <2>. DEFINE new == [workers[k] EXCEPT !.at = "gone"]
  <2>1. /\ workers[k].at = "waiting"
        /\ workers' = [workers EXCEPT ![k] = new] /\ UNCHANGED <<mode, poster, shut>>
    BY <1>1, <1>5 DEF Leave, MoverTypes
  <2>2. new \in Worker /\ new.at = "gone" /\ new.queue = workers[k].queue /\ new.job = workers[k].job
    BY <1>1 DEF Worker
  <2>3. /\ \A m \in 1 .. Len(workers[k].queue) : KeyOf(InstrumentOf(workers[k].queue[m])) = k
        /\ workers[k].job = NoJob
    BY <2>1 DEF MoverOK, OwnJobs
  <2>. HIDE DEF new
  <2>. QED
    BY <1>2, <2>1, <2>2, <2>3, WorkerChanged
<1>. QED
  BY <1>3, <1>4, <1>5

(* Shutdown copies the table, stops the workers of the copy and joins them.  *)
LEMMA ShutStep ==
  ASSUME MoverInv, \/ ShutCall \/ ShutCopy \/ ShutJoin
                   \/ \E k \in Keys : ShutStop(k)
  PROVE  MoverInv'
<1>. USE DEF MoverInv
<1>1. CASE ShutCall \/ ShutCopy \/ ShutJoin
  <2>1. UNCHANGED <<mode, workers, poster>>
    BY <1>1 DEF ShutCall, ShutCopy, ShutJoin
  <2>2. MoverTypes' /\ JoinOK'
    BY <1>1, <2>1 DEF ShutCall, ShutCopy, ShutJoin, MoverTypes, JoinOK
  <2>3. MoverOK'
    BY <2>1 DEF MoverOK, OwnJobs, Found, KeyOf
  <2>. QED
    BY <2>2, <2>3
<1>2. ASSUME NEW k \in Keys, ShutStop(k)
      PROVE  MoverInv'
  <2>. DEFINE new == [workers[k] EXCEPT !.stop = TRUE, !.queue = <<>>]
  <2>1. workers[k] \in Worker
    BY MoverParts
  <2>2. /\ workers[k].at # "none" /\ mode # "unset"
        /\ workers' = [workers EXCEPT ![k] = new] /\ UNCHANGED <<mode, poster, shut>>
    BY <1>2, <2>1 DEF ShutStop, MoverTypes, JoinOK, MoverOK
  <2>3. <<>> \in Seq(Jobs)
    OBVIOUS
  <2>4. new \in Worker /\ new.at = workers[k].at /\ new.queue = <<>> /\ new.job = workers[k].job
    BY <2>1, <2>3 DEF Worker
  <2>5. OwnJobs(k)
    BY DEF MoverOK
  <2>. HIDE DEF new
  <2>6. \A m \in 1 .. Len(new.queue) : KeyOf(InstrumentOf(new.queue[m])) = k
    BY <2>4
  <2>7. /\ new.at = "running" => new.job \in Jobs /\ KeyOf(InstrumentOf(new.job)) = k
        /\ new.at # "running" => new.job = NoJob
    BY <2>4, <2>5 DEF OwnJobs
  <2>. QED
    BY <2>2, <2>4, <2>6, <2>7, WorkerChanged
<1>. QED
  BY <1>1, <1>2

-----------------------------------------------------------------------------
(* A job that has been let through is a job that runs.                       *)
TaskOK ==
  /\ task \in [Keys -> {"new", "send", "file"}]
  /\ \A k \in Keys : task[k] # "new" => workers[k].at = "running"

(* From the sweeps on the mover has been joined, and in the process that     *)
(* runs the program counter is where it says.                                *)
Sweeping == {"symbols", "recheck", "feed", "teardown", "return", "exit"}
StageOK ==
  /\ life.at \in Sweeping \cup {"strategies"} => shut.at = "joined"
  /\ life.run \in Nat /\ life.step \in Nat

(* What a sweep was for does not rest unless it was placed since, by a       *)
(* worker started too late.                                                  *)
PlacedLate(o) == o[1] = life.run /\ mode # "unset" /\ KeyOf(InstrumentOf(o[2])) \in Late
Swept ==
  life.at \in Sweeping =>
    \A o \in venue : \/ life.ok \cap {"all", "again", InstrumentOf(o[2])} = {}
                     \/ PlacedLate(o)

(* What an earlier process left rests, from the clean slate on, only if its  *)
(* cancel failed, or the venue could not be asked.                           *)
Cleaned ==
  \/ life.at \in {"register", "ready", "loop"}
  \/ life.at = "startup" /\ life.step >= 11
SlateOK ==
  /\ life.at = "slate" =>
       \A o \in venue : o[1] < life.run => o \in life.todo \cup life.kept \/ ~ life.listed
  /\ Cleaned => \A o \in venue : o[1] < life.run => o \in life.kept \/ ~ life.listed

LifeShape == life = [at |-> life.at, step |-> life.step, run |-> life.run,
                     configured |-> life.configured, todo |-> life.todo, ok |-> life.ok,
                     kept |-> life.kept, listed |-> life.listed, running |-> life.running,
                     feed |-> life.feed]

(* The inductive invariant behind SweptFlat and Inherited.                   *)
LifeInv == MoverInv /\ TaskOK /\ LifeShape /\ StageOK /\ Swept /\ SlateOK

-----------------------------------------------------------------------------
(* The first process starts with nothing at the venue.                       *)
LEMMA LifeStart ==
  ASSUME LifeInit
  PROVE  LifeInv
<1>1. MoverInv
  BY MoverStart DEF LifeInit
<1>2. /\ life.at = "startup" /\ life.step = 1 /\ life.run = 1 /\ venue = {}
      /\ LifeShape
  BY DEF LifeInit, LifeShape
<1>3. TaskOK
  BY DEF LifeInit, TaskOK
<1>4. StageOK /\ Swept /\ SlateOK
  BY <1>2 DEF StageOK, Swept, SlateOK, Cleaned, Sweeping
<1>. QED
  BY <1>1, <1>2, <1>3, <1>4 DEF LifeInv

(* What may rest in a process that has just cleaned the slate, or is about   *)
(* to.                                                                       *)
Inherits(o, gone) == o[1] < life.run => o \in gone \cup life.kept \/ ~ life.listed

(* Main goes on, and cancels at most. Where it arrives at the sweeps the     *)
(* mover has been joined, and a sweep that succeeds leaves nothing of what   *)
(* it was for.                                                               *)
LEMMA MainStep ==
  ASSUME LifeInv, UNCHANGED <<moverVars, task>>, LifeShape', venue' \subseteq venue,
         life'.run = life.run, life'.step \in Nat,
         life'.at \in Sweeping \cup {"strategies"} => life.at \in Sweeping \cup {"strategies"},
         life'.at \in Sweeping =>
           \/ life'.ok = {}
           \/ /\ life.at \in Sweeping
              /\ \A o \in venue' : life'.ok \cap {"all", "again", InstrumentOf(o[2])} \subseteq life.ok,
         life'.at = "slate" => \A o \in venue' : Inherits(o, life.todo)',
         Cleaned' => \A o \in venue' : Inherits(o, {})'
  PROVE  LifeInv'
<1>. USE DEF LifeInv
<1>1. UNCHANGED <<mode, workers, poster, shut, task>>
  BY DEF moverVars
<1>2. MoverInv' /\ TaskOK'
  BY <1>1 DEF MoverInv, MoverTypes, MoverOK, JoinOK, OwnJobs, Found, KeyOf, TaskOK
<1>3. StageOK'
  BY <1>1 DEF StageOK
<1>4. Swept'
  BY <1>1 DEF Swept, PlacedLate, Late, KeyOf
<1>5. SlateOK'
  BY DEF SlateOK, Inherits
<1>. QED
  BY <1>2, <1>3, <1>4, <1>5

(* A step of the start-up ends, well or not.                                 *)
LEMMA OutcomeStep ==
  ASSUME LifeInv, life.at = "startup", NEW ok \in BOOLEAN, Outcome(ok),
         UNCHANGED <<moverVars, task, venue>>
  PROVE  LifeInv'
<1>. USE DEF LifeInv
<1>1. \/ life' = [life EXCEPT !.at = "legs", !.step = 0]
      \/ life.step = 10 /\ life' = [life EXCEPT !.at = "listing"]
      \/ life.step = 23 /\ life' = [life EXCEPT !.at = "register", !.step = 0]
      \/ life.step \notin {10, 23} /\ life' = [life EXCEPT !.step = StepAfter(@)]
  BY DEF Outcome, Goto
<1>2. life.step \in Nat /\ StepAfter(life.step) \in Nat
  BY DEF StageOK, StepAfter
<1>3. /\ LifeShape' /\ life'.run = life.run /\ life'.kept = life.kept /\ life'.listed = life.listed
      /\ \/ life'.at = "legs" /\ life'.step = 0
         \/ life'.at = "listing" /\ life'.step = life.step
         \/ life'.at = "register" /\ life'.step = 0 /\ life.step = 23
         \/ life'.at = "startup" /\ life'.step = StepAfter(life.step) /\ life.step \notin {10, 23}
  <2>1. LifeShape
    OBVIOUS
  <2>2. CASE life' = [life EXCEPT !.at = "legs", !.step = 0]
    BY <2>1, <2>2 DEF LifeShape
  <2>3. CASE life' = [life EXCEPT !.at = "listing"]
    BY <2>1, <2>3 DEF LifeShape
  <2>4. CASE life.step = 23 /\ life' = [life EXCEPT !.at = "register", !.step = 0]
    BY <2>1, <2>4 DEF LifeShape
  <2>5. CASE life.step \notin {10, 23} /\ life' = [life EXCEPT !.step = StepAfter(@)]
    BY <2>1, <2>5 DEF LifeShape
  <2>. QED
    BY <1>1, <2>2, <2>3, <2>4, <2>5
<1>4. Cleaned' => Cleaned
  BY <1>2, <1>3 DEF Cleaned, StepAfter
<1>5. Cleaned' => \A o \in venue' : Inherits(o, {})'
  BY <1>3, <1>4 DEF SlateOK, Inherits
<1>6. life'.at \notin Sweeping \cup {"strategies", "slate"}
  BY <1>3 DEF Sweeping
<1>7. life'.step \in Nat
  BY <1>2, <1>3
<1>. QED
  BY <1>3, <1>5, <1>6, <1>7, MainStep DEF Sweeping

(* The start-up.                                                             *)
LEMMA StartupSteps ==
  ASSUME LifeInv, \/ PlainStep \/ LoadConfiguration \/ VerifyApiConnectivity
                  \/ InitializeExternalFeed \/ VerifyExternalFeed
  PROVE  LifeInv'
<1>1. life.at = "startup" /\ UNCHANGED <<moverVars, task, venue>>
  BY DEF PlainStep, LoadConfiguration, VerifyApiConnectivity, InitializeExternalFeed,
     VerifyExternalFeed, StartupStep, MainAt, NoOrder, Apart
<1>2. CASE PlainStep
  BY <1>1, <1>2, OutcomeStep DEF PlainStep
<1>3. CASE LoadConfiguration
  <2>1. CASE Outcome(FALSE)
    BY <1>1, <2>1, OutcomeStep
  <2>2. CASE life' = [life EXCEPT !.configured = TRUE, !.step = StepAfter(@)]
    <3>1. life.step = 2 /\ LifeShape
      BY <1>3 DEF LoadConfiguration, StartupStep, LifeInv
    <3>2. /\ LifeShape' /\ life'.run = life.run /\ life'.at = "startup" /\ life'.step = 4
      BY <1>1, <2>2, <3>1 DEF LifeShape, StepAfter
    <3>3. ~Cleaned'
      BY <3>2 DEF Cleaned
    <3>. QED
      BY <1>1, <3>2, <3>3, MainStep DEF Sweeping
  <2>. QED
    BY <1>3, <2>1, <2>2 DEF LoadConfiguration
<1>4. CASE VerifyApiConnectivity
  BY <1>1, <1>4, OutcomeStep DEF VerifyApiConnectivity
<1>5. CASE InitializeExternalFeed
  BY <1>1, <1>5, OutcomeStep DEF InitializeExternalFeed
<1>6. CASE VerifyExternalFeed
  BY <1>1, <1>6, OutcomeStep DEF VerifyExternalFeed
<1>. QED
  BY <1>2, <1>3, <1>4, <1>5, <1>6

(* The clean slate: every order that the file or the listing shows is        *)
(* cancelled or kept.                                                        *)
LEMMA SlateSteps ==
  ASSUME LifeInv, \/ CollectOids \/ EmptyFile
                  \/ \E o \in Orders : CancelOid(o)
  PROVE  LifeInv'
<1>. USE DEF LifeInv
<1>1. CASE CollectOids
  <2>1. PICK listed \in BOOLEAN :
          /\ life' = [life EXCEPT !.at = "slate", !.listed = listed,
                                  !.todo = filed \cup IF listed THEN venue ELSE {}]
          /\ UNCHANGED <<moverVars, task, venue>>
    BY <1>1 DEF CollectOids, NoOrder, Apart
  <2>2. /\ LifeShape' /\ life'.run = life.run /\ life'.step = life.step /\ life'.at = "slate"
        /\ life'.listed = listed /\ life'.todo = filed \cup IF listed THEN venue ELSE {}
    BY <2>1 DEF LifeShape
  <2>3. \A o \in venue' : Inherits(o, life.todo)'
    BY <2>1, <2>2 DEF Inherits
  <2>4. ~Cleaned'
    BY <2>2 DEF Cleaned
  <2>. QED
    BY <2>1, <2>2, <2>3, <2>4, MainStep DEF Sweeping, StageOK
<1>2. CASE EmptyFile
  <2>1. /\ life.at = "slate" /\ life.todo = {} /\ life' = [life EXCEPT !.at = "startup", !.step = 11]
        /\ UNCHANGED <<moverVars, task, venue>>
    BY <1>2 DEF EmptyFile, Apart, MainAt
  <2>2. /\ LifeShape' /\ life'.run = life.run /\ life'.step = 11 /\ life'.at = "startup"
        /\ life'.listed = life.listed /\ life'.kept = life.kept
    BY <2>1 DEF LifeShape
  <2>3. \A o \in venue' : Inherits(o, {})'
    BY <2>1, <2>2 DEF Inherits, SlateOK
  <2>. QED
    BY <2>1, <2>2, <2>3, MainStep DEF Sweeping
<1>3. ASSUME NEW o \in Orders, CancelOid(o)
      PROVE  LifeInv'
  <2>1. /\ life.at = "slate" /\ UNCHANGED <<moverVars, task>>
        /\ \/ life' = [life EXCEPT !.todo = @ \ {o}] /\ venue' = venue \ {o}
           \/ life' = [life EXCEPT !.todo = @ \ {o}, !.kept = @ \cup {o}] /\ UNCHANGED venue
    BY <1>3 DEF CancelOid, Apart, MainAt
  <2>2. /\ LifeShape' /\ life'.run = life.run /\ life'.step = life.step /\ life'.at = "slate"
        /\ life'.listed = life.listed /\ life'.todo = life.todo \ {o}
        /\ \/ venue' = venue \ {o} /\ life'.kept = life.kept
           \/ venue' = venue /\ life'.kept = life.kept \cup {o}
    <3>1. CASE life' = [life EXCEPT !.todo = @ \ {o}] /\ venue' = venue \ {o}
      BY <2>1, <3>1 DEF LifeShape
    <3>2. CASE life' = [life EXCEPT !.todo = @ \ {o}, !.kept = @ \cup {o}] /\ UNCHANGED venue
      BY <2>1, <3>2 DEF LifeShape
    <3>. QED
      BY <2>1, <3>1, <3>2
  <2>3. \A q \in venue' : Inherits(q, life.todo)'
    BY <2>1, <2>2 DEF Inherits, SlateOK
  <2>4. ~Cleaned'
    BY <2>2 DEF Cleaned
  <2>. QED
    BY <2>1, <2>2, <2>3, <2>4, MainStep DEF Sweeping, StageOK
<1>. QED
  BY <1>1, <1>2, <1>3

(* The trading loop, and the shutdown as far as the mover's.                 *)
LEMMA LoopSteps ==
  ASSUME LifeInv, \/ RegisterStrategy \/ StartTrading \/ LeaveLoop
                  \/ CancelTrackedLegs \/ Escalate
  PROVE  LifeInv'
<1>. USE DEF LifeInv
<1>1. UNCHANGED <<moverVars, task>>
  BY DEF RegisterStrategy, StartTrading, LeaveLoop, CancelTrackedLegs, Escalate, Apart
<1>2. CASE RegisterStrategy \/ StartTrading
  <2>1. /\ life.at \in {"register", "ready"} /\ UNCHANGED venue
        /\ \/ life' = [life EXCEPT !.at = "ready"]
           \/ life' = [life EXCEPT !.at = "loop", !.running = TRUE, !.feed = TRUE]
    BY <1>2 DEF RegisterStrategy, StartTrading, MainAt, Goto, NoOrder
  <2>2. /\ LifeShape' /\ life'.run = life.run /\ life'.step = life.step /\ life'.at \in {"ready", "loop"}
        /\ life'.kept = life.kept /\ life'.listed = life.listed
    <3>1. CASE life' = [life EXCEPT !.at = "ready"]
      BY <2>1, <3>1 DEF LifeShape
    <3>2. CASE life' = [life EXCEPT !.at = "loop", !.running = TRUE, !.feed = TRUE]
      BY <2>1, <3>2 DEF LifeShape
    <3>. QED
      BY <2>1, <3>1, <3>2
  <2>3. \A o \in venue' : Inherits(o, {})'
    BY <2>1, <2>2 DEF Inherits, SlateOK, Cleaned
  <2>. QED
    BY <1>1, <2>1, <2>2, <2>3, MainStep DEF Sweeping, StageOK
<1>3. CASE LeaveLoop \/ CancelTrackedLegs \/ Escalate
  <2>1. /\ venue' \subseteq venue
        /\ \/ life' = [life EXCEPT !.at = "legs", !.kept = {}]
           \/ life' = [life EXCEPT !.at = "escalate"]
           \/ life' = [life EXCEPT !.at = "mover"]
    BY <1>3 DEF LeaveLoop, CancelTrackedLegs, Escalate, Goto, NoOrder
  <2>2. /\ LifeShape' /\ life'.run = life.run /\ life'.step = life.step
        /\ life'.at \in {"legs", "escalate", "mover"}
    BY <2>1 DEF LifeShape
  <2>3. ~Cleaned'
    BY <2>2 DEF Cleaned
  <2>. QED
    BY <1>1, <2>1, <2>2, <2>3, MainStep DEF Sweeping, StageOK
<1>. QED
  BY <1>2, <1>3

(* The sweeps: each that succeeds leaves nothing of what it was for.         *)
LEMMA SweepSteps ==
  ASSUME LifeConstants, LifeInv,
         \/ StopAll \/ SweepAll \/ Recheck
         \/ \E i \in Instruments : SweepSymbol(i)
  PROVE  LifeInv'
<1>. USE DEF LifeInv
<1>1. UNCHANGED <<moverVars, task>>
  BY DEF StopAll, SweepAll, Recheck, SweepSymbol, Apart
<1>2. CASE StopAll
  <2>1. PICK todo :
          /\ life.at = "strategies" /\ UNCHANGED venue
          /\ life' = [life EXCEPT !.at = "symbols", !.running = FALSE, !.ok = {}, !.todo = todo]
    BY <1>2 DEF StopAll, MainAt, NoOrder
  <2>2. /\ LifeShape' /\ life'.run = life.run /\ life'.step = life.step
        /\ life'.at = "symbols" /\ life'.ok = {}
    BY <2>1 DEF LifeShape
  <2>3. ~Cleaned'
    BY <2>2 DEF Cleaned
  <2>. QED
    BY <1>1, <2>1, <2>2, <2>3, MainStep DEF Sweeping, StageOK
<1>3. ASSUME NEW i \in Instruments, SweepSymbol(i)
      PROVE  LifeInv'
  <2>1. /\ life.at = "symbols"
        /\ \/ /\ venue' = venue \ OrderOn({i})
              /\ life' = [life EXCEPT !.todo = @ \ {i}, !.ok = @ \cup {i}]
           \/ life' = [life EXCEPT !.todo = @ \ {i}] /\ UNCHANGED venue
    BY <1>3 DEF SweepSymbol, MainAt
  <2>2. /\ LifeShape' /\ life'.run = life.run /\ life'.step = life.step /\ life'.at = "symbols"
        /\ \/ venue' = venue \ OrderOn({i}) /\ life'.ok = life.ok \cup {i}
           \/ venue' = venue /\ life'.ok = life.ok
    <3>1. CASE /\ venue' = venue \ OrderOn({i})
               /\ life' = [life EXCEPT !.todo = @ \ {i}, !.ok = @ \cup {i}]
      BY <2>1, <3>1 DEF LifeShape
    <3>2. CASE life' = [life EXCEPT !.todo = @ \ {i}] /\ UNCHANGED venue
      BY <2>1, <3>2 DEF LifeShape
    <3>. QED
      BY <2>1, <3>1, <3>2
  <2>3. \A o \in venue' : life'.ok \cap {"all", "again", InstrumentOf(o[2])} \subseteq life.ok
    BY <2>2 DEF OrderOn, LifeConstants
  <2>4. ~Cleaned' /\ venue' \subseteq venue
    BY <2>2 DEF Cleaned
  <2>. QED
    BY <1>1, <2>1, <2>2, <2>3, <2>4, MainStep DEF Sweeping, StageOK
<1>4. CASE SweepAll \/ Recheck
  <2>1. /\ life.at \in {"symbols", "recheck"}
        /\ \/ venue' = {} /\ life' = [life EXCEPT !.at = "recheck", !.ok = @ \cup {"all"}]
           \/ venue' = {} /\ life' = [life EXCEPT !.at = "feed", !.ok = @ \cup {"again"}]
           \/ UNCHANGED venue /\ life' = [life EXCEPT !.at = "recheck"]
           \/ UNCHANGED venue /\ life' = [life EXCEPT !.at = "feed"]
    BY <1>4 DEF SweepAll, Recheck, MainAt, Goto
  <2>2. /\ LifeShape' /\ life'.run = life.run /\ life'.step = life.step /\ life'.at \in {"recheck", "feed"}
        /\ venue' = {} \/ (venue' = venue /\ life'.ok = life.ok)
    <3>1. CASE venue' = {} /\ life' = [life EXCEPT !.at = "recheck", !.ok = @ \cup {"all"}]
      BY <2>1, <3>1 DEF LifeShape
    <3>2. CASE venue' = {} /\ life' = [life EXCEPT !.at = "feed", !.ok = @ \cup {"again"}]
      BY <2>1, <3>2 DEF LifeShape
    <3>3. CASE UNCHANGED venue /\ life' = [life EXCEPT !.at = "recheck"]
      BY <2>1, <3>3 DEF LifeShape
    <3>4. CASE UNCHANGED venue /\ life' = [life EXCEPT !.at = "feed"]
      BY <2>1, <3>4 DEF LifeShape
    <3>. QED
      BY <2>1, <3>1, <3>2, <3>3, <3>4
  <2>3. \A o \in venue' : life'.ok \cap {"all", "again", InstrumentOf(o[2])} \subseteq life.ok
    BY <2>2
  <2>4. ~Cleaned' /\ venue' \subseteq venue
    BY <2>2 DEF Cleaned
  <2>. QED
    BY <1>1, <2>1, <2>2, <2>3, <2>4, MainStep DEF Sweeping, StageOK
<1>. QED
  BY <1>2, <1>3, <1>4

(* After the sweeps, and the fatal signals at any time.                      *)
LEMMA EndSteps ==
  ASSUME LifeInv, \/ StopFeed \/ StopWatchdog \/ Return
                  \/ \E t \in Threads : FatalSignal(t)
                  \/ WatchdogCancels \/ HandlerRaises
  PROVE  LifeInv'
<1>. USE DEF LifeInv
<1>1. UNCHANGED <<moverVars, task>> /\ venue' \subseteq venue
  BY DEF StopFeed, StopWatchdog, Return, FatalSignal, WatchdogCancels, HandlerRaises, Apart, NoOrder
<1>2. CASE StopFeed \/ StopWatchdog \/ Return
  <2>1. /\ life.at \in {"feed", "teardown", "return"}
        /\ \/ life' = [life EXCEPT !.at = "teardown", !.feed = FALSE]
           \/ life' = [life EXCEPT !.at = "return"]
           \/ life' = [life EXCEPT !.at = "exit"]
    BY <1>2 DEF StopFeed, StopWatchdog, Return, MainAt, Goto
  <2>2. /\ LifeShape' /\ life'.run = life.run /\ life'.step = life.step /\ life'.ok = life.ok
        /\ life'.at \in {"teardown", "return", "exit"}
    BY <2>1 DEF LifeShape
  <2>3. ~Cleaned'
    BY <2>2 DEF Cleaned
  <2>4. \A o \in venue' : life'.ok \cap {"all", "again", InstrumentOf(o[2])} \subseteq life.ok
    BY <2>2
  <2>. QED
    BY <1>1, <2>1, <2>2, <2>3, <2>4, MainStep DEF Sweeping, StageOK
<1>3. CASE \/ \E t \in Threads : FatalSignal(t)
           \/ WatchdogCancels \/ HandlerRaises
  <2>1. life' = life
    BY <1>3 DEF FatalSignal, WatchdogCancels, HandlerRaises
  <2>2. LifeShape' /\ Cleaned' = Cleaned
    BY <2>1 DEF LifeShape, Cleaned
  <2>3. \A o \in venue' : life'.ok \cap {"all", "again", InstrumentOf(o[2])} \subseteq life.ok
    BY <2>1
  <2>4. life'.at = "slate" => \A o \in venue' : Inherits(o, life.todo)'
    BY <1>1, <2>1 DEF Inherits, SlateOK
  <2>5. Cleaned' => \A o \in venue' : Inherits(o, {})'
    BY <1>1, <2>1, <2>2 DEF Inherits, SlateOK
  <2>. QED
    BY <1>1, <2>1, <2>2, <2>3, <2>4, <2>5, MainStep DEF StageOK
<1>. QED
  BY <1>2, <1>3

(* An order placed late stays one while the mover works on.                  *)
LEMMA LateStays ==
  ASSUME MoverTypes, MoverTypes', shut' = shut, life' = life,
         mode # "unset" => mode' = mode,
         \A k \in Keys : workers[k].at # "none" => workers'[k].at # "none",
         NEW o, PlacedLate(o)
  PROVE  PlacedLate(o)'
BY DEF PlacedLate, Late, KeyOf, MoverTypes

(* The mover works, and main does not.                                       *)
LEMMA MoverWorks ==
  ASSUME LifeInv, MoverInv', UNCHANGED <<shut, life>>, TaskOK',
         mode # "unset" => mode' = mode,
         \A k \in Keys : workers[k].at # "none" => workers'[k].at # "none",
         \A o \in venue' \ venue : o[1] = life.run /\ (life.at \in Sweeping => PlacedLate(o))
  PROVE  LifeInv'
<1>. USE DEF LifeInv
<1>1. LifeShape' /\ StageOK'
  BY DEF LifeShape, StageOK
<1>2. \A o : PlacedLate(o) => PlacedLate(o)'
  BY LateStays DEF MoverInv
<1>3. Swept'
  BY <1>2 DEF Swept
<1>4. SlateOK'
  <2>1. ASSUME NEW o \in venue', o[1] < life.run
        PROVE  o \in venue
    BY <2>1 DEF StageOK
  <2>. QED
    BY <2>1 DEF SlateOK, Cleaned
<1>. QED
  BY <1>1, <1>3, <1>4

(* What a worker's thread does with its own state only.                      *)
LEMMA ThreadMoves ==
  ASSUME MoverInv, NEW k \in Keys, Take(k) \/ Finish(k) \/ Leave(k)
  PROVE  /\ mode' = mode /\ shut' = shut
         /\ \A l \in Keys \ {k} : workers'[l] = workers[l]
         /\ workers[k].at # "none" /\ workers'[k].at # "none"
         /\ Finish(k) => workers'[k].at # "running"
         /\ Take(k) \/ Leave(k) => workers[k].at # "running"
<1>1. workers \in [Keys -> Worker]
  BY DEF MoverInv, MoverTypes
<1>2. CASE Take(k)
  BY <1>1, <1>2 DEF Take, Worker, Finish
<1>3. CASE Finish(k)
  BY <1>1, <1>3 DEF Finish, Worker, Take, Leave
<1>4. CASE Leave(k)
  BY <1>1, <1>4 DEF Leave, Worker, Finish
<1>. QED
  BY <1>2, <1>3, <1>4

(* A job of the mover: what it places while the process sweeps, a worker     *)
(* places that was started too late.                                         *)
LEMMA JobSteps ==
  ASSUME LifeInv, NEW k \in Keys, Decide(k) \/ Send(k) \/ File(k)
  PROVE  LifeInv'
<1>. USE DEF LifeInv
<1>1. workers[k].at = "running" /\ life' = life /\ task \in [Keys -> {"new", "send", "file"}]
  BY DEF Decide, Send, File, TaskOK
<1>2. CASE EndJob(k)
  <2>1. /\ Finish(k) /\ task' = [task EXCEPT ![k] = "new"] /\ MoverInv'
    BY <1>2, WorkerThreadStep DEF EndJob
  <2>2. /\ mode' = mode /\ shut' = shut /\ workers'[k].at # "none"
        /\ \A l \in Keys \ {k} : workers'[l] = workers[l]
    BY <2>1, ThreadMoves
  <2>3. TaskOK'
    BY <1>1, <2>1, <2>2 DEF TaskOK
  <2>4. venue' = venue
    BY <1>1, <1>2, <2>1 DEF Decide, Send, File, NoOrder, Finish, TaskOK, MoverInv, MoverTypes, moverVars,
       Worker
  <2>. QED
    BY <1>1, <2>1, <2>2, <2>3, <2>4, MoverWorks
<1>3. CASE UNCHANGED moverVars
  <2>1. UNCHANGED <<mode, workers, poster, shut>>
    BY <1>3 DEF moverVars
  <2>2. MoverInv'
    BY <2>1 DEF MoverInv, MoverTypes, MoverOK, JoinOK, OwnJobs, Found, KeyOf
  <2>3. TaskOK'
    BY <1>1, <2>1 DEF Decide, Send, File, TaskOK, EndJob
  <2>4. venue' \subseteq venue \cup {OrderOf(k)}
    BY DEF Decide, Send, File, NoOrder
  <2>5. OrderOf(k)[1] = life.run /\ InstrumentOf(OrderOf(k)[2]) = InstrumentOf(workers[k].job)
    BY DEF OrderOf
  <2>6. life.at \in Sweeping => PlacedLate(OrderOf(k))
    <3>1. KeyOf(InstrumentOf(workers[k].job)) = k /\ mode # "unset"
      BY <1>1 DEF MoverInv, MoverOK, OwnJobs
    <3>2. life.at \in Sweeping => k \in Late
      BY <1>1 DEF StageOK, MoverInv, JoinOK, Late
    <3>. QED
      BY <2>5, <3>1, <3>2 DEF PlacedLate
  <2>. QED
    BY <1>1, <2>1, <2>2, <2>3, <2>4, <2>5, <2>6, MoverWorks
<1>. QED
  BY <1>2, <1>3 DEF Decide, Send, File

(* Posts, and the workers between two jobs.                                  *)
LEMMA MoverSteps ==
  ASSUME LifeConstants, LifeInv, MoverStep
  PROVE  LifeInv'
<1>. USE DEF LifeInv
<1>1. UNCHANGED <<life, task, venue>>
  BY DEF MoverStep, NoOrder
<1>2. ASSUME NEW p \in Posters, NEW i \in Instruments, PostCheck(p, i)
      PROVE  LifeInv'
  <2>1. MoverInv'
    BY <1>2, PostCheckStep
  <2>2. UNCHANGED <<mode, workers, shut>>
    BY <1>2 DEF PostCheck
  <2>3. TaskOK'
    BY <1>1, <2>2 DEF TaskOK
  <2>. QED
    BY <1>1, <2>1, <2>2, <2>3, MoverWorks
<1>3. CASE ShardingResolve
  <2>1. MoverInv' /\ mode = "unset" /\ UNCHANGED <<workers, shut>>
    BY <1>3, ShardingStep DEF ShardingResolve
  <2>2. TaskOK'
    BY <1>1, <2>1 DEF TaskOK
  <2>. QED
    BY <1>1, <2>1, <2>2, MoverWorks
<1>4. ASSUME NEW p \in Posters, WorkerFor(p) \/ PostPush(p)
      PROVE  LifeInv'
  <2>1. MoverInv'
    BY <1>4, WorkerForStep, PostPushStep
  <2>2. UNCHANGED <<mode, shut>>
    BY <1>4 DEF WorkerFor, PostPush
  <2>3. \A k \in Keys : workers'[k].at = workers[k].at \/ (workers[k].at = "none" /\ workers'[k].at = "waiting")
    <3>1. workers \in [Keys -> Worker]
      BY DEF MoverInv, MoverTypes
    <3>2. CASE WorkerFor(p)
      BY <3>1, <3>2 DEF WorkerFor, Worker
    <3>3. CASE PostPush(p)
      BY <3>1, <3>3 DEF PostPush, Worker
    <3>. QED
      BY <1>4, <3>2, <3>3
  <2>4. TaskOK'
    BY <1>1, <2>3 DEF TaskOK
  <2>5. \A k \in Keys : workers[k].at # "none" => workers'[k].at # "none"
    BY <2>3
  <2>. QED
    BY <1>1, <2>1, <2>2, <2>4, <2>5, MoverWorks
<1>5. ASSUME NEW k \in Keys, Take(k) \/ Leave(k)
      PROVE  LifeInv'
  <2>1. MoverInv'
    BY <1>5, WorkerThreadStep
  <2>2. /\ mode' = mode /\ shut' = shut /\ workers'[k].at # "none" /\ workers[k].at # "running"
        /\ \A l \in Keys \ {k} : workers'[l] = workers[l]
    BY <1>5, ThreadMoves
  <2>3. TaskOK'
    BY <1>1, <2>2 DEF TaskOK
  <2>. QED
    BY <1>1, <2>1, <2>2, <2>3, MoverWorks
<1>. QED
  BY <1>2, <1>3, <1>4, <1>5 DEF MoverStep

(* Main shuts the mover down: it goes on to the strategies once it has       *)
(* joined the workers it has seen.                                           *)
LEMMA ShutMoverStep ==
  ASSUME LifeInv, ShutMover
  PROVE  LifeInv'
<1>. USE DEF LifeInv
<1>1. UNCHANGED <<task, venue>>
  BY DEF ShutMover, NoOrder
<1>2. MoverInv'
  BY ShutStep DEF ShutMover
<1>3. \A k \in Keys : workers'[k].at = workers[k].at
  <2>1. workers \in [Keys -> Worker]
    BY DEF MoverInv, MoverTypes
  <2>2. \/ workers' = workers
        \/ \E k \in Keys : workers' = [workers EXCEPT ![k].stop = TRUE, ![k].queue = <<>>]
    BY DEF ShutMover, ShutCall, ShutCopy, ShutStop, ShutJoin
  <2>3. ASSUME NEW k \in Keys, workers' = [workers EXCEPT ![k].stop = TRUE, ![k].queue = <<>>]
        PROVE  \A l \in Keys : workers'[l].at = workers[l].at
    <3>1. workers' = [workers EXCEPT ![k] = [workers[k] EXCEPT !.stop = TRUE, !.queue = <<>>]]
      BY <2>1, <2>3 DEF Worker
    <3>2. workers'[k].at = workers[k].at /\ \A l \in Keys \ {k} : workers'[l] = workers[l]
      BY <2>1, <3>1 DEF Worker
    <3>. QED
      BY <3>2
  <2>. QED
    BY <2>2, <2>3
<1>4. /\ life' = life \/ life' = [life EXCEPT !.at = "joining"]
           \/ (life' = [life EXCEPT !.at = "strategies"] /\ shut'.at = "joined")
      /\ life.at \in {"mover", "joining"}
  BY DEF ShutMover, Goto, ShutJoin, MoverInv, MoverTypes
<1>5. /\ LifeShape' /\ life'.run = life.run /\ life'.step = life.step
      /\ \/ life'.at \in {"mover", "joining"}
         \/ life'.at = "strategies" /\ shut'.at = "joined"
  BY <1>4 DEF LifeShape
<1>6. TaskOK'
  BY <1>1, <1>3 DEF TaskOK
<1>7. StageOK' /\ Swept' /\ SlateOK'
  BY <1>5 DEF StageOK, Swept, SlateOK, Cleaned, Sweeping
<1>. QED
  BY <1>2, <1>5, <1>6, <1>7

(* A new process: its mover is empty, and what rests is of earlier ones.     *)
LEMMA RestartStep ==
  ASSUME LifeInv, Restart
  PROVE  LifeInv'
<1>. USE DEF LifeInv
<1>1. /\ life' = [at |-> "startup", step |-> 1, run |-> life.run + 1, configured |-> FALSE,
                  todo |-> {}, ok |-> {}, kept |-> {}, listed |-> FALSE, running |-> FALSE,
                  feed |-> FALSE]
      /\ mode' = "unset" /\ workers' = [k \in Keys |-> NoWorker]
      /\ poster' = [p \in Posters |-> [at |-> "idle", job |-> NoJob, posts |-> poster[p].posts]]
      /\ shut' = [at |-> "open", copied |-> {}] /\ task' = [k \in Keys |-> "new"]
  BY DEF Restart
<1>2. NoWorker \in Worker
  BY DEF NoWorker, Worker
<1>3. poster' \in [Posters -> Desk]
  BY <1>1, MoverParts DEF MoverInv, Desk
<1>4. MoverTypes'
  BY <1>1, <1>2, <1>3 DEF MoverTypes
<1>5. MoverOK' /\ JoinOK'
  BY <1>1 DEF MoverOK, JoinOK, OwnJobs, Found, NoWorker
<1>6. TaskOK'
  BY <1>1 DEF TaskOK
<1>7. LifeShape' /\ life'.at = "startup" /\ life'.step = 1 /\ life'.run = life.run + 1
  BY <1>1 DEF LifeShape
<1>8. StageOK' /\ Swept' /\ SlateOK'
  BY <1>7 DEF StageOK, Swept, SlateOK, Cleaned, Sweeping
<1>. QED
  BY <1>4, <1>5, <1>6, <1>7, <1>8 DEF MoverInv

(* Every step keeps the invariant.                                           *)
LEMMA LifeStep ==
  ASSUME LifeConstants, LifeInv, [LifeNext]_lifeVars
  PROVE  LifeInv'
<1>1. CASE \/ PlainStep \/ LoadConfiguration \/ VerifyApiConnectivity
           \/ InitializeExternalFeed \/ VerifyExternalFeed
  BY <1>1, StartupSteps
<1>2. CASE \/ CollectOids \/ EmptyFile
           \/ \E o \in Orders : CancelOid(o)
  BY <1>2, SlateSteps
<1>3. CASE RegisterStrategy \/ StartTrading \/ LeaveLoop \/ CancelTrackedLegs \/ Escalate
  BY <1>3, LoopSteps
<1>4. CASE \/ StopAll \/ SweepAll \/ Recheck
           \/ \E i \in Instruments : SweepSymbol(i)
  BY <1>4, SweepSteps
<1>5. CASE \/ StopFeed \/ StopWatchdog \/ Return
           \/ \E t \in Threads : FatalSignal(t)
           \/ WatchdogCancels \/ HandlerRaises
  BY <1>5, EndSteps
<1>6. CASE UNCHANGED lifeVars
  <2>1. UNCHANGED <<moverVars, mode, workers, poster, shut, life, venue, task>>
    BY <1>6 DEF lifeVars, moverVars
  <2>2. MoverInv'
    BY <2>1 DEF LifeInv, MoverInv, MoverTypes, MoverOK, JoinOK, OwnJobs, Found, KeyOf
  <2>3. TaskOK'
    BY <2>1 DEF LifeInv, TaskOK
  <2>. QED
    BY <2>1, <2>2, <2>3, MoverWorks
<1>. QED
  BY <1>1, <1>2, <1>3, <1>4, <1>5, <1>6, JobSteps, MoverSteps, ShutMoverStep, RestartStep DEF LifeNext

(* However main, the mover's threads, signals and restarts interleave, what  *)
(* rests after the sweeps is what no successful sweep was for, or what a     *)
(* mover thread placed that was started too late to be joined.               *)
THEOREM SweepsLeaveNothing ==
  ASSUME LifeConstants
  PROVE  LifeSpec => []SweptFlat
<1>1. LifeInv => SweptFlat
  BY DEF LifeInv, Swept, SweptFlat, PlacedLate, Sweeping
<1>. QED
  BY <1>1, LifeStart, LifeStep, PTL DEF LifeSpec

(* Trading starts with no order of an earlier process but those whose cancel *)
(* failed, or when neither listing answered.                                 *)
THEOREM CleanSlate ==
  ASSUME LifeConstants
  PROVE  LifeSpec => []Inherited
<1>1. LifeInv => Inherited
  BY DEF LifeInv, SlateOK, Inherited, Cleaned
<1>. QED
  BY <1>1, LifeStart, LifeStep, PTL DEF LifeSpec

-----------------------------------------------------------------------------
(* An instrument's share of a queue.                                         *)

(* The ranks of an instrument's jobs number them without a gap.              *)
LEMMA RanksCount ==
  ASSUME NEW q \in Seq(Jobs), NEW i
  PROVE  /\ IsFiniteSet(Places(q, i)) /\ Cardinality(Places(q, i)) \in Nat
         /\ \A n \in Places(q, i) : Rank(q, i, n) \in 1 .. Cardinality(Places(q, i))
         /\ \A m, n \in Places(q, i) : Rank(q, i, m) = Rank(q, i, n) => m = n
         /\ \A r \in 1 .. Cardinality(Places(q, i)) : \E n \in Places(q, i) : Rank(q, i, n) = r
<1>. DEFINE P == Places(q, i)
            c == Cardinality(P)
            upto(n) == {m \in P : m <= n}
<1>1. P \subseteq 1 .. Len(q) /\ Len(q) \in Nat /\ P \in SUBSET Int
  BY DEF Places
<1>2. IsFiniteSet(P) /\ c \in Nat
  <2>. HIDE DEF P
  <2>1. IsFiniteSet(1 .. Len(q))
    BY <1>1, FS_Interval
  <2>2. IsFiniteSet(P)
    BY <1>1, <2>1, FS_Subset
  <2>. QED
    BY <2>2, FS_CardinalityType
<1>3. \A n : /\ upto(n) \subseteq P /\ IsFiniteSet(upto(n))
             /\ Cardinality(upto(n)) \in Nat /\ Cardinality(upto(n)) <= c
  BY <1>2, FS_Subset, FS_CardinalityType
<1>4. \A n : Rank(q, i, n) = Cardinality(upto(n))
  BY DEF Rank
<1>. HIDE DEF P, c
<1>5. ASSUME NEW n \in P
      PROVE  Cardinality(upto(n)) # 0
  <2>1. n \in upto(n)
    BY <1>1, <1>5
  <2>2. upto(n) # {} /\ IsFiniteSet(upto(n))
    BY <1>3, <2>1
  <2>. HIDE DEF upto
  <2>. QED
    BY <2>2, FS_EmptySet
<1>6. ASSUME NEW m \in P, NEW n \in P, m < n
      PROVE  Cardinality(upto(m)) # Cardinality(upto(n))
  <2>1. m \in Int /\ n \in Int
    BY <1>1
  <2>2. \A l \in P : l \in Int /\ (l <= m => l <= n)
    BY <1>1, <1>6, <2>1
  <2>3. upto(m) \subseteq upto(n) /\ n \in upto(n) /\ n \notin upto(m)
    <3>1. upto(m) \subseteq upto(n)
      BY <2>2
    <3>2. n <= n /\ ~(n <= m)
      BY <1>6, <2>1
    <3>. QED
      BY <1>6, <3>1, <3>2
  <2>. HIDE DEF upto
  <2>. QED
    BY <1>3, <2>3, FS_Subset
<1>7. \A m, n \in P : Cardinality(upto(m)) = Cardinality(upto(n)) => m = n
  BY <1>1, <1>6
<1>. DEFINE f == [n \in P |-> Cardinality(upto(n))]
<1>8. \A n \in P : f[n] \in 1 .. c
  <2>1. ASSUME NEW n \in P
        PROVE  Cardinality(upto(n)) \in 1 .. c
    <3>. HIDE DEF upto
    <3>. QED
      BY <1>2, <1>3, <1>5
  <2>. QED
    BY <2>1
<1>9. f \in Injection(P, 1 .. c)
  <2>1. f \in [P -> 1 .. c]
    BY <1>8
  <2>2. \A m, n \in P : f[m] = f[n] => m = n
    BY <1>7
  <2>. HIDE DEF f
  <2>. QED
    BY <2>1, <2>2 DEF Injection, IsInjective
<1>10. IsFiniteSet(1 .. c) /\ Cardinality(1 .. c) = c
  BY <1>2, FS_Interval
<1>11. Cardinality(P) = Cardinality(1 .. c)
  BY <1>10 DEF c
<1>12. f \in Surjection(P, 1 .. c)
  <2>. HIDE DEF f
  <2>. QED
    BY <1>9, <1>10, <1>11, FS_Injection
<1>13. \A r \in 1 .. c : \E n \in P : f[n] = r
  <2>. HIDE DEF f
  <2>. QED
    BY <1>12 DEF Surjection
<1>14. \A r \in 1 .. c : \E n \in P : Cardinality(upto(n)) = r
  BY <1>13
<1>15. \A n \in P : Cardinality(upto(n)) \in 1 .. c
  BY <1>8
<1>. HIDE DEF upto, f
<1>. QED
  BY <1>2, <1>4, <1>7, <1>14, <1>15 DEF P, c

(* The job of rank r is the r-th of the share.                               *)
LEMMA ShareAt ==
  ASSUME NEW q \in Seq(Jobs), NEW i
  PROVE  /\ Share(q, i) \in Seq(Jobs)
         /\ Len(Share(q, i)) = Cardinality(Places(q, i))
         /\ DOMAIN Share(q, i) = 1 .. Cardinality(Places(q, i))
         /\ \A n \in Places(q, i) : Share(q, i)[Rank(q, i, n)] = q[n]
<1>. DEFINE c == Cardinality(Places(q, i))
            at(r) == CHOOSE n \in Places(q, i) : Rank(q, i, n) = r
<1>1. c \in Nat /\ Places(q, i) \subseteq 1 .. Len(q)
  BY RanksCount DEF Places
<1>2. \A r \in 1 .. c : at(r) \in Places(q, i) /\ Rank(q, i, at(r)) = r
  BY RanksCount
<1>3. Share(q, i) = [r \in 1 .. c |-> q[at(r)]]
  BY DEF Share
<1>4. \A n \in Places(q, i) : Rank(q, i, n) \in 1 .. c
  BY RanksCount
<1>5. \A m, n \in Places(q, i) : Rank(q, i, m) = Rank(q, i, n) => m = n
  BY RanksCount
<1>. HIDE DEF c, at
<1>6. \A r \in 1 .. c : q[at(r)] \in Jobs
  BY <1>1, <1>2
<1>7. Share(q, i) \in Seq(Jobs) /\ Len(Share(q, i)) = c /\ DOMAIN Share(q, i) = 1 .. c
  BY <1>1, <1>3, <1>6
<1>8. \A n \in Places(q, i) : Share(q, i)[Rank(q, i, n)] = q[n]
  BY <1>2, <1>3, <1>4, <1>5
<1>. QED
  BY <1>7, <1>8 DEF c

(* Two sequences of jobs with the same entries are the same.                 *)
LEMMA SameJobs ==
  ASSUME NEW s \in Seq(Jobs), NEW t \in Seq(Jobs), Len(s) = Len(t),
         \A r \in 1 .. Len(s) : s[r] = t[r]
  PROVE  s = t
<1>1. /\ DOMAIN s = 1 .. Len(s) /\ DOMAIN t = 1 .. Len(t)
      /\ s = [r \in 1 .. Len(s) |-> s[r]] /\ t = [r \in 1 .. Len(t) |-> t[r]]
  OBVIOUS
<1>. QED
  BY <1>1

(* Numbers that are moved by one are as many.                                *)
LEMMA ShiftedCount ==
  ASSUME NEW S \in SUBSET Int, IsFiniteSet(S)
  PROVE  LET T == {n + 1 : n \in S} IN IsFiniteSet(T) /\ Cardinality(T) = Cardinality(S)
<1>. DEFINE T == {n + 1 : n \in S}
            f == [n \in S |-> n + 1]
<1>1. f \in [S -> T]
  OBVIOUS
<1>2. \A m, n \in S : f[m] = f[n] => m = n
  OBVIOUS
<1>3. \A t \in T : \E n \in S : f[n] = t
  OBVIOUS
<1>. HIDE DEF f, T
<1>4. f \in Bijection(S, T)
  BY <1>1, <1>2, <1>3 DEF Bijection, Injection, Surjection, IsInjective
<1>5. IsFiniteSet(T) /\ Cardinality(T) = Cardinality(S)
  BY <1>4, FS_Bijection DEF ExistsBijection
<1>. QED
  BY <1>5 DEF T

(* A job that is put at the end of a queue is put at the end of its          *)
(* instrument's share, and changes no other share.                           *)
LEMMA SharePush ==
  ASSUME NEW q \in Seq(Jobs), NEW j \in Jobs, NEW i
  PROVE  Share(Append(q, j), i) =
           IF InstrumentOf(j) = i THEN Append(Share(q, i), j) ELSE Share(q, i)
<1>. DEFINE p == Append(q, j)
            P == Places(q, i)
            c == Cardinality(P)
            last == Len(q) + 1
<1>1. /\ p \in Seq(Jobs) /\ Len(p) = last /\ Len(q) \in Nat /\ last \in Nat
      /\ p[last] = j /\ \A n \in 1 .. Len(q) : p[n] = q[n]
  OBVIOUS
<1>2. P \subseteq 1 .. Len(q) /\ last \notin P
  BY <1>1 DEF Places
<1>. HIDE DEF p, last
<1>3. Places(p, i) = IF InstrumentOf(j) = i THEN P \cup {last} ELSE P
  <2>1. 1 .. Len(p) = (1 .. Len(q)) \cup {last}
    BY <1>1 DEF last
  <2>. QED
    BY <1>1, <1>2, <2>1 DEF Places
<1>4. \A n \in P : Rank(p, i, n) = Rank(q, i, n)
  <2>1. \A n \in P : ~(last <= n)
    BY <1>1, <1>2 DEF last
  <2>2. \A n \in P : {m \in Places(p, i) : m <= n} = {m \in P : m <= n}
    BY <1>3, <2>1
  <2>. QED
    BY <2>2 DEF Rank
<1>5. \A n \in P : Rank(q, i, n) \in 1 .. c
  BY RanksCount
<1>6. IsFiniteSet(P) /\ c \in Nat /\ \A r \in 1 .. c : \E n \in P : Rank(q, i, n) = r
  BY RanksCount
<1>7. /\ Share(q, i) \in Seq(Jobs) /\ Len(Share(q, i)) = c
      /\ \A n \in P : Share(q, i)[Rank(q, i, n)] = q[n]
  BY ShareAt
<1>8. /\ Share(p, i) \in Seq(Jobs) /\ Len(Share(p, i)) = Cardinality(Places(p, i))
      /\ \A n \in Places(p, i) : Share(p, i)[Rank(p, i, n)] = p[n]
  BY <1>1, ShareAt
<1>. HIDE DEF P, c
<1>9. \A r \in 1 .. c : Share(p, i)[r] = Share(q, i)[r]
  <2>1. SUFFICES ASSUME NEW r \in 1 .. c
                 PROVE  Share(p, i)[r] = Share(q, i)[r]
    OBVIOUS
  <2>2. PICK n \in P : Rank(q, i, n) = r
    BY <1>6
  <2>3. n \in Places(p, i) /\ Rank(p, i, n) = r /\ p[n] = q[n]
    BY <1>1, <1>2, <1>3, <1>4, <2>2
  <2>. QED
    BY <1>7, <1>8, <2>2, <2>3
<1>10. CASE InstrumentOf(j) # i
  <2>1. Len(Share(p, i)) = c
    BY <1>3, <1>8, <1>10 DEF P, c
  <2>2. Share(p, i) = Share(q, i)
    BY <1>7, <1>8, <1>9, <2>1, SameJobs
  <2>. QED
    BY <1>10, <2>2 DEF p
<1>11. CASE InstrumentOf(j) = i
  <2>1. Places(p, i) = P \cup {last}
    BY <1>3, <1>11
  <2>2. Cardinality(P \cup {last}) = c + 1
    BY <1>2, <1>6, FS_AddElement DEF c
  <2>3. {m \in P \cup {last} : m <= last} = P \cup {last}
    <3>1. \A m \in 1 .. Len(q) : m <= last
      BY <1>1 DEF last
    <3>2. last <= last
      BY <1>1
    <3>3. \A m \in P \cup {last} : m <= last
      BY <1>2, <3>1, <3>2
    <3>. QED
      BY <3>3
  <2>4. Rank(p, i, last) = c + 1
    BY <2>1, <2>2, <2>3 DEF Rank
  <2>5. Share(p, i)[c + 1] = j
    BY <1>1, <1>8, <2>1, <2>4
  <2>. DEFINE app == Append(Share(q, i), j)
  <2>6. /\ app \in Seq(Jobs) /\ Len(app) = c + 1 /\ app[c + 1] = j
        /\ \A r \in 1 .. c : app[r] = Share(q, i)[r]
    BY <1>7
  <2>. HIDE DEF app
  <2>7. Len(Share(p, i)) = c + 1
    BY <1>8, <2>1, <2>2
  <2>8. \A r \in 1 .. c + 1 : Share(p, i)[r] = app[r]
    BY <1>6, <1>9, <2>5, <2>6
  <2>9. Share(p, i) = app
    BY <1>8, <2>6, <2>7, <2>8, SameJobs
  <2>. QED
    BY <1>11, <2>9 DEF app, p
<1>. QED
  BY <1>10, <1>11

(* The job at the head of a queue is the head of its instrument's share, and *)
(* is in no other share.                                                     *)
LEMMA SharePop ==
  ASSUME NEW q \in Seq(Jobs), q # <<>>, NEW i
  PROVE  /\ InstrumentOf(Head(q)) # i => Share(Tail(q), i) = Share(q, i)
         /\ InstrumentOf(Head(q)) = i =>
              /\ Share(q, i) # <<>> /\ Head(Share(q, i)) = Head(q)
              /\ Share(Tail(q), i) = Tail(Share(q, i))
<1>. DEFINE t == Tail(q)
            P == Places(q, i)
            T == Places(t, i)
            up(S) == {n + 1 : n \in S}
            c == Cardinality(T)
            first == IF InstrumentOf(q[1]) = i THEN {1} ELSE {}
            one == IF InstrumentOf(q[1]) = i THEN 1 ELSE 0
<1>1. /\ t \in Seq(Jobs) /\ Len(q) \in Nat /\ Len(q) >= 1 /\ Len(t) = Len(q) - 1 /\ Len(t) \in Nat
      /\ Head(q) = q[1] /\ \A n \in 1 .. Len(t) : t[n] = q[n + 1]
  OBVIOUS
<1>. HIDE DEF t
<1>2. T \subseteq 1 .. Len(t) /\ T \in SUBSET Int
  BY <1>1 DEF Places
<1>3. P = first \cup up(T)
  <2>1. \A n \in 1 .. Len(q) : n = 1 \/ n - 1 \in 1 .. Len(t)
    BY <1>1
  <2>2. \A n \in 1 .. Len(q) \ {1} : t[n - 1] = q[n]
    BY <1>1, <2>1
  <2>3. ASSUME NEW n \in P
        PROVE  n \in first \cup up(T)
    <3>1. n \in 1 .. Len(q) /\ InstrumentOf(q[n]) = i
      BY DEF Places
    <3>2. CASE n = 1
      BY <3>1, <3>2
    <3>3. CASE n # 1
      <4>1. n - 1 \in 1 .. Len(t) /\ t[n - 1] = q[n]
        BY <2>1, <2>2, <3>1, <3>3
      <4>2. n - 1 \in T
        BY <3>1, <4>1 DEF Places
      <4>3. n = (n - 1) + 1
        BY <3>1
      <4>. QED
        BY <4>2, <4>3
    <3>. QED
      BY <3>2, <3>3
  <2>4. ASSUME NEW n \in T
        PROVE  n + 1 \in P
    <3>1. n \in 1 .. Len(t) /\ InstrumentOf(t[n]) = i
      BY DEF Places
    <3>2. n + 1 \in 1 .. Len(q) /\ q[n + 1] = t[n]
      BY <1>1, <3>1
    <3>. QED
      BY <3>1, <3>2 DEF Places
  <2>5. first \subseteq P
    BY <1>1 DEF Places
  <2>. QED
    BY <2>3, <2>4, <2>5
<1>4. IsFiniteSet(T) /\ c \in Nat
  BY <1>1, RanksCount
<1>5. \A S \in SUBSET T : /\ IsFiniteSet(up(S)) /\ Cardinality(up(S)) = Cardinality(S)
                          /\ 1 \notin up(S) /\ Cardinality(S) \in Nat
  <2>1. SUFFICES ASSUME NEW S \in SUBSET T
                 PROVE  /\ IsFiniteSet(up(S)) /\ Cardinality(up(S)) = Cardinality(S)
                        /\ 1 \notin up(S) /\ Cardinality(S) \in Nat
    OBVIOUS
  <2>2. IsFiniteSet(S) /\ S \in SUBSET Int /\ Cardinality(S) \in Nat
    BY <1>2, <1>4, FS_Subset, FS_CardinalityType
  <2>3. 1 \notin up(S)
    BY <1>1, <1>2
  <2>. QED
    BY <2>2, <2>3, ShiftedCount
<1>6. \A S \in SUBSET T : Cardinality(first \cup up(S)) = Cardinality(S) + one
  <2>1. SUFFICES ASSUME NEW S \in SUBSET T
                 PROVE  Cardinality(first \cup up(S)) = Cardinality(S) + one
    OBVIOUS
  <2>2. /\ IsFiniteSet(up(S)) /\ Cardinality(up(S)) = Cardinality(S)
        /\ 1 \notin up(S) /\ Cardinality(S) \in Nat
    BY <1>5
  <2>. HIDE DEF up
  <2>3. CASE InstrumentOf(q[1]) = i
    <3>1. first \cup up(S) = up(S) \cup {1}
      BY <2>3
    <3>. QED
      BY <2>2, <2>3, <3>1, FS_AddElement
  <2>4. CASE InstrumentOf(q[1]) # i
    BY <2>2, <2>4
  <2>. QED
    BY <2>3, <2>4
<1>7. Cardinality(P) = c + one
  BY <1>3, <1>6
<1>8. \A n \in T : n + 1 \in P /\ Rank(q, i, n + 1) = Rank(t, i, n) + one
  <2>1. SUFFICES ASSUME NEW n \in T
                 PROVE  n + 1 \in P /\ Rank(q, i, n + 1) = Rank(t, i, n) + one
    OBVIOUS
  <2>2. n \in Int /\ 1 <= n
    BY <1>1, <1>2
  <2>3. {m \in P : m <= n + 1} = first \cup up({m \in T : m <= n})
    <3>1. \A m \in first : m <= n + 1
      BY <2>2
    <3>2. \A m \in T : m + 1 <= n + 1 <=> m <= n
      BY <1>2, <2>2
    <3>. QED
      BY <1>3, <3>1, <3>2
  <2>4. n + 1 \in P
    BY <1>3
  <2>5. Cardinality(first \cup up({m \in T : m <= n})) = Cardinality({m \in T : m <= n}) + one
    BY <1>6
  <2>. HIDE DEF first, up, one, P, T
  <2>. QED
    BY <2>3, <2>4, <2>5 DEF Rank, P, T
<1>9. /\ Share(q, i) \in Seq(Jobs) /\ Len(Share(q, i)) = c + one
      /\ \A n \in P : Share(q, i)[Rank(q, i, n)] = q[n]
  BY <1>7, ShareAt
<1>10. /\ Share(t, i) \in Seq(Jobs) /\ Len(Share(t, i)) = c
       /\ \A n \in T : Share(t, i)[Rank(t, i, n)] = t[n]
       /\ \A r \in 1 .. c : \E n \in T : Rank(t, i, n) = r
  BY <1>1, ShareAt, RanksCount
<1>11. \A r \in 1 .. c : Share(t, i)[r] = Share(q, i)[r + one]
  <2>1. SUFFICES ASSUME NEW r \in 1 .. c
                 PROVE  Share(t, i)[r] = Share(q, i)[r + one]
    OBVIOUS
  <2>2. PICK n \in T : Rank(t, i, n) = r
    BY <1>10
  <2>3. t[n] = q[n + 1]
    BY <1>1, <1>2
  <2>. HIDE DEF P, T, one
  <2>. QED
    BY <1>8, <1>9, <1>10, <2>2, <2>3
<1>. HIDE DEF c, P, T, up
<1>12. CASE InstrumentOf(Head(q)) # i
  <2>1. one = 0
    BY <1>1, <1>12
  <2>. HIDE DEF one
  <2>2. Len(Share(q, i)) = c /\ \A r \in 1 .. c : Share(t, i)[r] = Share(q, i)[r]
    BY <1>4, <1>9, <1>11, <2>1
  <2>3. Share(t, i) = Share(q, i)
    BY <1>9, <1>10, <2>2, SameJobs
  <2>. QED
    BY <1>12, <2>3 DEF t
<1>13. CASE InstrumentOf(Head(q)) = i
  <2>1. one = 1 /\ first = {1}
    BY <1>1, <1>13
  <2>2. 1 \in P /\ Rank(q, i, 1) = 1
    <3>1. \A n \in T : ~(n + 1 <= 1)
      BY <1>1, <1>2
    <3>2. {m \in P : m <= 1} = {1}
      BY <1>3, <2>1, <3>1 DEF up
    <3>3. Cardinality({1}) = 1
      BY FS_Singleton
    <3>. QED
      BY <1>3, <2>1, <3>2, <3>3 DEF Rank, P
  <2>. HIDE DEF one, first
  <2>. DEFINE s == Share(q, i)
  <2>3. s \in Seq(Jobs) /\ Len(s) = c + 1 /\ s[1] = q[1] /\ \A r \in 1 .. c : Share(t, i)[r] = s[r + 1]
    BY <1>9, <1>11, <2>1, <2>2
  <2>. HIDE DEF s
  <2>4. /\ s # <<>> /\ Head(s) = q[1] /\ Tail(s) \in Seq(Jobs) /\ Len(Tail(s)) = c
        /\ \A r \in 1 .. c : Tail(s)[r] = s[r + 1]
    BY <1>4, <2>3
  <2>5. Share(t, i) = Tail(s)
    BY <1>10, <2>3, <2>4, SameJobs
  <2>. QED
    BY <1>1, <1>13, <2>4, <2>5 DEF s, t
<1>. QED
  BY <1>12, <1>13

(* An empty queue has nothing for anyone.                                    *)
LEMMA ShareEmpty ==
  ASSUME NEW i
  PROVE  Share(<<>>, i) = <<>>
<1>1. Places(<<>>, i) = {}
  BY DEF Places
<1>2. <<>> \in Seq(Jobs) /\ Len(Share(<<>>, i)) = 0 /\ Share(<<>>, i) \in Seq(Jobs)
  <2>1. <<>> \in Seq(Jobs)
    OBVIOUS
  <2>2. Cardinality({}) = 0
    BY FS_EmptySet
  <2>3. Share(<<>>, i) \in Seq(Jobs) /\ Len(Share(<<>>, i)) = Cardinality(Places(<<>>, i))
    BY <2>1, ShareAt
  <2>. QED
    BY <1>1, <2>1, <2>2, <2>3
<1>. QED
  BY <1>2

-----------------------------------------------------------------------------
(* The mover implements SerialQueues.                                        *)

(* The queues of the mapping depend on the workers' queues and jobs only.    *)
LEMMA SameShares ==
  ASSUME \A i \in Instruments : /\ workers'[KeyOf(i)'].queue = workers[KeyOf(i)].queue
                                /\ workers'[KeyOf(i)'].job = workers[KeyOf(i)].job
  PROVE  Waiting' = Waiting /\ Running' = Running
<1>1. Waiting' = [i \in Instruments |-> Share(workers'[KeyOf(i)'].queue, i)]
  BY DEF Waiting, Share, Rank, Places, InstrumentOf
<1>3. Waiting' = Waiting
  BY <1>1 DEF Waiting
<1>2. Running' = Running
  BY DEF Running, InstrumentOf
<1>. QED
  BY <1>2, <1>3

(* While the mover does nothing, the process may end.                        *)
LEMMA ApartMaps ==
  ASSUME UNCHANGED moverVars, Alive' = Alive \/ ~ Alive'
  PROVE  [SQ!Next]_(SQ!vars)
<1>1. UNCHANGED <<mode, workers, poster, shut>>
  BY DEF moverVars
<1>2. \A i : KeyOf(i)' = KeyOf(i)
  BY <1>1 DEF KeyOf
<1>3. Waiting' = Waiting /\ Running' = Running
  BY <1>1, <1>2, SameShares
<1>4. Phase' = Phase \/ Phase' = "over"
  BY <1>1 DEF Phase
<1>. QED
  BY <1>3, <1>4 DEF SQ!Next, SQ!Exit, SQ!vars

(* The mover moves and no queue does.                                        *)
LEMMA QuietMaps ==
  ASSUME Waiting' = Waiting, Running' = Running, Phase' = Phase
  PROVE  [SQ!Next]_(SQ!vars)
BY DEF SQ!vars

(* A poster's push is the post.                                              *)
LEMMA PushMaps ==
  ASSUME MoverInv, NEW p \in Posters, PostPush(p), Phase' = Phase
  PROVE  SQ!Next
<1>. USE DEF MoverInv
<1>. DEFINE j == poster[p].job
            k == KeyOf(InstrumentOf(j))
<1>1. /\ poster[p].at = "found" /\ UNCHANGED <<mode, shut>>
      /\ workers' = [workers EXCEPT ![k].queue = Append(@, j)]
  BY DEF PostPush
<1>2. j \in Jobs /\ k \in Keys /\ InstrumentOf(j) \in Instruments
  BY <1>1, MoverParts DEF MoverOK, Found
<1>3. /\ workers[k] \in Worker /\ workers[k].queue \in Seq(Jobs)
      /\ workers \in [Keys -> Worker]
  BY <1>2, MoverParts DEF MoverTypes
<1>4. /\ workers'[k].queue = Append(workers[k].queue, j) /\ workers'[k].job = workers[k].job
      /\ \A l \in Keys \ {k} : workers'[l] = workers[l]
  BY <1>1, <1>2, <1>3 DEF Worker
<1>5. \A i \in Instruments : KeyOf(i) \in Keys /\ KeyOf(i)' = KeyOf(i)
  BY <1>1 DEF KeyOf, Keys
<1>6. \A i \in Instruments : i = InstrumentOf(j) => KeyOf(i) = k
  OBVIOUS
<1>. HIDE DEF j, k
<1>7. Running' = Running
  <2>1. \A i \in Instruments : workers'[KeyOf(i)'].job = workers[KeyOf(i)].job
    BY <1>4, <1>5
  <2>. QED
    BY <2>1 DEF Running, InstrumentOf
<1>8. \A i \in Instruments :
        Share(workers'[KeyOf(i)'].queue, i) =
          IF i = InstrumentOf(j) THEN Append(Share(workers[KeyOf(i)].queue, i), j)
                                 ELSE Share(workers[KeyOf(i)].queue, i)
  <2>1. SUFFICES ASSUME NEW i \in Instruments
                 PROVE  Share(workers'[KeyOf(i)'].queue, i) =
                          IF i = InstrumentOf(j) THEN Append(Share(workers[KeyOf(i)].queue, i), j)
                                                 ELSE Share(workers[KeyOf(i)].queue, i)
    OBVIOUS
  <2>2. CASE KeyOf(i) = k
    <3>1. Share(Append(workers[k].queue, j), i) =
            IF InstrumentOf(j) = i THEN Append(Share(workers[k].queue, i), j)
                                   ELSE Share(workers[k].queue, i)
      BY <1>2, <1>3, SharePush
    <3>. QED
      BY <1>4, <1>5, <2>2, <3>1
  <2>3. CASE KeyOf(i) # k
    BY <1>4, <1>5, <1>6, <2>3
  <2>. QED
    BY <2>2, <2>3
<1>9. Waiting' = [i \in Instruments |-> Share(workers'[KeyOf(i)'].queue, i)]
  BY DEF Waiting, Share, Rank, Places, InstrumentOf
<1>10. Waiting' = [Waiting EXCEPT ![InstrumentOf(j)] = Append(@, j)]
  BY <1>2, <1>8, <1>9 DEF Waiting
<1>11. SQ!Post(j)
  BY <1>7, <1>10 DEF SQ!Post
<1>. QED
  BY <1>2, <1>11 DEF SQ!Next

(* A worker that takes a job begins it.                                      *)
LEMMA TakeMaps ==
  ASSUME MoverInv, NEW k \in Keys, Take(k), Phase' = Phase
  PROVE  SQ!Next
<1>. USE DEF MoverInv
<1>. DEFINE q == workers[k].queue
            j == Head(q)
            a == InstrumentOf(j)
<1>1. workers[k] \in Worker /\ q \in Seq(Jobs) /\ workers \in [Keys -> Worker]
  BY MoverParts DEF MoverTypes
<1>2. /\ workers[k].at = "waiting" /\ q # <<>> /\ UNCHANGED <<mode, shut>>
      /\ workers' = [workers EXCEPT ![k].at = "running", ![k].queue = Tail(@), ![k].job = j]
  BY DEF Take
<1>3. /\ workers'[k].queue = Tail(q) /\ workers'[k].job = j
      /\ \A l \in Keys \ {k} : workers'[l] = workers[l]
  BY <1>1, <1>2 DEF Worker
<1>4. j \in Jobs /\ j = q[1] /\ 1 \in 1 .. Len(q)
  BY <1>1, <1>2
<1>5. a \in Instruments /\ KeyOf(a) = k /\ j # NoJob /\ workers[k].job = NoJob
  <2>1. a \in Instruments
    BY <1>4, MoverParts
  <2>2. KeyOf(a) = k /\ workers[k].job = NoJob
    BY <1>2, <1>4 DEF MoverOK, OwnJobs
  <2>3. j # NoJob
    BY <1>4 DEF Jobs, NoJob
  <2>. QED
    BY <2>1, <2>2, <2>3
<1>6. \A i \in Instruments : KeyOf(i) \in Keys /\ KeyOf(i)' = KeyOf(i)
  BY <1>2 DEF KeyOf, Keys
<1>. HIDE DEF q, j
<1>7. \A i \in Instruments :
        Share(workers'[KeyOf(i)'].queue, i) =
          IF i = a THEN Tail(Share(workers[KeyOf(i)].queue, i))
                   ELSE Share(workers[KeyOf(i)].queue, i)
  <2>1. SUFFICES ASSUME NEW i \in Instruments
                 PROVE  Share(workers'[KeyOf(i)'].queue, i) =
                          IF i = a THEN Tail(Share(workers[KeyOf(i)].queue, i))
                                   ELSE Share(workers[KeyOf(i)].queue, i)
    OBVIOUS
  <2>2. CASE KeyOf(i) = k
    <3>1. Share(Tail(q), i) = IF a = i THEN Tail(Share(q, i)) ELSE Share(q, i)
      BY <1>1, <1>2, SharePop DEF j
    <3>. QED
      BY <1>3, <1>6, <2>2, <3>1 DEF q
  <2>3. CASE KeyOf(i) # k
    BY <1>3, <1>5, <1>6, <2>3
  <2>. QED
    BY <2>2, <2>3
<1>8. Share(q, a) # <<>> /\ Head(Share(q, a)) = j
  BY <1>1, <1>2, SharePop DEF j
<1>9. Waiting' = [i \in Instruments |-> Share(workers'[KeyOf(i)'].queue, i)]
  BY DEF Waiting, Share, Rank, Places, InstrumentOf
<1>10. Waiting' = [Waiting EXCEPT ![a] = Tail(@)]
  BY <1>5, <1>7, <1>9 DEF Waiting
<1>11. Waiting[a] = Share(q, a)
  BY <1>5 DEF Waiting, q
<1>12. Running[a] = NoJob
  BY <1>5 DEF Running
<1>13. Running' = [Running EXCEPT ![a] = j]
  <2>1. \A i \in Instruments : KeyOf(i) # k => workers'[KeyOf(i)'].job = workers[KeyOf(i)].job /\ i # a
    BY <1>3, <1>5, <1>6
  <2>2. \A i \in Instruments : KeyOf(i) = k => workers'[KeyOf(i)'].job = j /\ workers[KeyOf(i)].job = NoJob
    BY <1>3, <1>5, <1>6
  <2>3. Running' = [i \in Instruments |->
                      IF workers'[KeyOf(i)'].job # NoJob /\ InstrumentOf(workers'[KeyOf(i)'].job) = i
                      THEN workers'[KeyOf(i)'].job ELSE NoJob]
    BY DEF Running, InstrumentOf
  <2>4. \A i \in Instruments : Running'[i] = IF i = a THEN j ELSE Running[i]
    BY <1>5, <2>1, <2>2, <2>3 DEF Running
  <2>. QED
    BY <2>3, <2>4 DEF Running
<1>14. SQ!Begin(a)
  BY <1>8, <1>10, <1>11, <1>12, <1>13 DEF SQ!Begin
<1>. QED
  BY <1>5, <1>14 DEF SQ!Next

(* A worker that is through with its job ends it.                            *)
LEMMA FinishMaps ==
  ASSUME MoverInv, NEW k \in Keys, Finish(k), Phase' = Phase
  PROVE  SQ!Next
<1>. USE DEF MoverInv
<1>. DEFINE j == workers[k].job
            a == InstrumentOf(j)
<1>1. workers[k] \in Worker /\ workers \in [Keys -> Worker]
  BY MoverParts DEF MoverTypes
<1>2. /\ workers[k].at = "running" /\ UNCHANGED <<mode, shut>>
      /\ workers' = [workers EXCEPT ![k].at = "waiting", ![k].job = NoJob]
  BY DEF Finish
<1>3. /\ workers'[k].queue = workers[k].queue /\ workers'[k].job = NoJob
      /\ \A l \in Keys \ {k} : workers'[l] = workers[l]
  BY <1>1, <1>2 DEF Worker
<1>4. j \in Jobs /\ KeyOf(a) = k
  BY <1>2 DEF MoverOK, OwnJobs
<1>5. a \in Instruments /\ j # NoJob
  BY <1>4, MoverParts DEF Jobs, NoJob
<1>6. \A i \in Instruments : KeyOf(i) \in Keys /\ KeyOf(i)' = KeyOf(i)
  BY <1>2 DEF KeyOf, Keys
<1>. HIDE DEF j
<1>7. Waiting' = Waiting
  <2>1. \A i \in Instruments : workers'[KeyOf(i)'].queue = workers[KeyOf(i)].queue
    BY <1>3, <1>6
  <2>2. Waiting' = [i \in Instruments |-> Share(workers'[KeyOf(i)'].queue, i)]
    BY DEF Waiting, Share, Rank, Places, InstrumentOf
  <2>. QED
    BY <2>1, <2>2 DEF Waiting
<1>8. Running[a] = j
  BY <1>4, <1>5 DEF Running, j
<1>9. Running' = [Running EXCEPT ![a] = NoJob]
  <2>1. \A i \in Instruments : KeyOf(i) # k => workers'[KeyOf(i)'].job = workers[KeyOf(i)].job /\ i # a
    BY <1>3, <1>4, <1>6
  <2>2. \A i \in Instruments : KeyOf(i) = k => workers'[KeyOf(i)'].job = NoJob /\ workers[KeyOf(i)].job = j
    BY <1>3, <1>6 DEF j
  <2>3. Running' = [i \in Instruments |->
                      IF workers'[KeyOf(i)'].job # NoJob /\ InstrumentOf(workers'[KeyOf(i)'].job) = i
                      THEN workers'[KeyOf(i)'].job ELSE NoJob]
    BY DEF Running, InstrumentOf
  <2>4. \A i \in Instruments : Running'[i] = IF i = a THEN NoJob ELSE Running[i]
    BY <1>5, <2>1, <2>2, <2>3 DEF Running
  <2>. QED
    BY <2>3, <2>4 DEF Running
<1>10. SQ!End(a)
  BY <1>5, <1>7, <1>8, <1>9 DEF SQ!End
<1>. QED
  BY <1>5, <1>10 DEF SQ!Next

(* Shutdown drops what waits for a worker that it stops.                     *)
LEMMA StopMaps ==
  ASSUME MoverInv, NEW k \in Keys, ShutStop(k), Alive, Alive'
  PROVE  SQ!Next
<1>. USE DEF MoverInv
<1>. DEFINE S == {i \in Instruments : KeyOf(i) = k}
<1>1. workers[k] \in Worker /\ workers \in [Keys -> Worker]
  BY MoverParts DEF MoverTypes
<1>2. /\ shut.at = "stopping" /\ UNCHANGED <<mode, shut>>
      /\ workers' = [workers EXCEPT ![k].stop = TRUE, ![k].queue = <<>>]
  BY DEF ShutStop
<1>3. /\ workers'[k].queue = <<>> /\ workers'[k].job = workers[k].job
      /\ \A l \in Keys \ {k} : workers'[l] = workers[l]
  BY <1>1, <1>2 DEF Worker
<1>4. \A i \in Instruments : KeyOf(i) \in Keys /\ KeyOf(i)' = KeyOf(i)
  BY <1>2 DEF KeyOf, Keys
<1>5. Phase = "closing" /\ Phase' = Phase
  BY <1>2 DEF Phase
<1>6. Running' = Running
  <2>1. \A i \in Instruments : workers'[KeyOf(i)'].job = workers[KeyOf(i)].job
    BY <1>3, <1>4
  <2>. QED
    BY <2>1 DEF Running, InstrumentOf
<1>7. Waiting' = [i \in Instruments |-> Share(workers'[KeyOf(i)'].queue, i)]
  BY DEF Waiting, Share, Rank, Places, InstrumentOf
<1>8. \A i \in Instruments :
        Share(workers'[KeyOf(i)'].queue, i) = IF i \in S THEN <<>> ELSE Waiting[i]
  <2>1. ASSUME NEW i \in Instruments, KeyOf(i) = k
        PROVE  Share(workers'[KeyOf(i)'].queue, i) = <<>>
    BY <1>3, <1>4, <2>1, ShareEmpty
  <2>2. ASSUME NEW i \in Instruments, KeyOf(i) # k
        PROVE  Share(workers'[KeyOf(i)'].queue, i) = Waiting[i]
    BY <1>3, <1>4, <2>2 DEF Waiting
  <2>. QED
    BY <2>1, <2>2
<1>9. Waiting' = [i \in Instruments |-> IF i \in S THEN <<>> ELSE Waiting[i]]
  BY <1>7, <1>8
<1>. HIDE DEF S
<1>10. SQ!Drop(S)
  BY <1>5, <1>6, <1>9 DEF SQ!Drop
<1>11. S \in SUBSET Instruments
  BY DEF S
<1>. QED
  BY <1>10, <1>11 DEF SQ!Next

(* A restart starts with empty queues.                                       *)
LEMMA RestartMaps ==
  ASSUME Restart
  PROVE  SQ!Next
<1>1. /\ workers' = [k \in Keys |-> NoWorker] /\ shut' = [at |-> "open", copied |-> {}]
      /\ crash' = [at |-> "none", by |-> "none", watchdog |-> TRUE]
  BY DEF Restart
<1>2. Phase = "over" /\ Phase' = "open"
  BY <1>1 DEF Restart, Phase, Alive
<1>3. \A i \in Instruments : KeyOf(i)' \in Keys
  BY DEF KeyOf, Keys
<1>4. \A i \in Instruments : /\ workers'[KeyOf(i)'].queue = <<>>
                             /\ workers'[KeyOf(i)'].job = NoJob
  BY <1>1, <1>3 DEF NoWorker
<1>5. Waiting' = [i \in Instruments |-> Share(workers'[KeyOf(i)'].queue, i)]
  BY DEF Waiting, Share, Rank, Places, InstrumentOf
<1>6. Waiting' = [i \in Instruments |-> <<>>]
  BY <1>4, <1>5, ShareEmpty
<1>7. Running' = [i \in Instruments |-> NoJob]
  BY <1>4 DEF Running, InstrumentOf
<1>8. SQ!Restart
  BY <1>2, <1>6, <1>7 DEF SQ!Restart, SQ!Init
<1>. QED
  BY <1>8 DEF SQ!Next

(* The mover of the first process is empty.                                  *)
LEMMA StartMaps ==
  ASSUME LifeInit
  PROVE  SQ!Init
<1>1. /\ workers = [k \in Keys |-> NoWorker] /\ shut = [at |-> "open", copied |-> {}]
      /\ crash = [at |-> "none", by |-> "none", watchdog |-> TRUE]
  BY DEF LifeInit, MoverInit
<1>2. \A i \in Instruments : KeyOf(i) \in Keys
  BY DEF KeyOf, Keys
<1>3. \A i \in Instruments : workers[KeyOf(i)].queue = <<>> /\ workers[KeyOf(i)].job = NoJob
  BY <1>1, <1>2 DEF NoWorker
<1>4. Waiting = [i \in Instruments |-> <<>>]
  BY <1>3, ShareEmpty DEF Waiting
<1>5. Running = [i \in Instruments |-> NoJob]
  BY <1>3 DEF Running
<1>6. Phase = "open"
  BY <1>1 DEF Phase, Alive
<1>. QED
  BY <1>4, <1>5, <1>6 DEF SQ!Init

(* Posts, and the workers between two jobs, are steps of the queues.         *)
LEMMA MoverMaps ==
  ASSUME LifeInv, MoverStep
  PROVE  [SQ!Next]_(SQ!vars)
<1>. USE DEF LifeInv
<1>1. Alive' = Alive
  BY DEF MoverStep, Alive
<1>2. ASSUME NEW p \in Posters, NEW i \in Instruments, PostCheck(p, i)
      PROVE  [SQ!Next]_(SQ!vars)
  <2>1. UNCHANGED <<mode, workers, shut>>
    BY <1>2 DEF PostCheck
  <2>2. Waiting' = Waiting /\ Running' = Running
    BY <2>1, SameShares DEF KeyOf
  <2>. QED
    BY <1>1, <2>1, <2>2, QuietMaps DEF Phase
<1>3. CASE ShardingResolve
  <2>1. mode = "unset" /\ UNCHANGED <<workers, shut>>
    BY <1>3 DEF ShardingResolve
  <2>2. \A k \in Keys : workers[k].queue = <<>> /\ workers[k].job = NoJob
    BY <2>1 DEF MoverInv, MoverOK, OwnJobs
  <2>3. \A i \in Instruments : KeyOf(i) \in Keys /\ KeyOf(i)' \in Keys
    BY DEF KeyOf, Keys
  <2>4. Waiting' = Waiting /\ Running' = Running
    BY <2>1, <2>2, <2>3, SameShares
  <2>. QED
    BY <1>1, <2>1, <2>4, QuietMaps DEF Phase
<1>4. ASSUME NEW p \in Posters, WorkerFor(p)
      PROVE  [SQ!Next]_(SQ!vars)
  <2>1. UNCHANGED <<mode, shut>> /\ workers \in [Keys -> Worker]
    BY <1>4 DEF WorkerFor, MoverInv, MoverTypes
  <2>2. \A k \in Keys : workers'[k].queue = workers[k].queue /\ workers'[k].job = workers[k].job
    <3>1. \/ workers' = workers
          \/ \E l : workers' = [workers EXCEPT ![l].at = "waiting"]
      BY <1>4 DEF WorkerFor
    <3>2. ASSUME NEW l, workers' = [workers EXCEPT ![l].at = "waiting"], NEW k \in Keys
          PROVE  workers'[k].queue = workers[k].queue /\ workers'[k].job = workers[k].job
      <4>1. workers'[k] = IF k = l THEN [workers[k] EXCEPT !.at = "waiting"] ELSE workers[k]
        BY <2>1, <3>2
      <4>2. workers[k] \in Worker
        BY <2>1
      <4>. QED
        BY <4>1, <4>2 DEF Worker
    <3>. QED
      BY <3>1, <3>2
  <2>3. \A i \in Instruments : KeyOf(i) \in Keys /\ KeyOf(i)' = KeyOf(i)
    BY <2>1 DEF KeyOf, Keys
  <2>4. Waiting' = Waiting /\ Running' = Running
    BY <2>2, <2>3, SameShares
  <2>. QED
    BY <1>1, <2>1, <2>4, QuietMaps DEF Phase
<1>5. ASSUME NEW p \in Posters, PostPush(p)
      PROVE  [SQ!Next]_(SQ!vars)
  <2>1. Phase' = Phase
    BY <1>1, <1>5 DEF Phase, PostPush
  <2>. QED
    BY <1>5, <2>1, PushMaps
<1>6. ASSUME NEW k \in Keys, Take(k)
      PROVE  [SQ!Next]_(SQ!vars)
  <2>1. Phase' = Phase
    BY <1>1, <1>6 DEF Phase, Take
  <2>. QED
    BY <1>6, <2>1, TakeMaps
<1>7. ASSUME NEW k \in Keys, Leave(k)
      PROVE  [SQ!Next]_(SQ!vars)
  <2>1. UNCHANGED <<mode, shut>> /\ workers \in [Keys -> Worker] /\ workers' = [workers EXCEPT ![k].at = "gone"]
    BY <1>7 DEF Leave, MoverInv, MoverTypes
  <2>2. \A l \in Keys : workers'[l].queue = workers[l].queue /\ workers'[l].job = workers[l].job
    BY <2>1 DEF Worker
  <2>3. \A i \in Instruments : KeyOf(i) \in Keys /\ KeyOf(i)' = KeyOf(i)
    BY <2>1 DEF KeyOf, Keys
  <2>4. Waiting' = Waiting /\ Running' = Running
    BY <2>2, <2>3, SameShares
  <2>. QED
    BY <1>1, <2>1, <2>4, QuietMaps DEF Phase
<1>. QED
  BY <1>2, <1>3, <1>4, <1>5, <1>6, <1>7 DEF MoverStep

(* Shutdown closes the queues and drops what waits.                          *)
LEMMA ShutMaps ==
  ASSUME LifeInv, ShutMover
  PROVE  [SQ!Next]_(SQ!vars)
<1>. USE DEF LifeInv
<1>1. Alive /\ Alive'
  BY DEF ShutMover, Runs, Alive
<1>2. CASE ShutCall \/ ShutCopy \/ ShutJoin
  <2>1. UNCHANGED <<mode, workers>>
    BY <1>2 DEF ShutCall, ShutCopy, ShutJoin
  <2>2. Waiting' = Waiting /\ Running' = Running
    BY <2>1, SameShares DEF KeyOf
  <2>3. CASE ShutCall
    <3>1. Phase = "open" /\ Phase' = "closing"
      BY <1>1, <2>3 DEF ShutCall, Phase, MoverInv, MoverTypes
    <3>. QED
      BY <2>2, <3>1 DEF SQ!Next, SQ!Close
  <2>4. CASE ShutCopy \/ ShutJoin
    <3>1. Phase' = Phase
      BY <1>1, <2>4 DEF ShutCopy, ShutJoin, Phase, MoverInv, MoverTypes
    <3>. QED
      BY <2>2, <3>1, QuietMaps
  <2>. QED
    BY <1>2, <2>3, <2>4
<1>3. ASSUME NEW k \in Keys, ShutStop(k)
      PROVE  [SQ!Next]_(SQ!vars)
  BY <1>1, <1>3, StopMaps
<1>. QED
  BY <1>2, <1>3 DEF ShutMover

(* Every step of the process is a step of the queues, or none.               *)
LEMMA StepMaps ==
  ASSUME LifeInv, [LifeNext]_lifeVars
  PROVE  [SQ!Next]_(SQ!vars)
<1>. USE DEF LifeInv
<1>1. CASE \/ PlainStep \/ LoadConfiguration \/ VerifyApiConnectivity
           \/ InitializeExternalFeed \/ VerifyExternalFeed
           \/ CollectOids \/ EmptyFile \/ \E o \in Orders : CancelOid(o)
  <2>1. Apart
    BY <1>1 DEF PlainStep, LoadConfiguration, VerifyApiConnectivity, InitializeExternalFeed,
       VerifyExternalFeed, CollectOids, EmptyFile, CancelOid, StartupStep
  <2>. QED
    BY <2>1, ApartMaps DEF Apart, Alive
<1>2. CASE \/ RegisterStrategy \/ StartTrading \/ LeaveLoop
           \/ CancelTrackedLegs \/ Escalate \/ StopAll
           \/ (\E i \in Instruments : SweepSymbol(i))
           \/ SweepAll \/ Recheck \/ StopFeed \/ UNCHANGED lifeVars
  <2>1. UNCHANGED <<moverVars, crash>>
    BY <1>2 DEF RegisterStrategy, StartTrading, LeaveLoop, CancelTrackedLegs, Escalate,
       StopAll, SweepSymbol, SweepAll, Recheck, StopFeed, Apart, lifeVars
  <2>. QED
    BY <2>1, ApartMaps DEF Alive
<1>3. CASE \/ StopWatchdog \/ Return \/ WatchdogCancels \/ HandlerRaises
           \/ \E t \in Threads : FatalSignal(t)
  <2>1. UNCHANGED moverVars
    BY <1>3 DEF StopWatchdog, Return, WatchdogCancels, HandlerRaises, FatalSignal
  <2>2. Alive
    BY <1>3 DEF StopWatchdog, Return, WatchdogCancels, HandlerRaises, FatalSignal, MainAt, Runs, Alive
  <2>. QED
    BY <2>1, <2>2, ApartMaps
<1>4. ASSUME NEW k \in Keys, Decide(k) \/ Send(k) \/ File(k)
      PROVE  [SQ!Next]_(SQ!vars)
  <2>1. crash' = crash /\ (UNCHANGED moverVars \/ Finish(k))
    BY <1>4 DEF Decide, Send, File, EndJob
  <2>2. CASE UNCHANGED moverVars
    BY <2>1, <2>2, ApartMaps DEF Alive
  <2>3. CASE Finish(k)
    <3>1. Phase' = Phase
      BY <2>1, <2>3 DEF Phase, Alive, Finish
    <3>. QED
      BY <2>3, <3>1, FinishMaps
  <2>. QED
    BY <2>1, <2>2, <2>3
<1>. QED
  BY <1>1, <1>2, <1>3, <1>4, MoverMaps, ShutMaps, RestartMaps DEF LifeNext

(* From one process to the next the mover runs each instrument's jobs one at *)
(* a time and in the order of their posts, loses none before shutdown is     *)
(* called, and drops only what waits then.                                   *)
THEOREM MoverKeepsOrder ==
  ASSUME LifeConstants
  PROVE  LifeSpec => JobsRunInOrder /\ SQ!Spec
<1>1. LifeInit => LifeInv /\ SQ!Init
  BY LifeStart, StartMaps
<1>2. LifeInv /\ [LifeNext]_lifeVars => LifeInv'
  BY LifeStep
<1>3. LifeInv /\ [LifeNext]_lifeVars => [SQ!Next]_(SQ!vars)
  BY StepMaps
<1>4. LifeInv /\ [LifeNext]_lifeVars => [lifeVars' # lifeVars => [SQ!Next]_(SQ!vars)]_lifeVars
  BY <1>3
<1>. QED
  BY <1>1, <1>2, <1>3, <1>4, PTL DEF LifeSpec, JobsRunInOrder, SQ!Spec
=============================================================================

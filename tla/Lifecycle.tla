------------------------------ MODULE Lifecycle ------------------------------
(***************************************************************************)
(* The life of the process, start-up to exit, and of the orders it leaves   *)
(* at the venue: the start-up steps and their clean slate                   *)
(* (src/src/core/StartupSequence.cpp), the trading loop, the shutdown with  *)
(* its cancel sweeps, and the watchdog that sweeps when a fatal signal      *)
(* comes (src/examples/main.cpp). Jobs of the order mover place the orders. *)
(* A process may be started again after it has exited or died; the venue's  *)
(* orders and the file orders.json are what is left of the one before.      *)
(*                                                                          *)
(* An order rests until some request cancels it; fills, and the cancels of  *)
(* normal quoting, are the subject of PairCycle. A cancel request that      *)
(* succeeds has taken effect at the venue when its answer arrives.          *)
(***************************************************************************)
EXTENDS OrderMover, FiniteSets

CONSTANTS MaxRuns    \* bound: how often the process is started

VARIABLES
  life,    \* main's progress and settings: see LifeInit
  venue,   \* the orders that rest at the venue
  table,   \* the instruments with an active row in OrderManager
  filed,   \* the orders whose exchange ids are in orders.json
  task,    \* per worker: how far the job that it runs has come
  crash    \* the fatal signal: handler and watchdog

lifeVars == <<moverVars, life, venue, table, filed, task, crash>>

Orders == (1 .. MaxRuns) \X Jobs
OrderOn(S) == {o \in venue : InstrumentOf(o[2]) \in S}
StepAfter(n) == IF n = 2 THEN 4 ELSE n + 1    \* step 3 has no caller

LifeInit ==
  /\ MoverInit
  /\ life = [at |-> "startup", step |-> 1, run |-> 1, configured |-> FALSE, todo |-> {}, ok |-> {},
             kept |-> {}, listed |-> FALSE, running |-> FALSE, feed |-> FALSE]
  /\ venue = {} /\ table = {} /\ filed = {}
  /\ task = [k \in Keys |-> "new"]
  /\ crash = [at |-> "none", by |-> "none", watchdog |-> TRUE]

Alive == crash.at # "dead"
Runs(t) == Alive /\ crash.by # t
MainAt(pc) == Runs("main") /\ life.at = pc
Goto(pc) == life' = [life EXCEPT !.at = pc]
NoOrder == UNCHANGED <<venue, table, filed>>
Apart == UNCHANGED <<moverVars, task, crash>>
-----------------------------------------------------------------------------
(* Start-up. A step that fails throws, and main goes on to the shutdown.     *)
Outcome(ok) ==
  IF ~ ok THEN life' = [life EXCEPT !.at = "legs", !.step = 0]
  ELSE IF life.step = 10 THEN Goto("listing")
  ELSE IF life.step = 23 THEN life' = [life EXCEPT !.at = "register", !.step = 0]
  ELSE life' = [life EXCEPT !.step = StepAfter(@)]
StartupStep(n) == MainAt("startup") /\ life.step = n /\ NoOrder /\ Apart

\* steps whose outcome nothing else depends on: 1, 4 to 9, 11 to 13, 15 to 21, 23
PlainStep ==
  /\ life.step \notin {2, 10, 14, 22} /\ StartupStep(life.step)
  /\ \E ok \in BOOLEAN : Outcome(ok)

LoadConfiguration ==
  /\ StartupStep(2)
  /\ \/ life' = [life EXCEPT !.configured = TRUE, !.step = StepAfter(@)]
     \/ Outcome(FALSE)

(* A setting is chosen in the step that reads it. *)
VerifyApiConnectivity ==
  /\ StartupStep(10)
  /\ \E require_api, strict_ax, reachable, instruments \in BOOLEAN :
       Outcome(IF reachable THEN instruments \/ ~ (strict_ax /\ require_api) ELSE ~ require_api)

InitializeExternalFeed ==
  /\ StartupStep(14)
  /\ \E enabled, require_feed \in BOOLEAN : Outcome(enabled \/ ~ require_feed)

\* a feed that is off was not required in step 14 either; one that is on may have too few
\* venues up when the timeout is over
VerifyExternalFeed ==
  /\ StartupStep(22)
  /\ \E enabled, up, crash_on_feed \in BOOLEAN : Outcome(~ enabled \/ up \/ ~ crash_on_feed)

(* The clean slate, between steps 10 and 11: what the file names and what    *)
(* the venue lists is cancelled, one order at a time, and the file emptied.  *)
\* mutant: only the file is read when there is one
CollectFiledOids ==
  /\ MainAt("listing") /\ NoOrder /\ Apart
  /\ \E listed \in BOOLEAN :
       life' = [life EXCEPT !.at = "slate", !.listed = listed,
                            !.todo = IF listed /\ filed = {} THEN venue ELSE filed]
CollectOids ==
  /\ MainAt("listing") /\ NoOrder /\ Apart
  /\ \E listed \in BOOLEAN :     \* FALSE: the gateway's listing and the other one failed
       life' = [life EXCEPT !.at = "slate", !.listed = listed,
                            !.todo = filed \cup IF listed THEN venue ELSE {}]

CancelOid(o) ==
  /\ MainAt("slate") /\ o \in life.todo
  /\ \/ life' = [life EXCEPT !.todo = @ \ {o}] /\ venue' = venue \ {o}
     \/ life' = [life EXCEPT !.todo = @ \ {o}, !.kept = @ \cup {o}] /\ UNCHANGED venue
  /\ UNCHANGED <<table, filed>> /\ Apart

\* the file is emptied whatever became of the cancels; the write itself may fail
EmptyFile ==
  /\ MainAt("slate") /\ life.todo = {}
  /\ filed' \in {filed, {}}
  /\ life' = [life EXCEPT !.at = "startup", !.step = 11]
  /\ UNCHANGED <<venue, table>> /\ Apart
-----------------------------------------------------------------------------
(* The trading loop.                                                         *)
RegisterStrategy == MainAt("register") /\ Goto("ready") /\ NoOrder /\ Apart

StartTrading ==
  /\ MainAt("ready")
  /\ life' = [life EXCEPT !.at = "loop", !.running = TRUE, !.feed = TRUE]
  /\ NoOrder /\ Apart

\* SIGINT, SIGTERM or SIGHUP: the loop ends and the desk thread is joined
LeaveLoop ==
  /\ MainAt("loop") /\ poster["desk"].at = "idle"
  /\ life' = [life EXCEPT !.at = "legs", !.kept = {}]
  /\ NoOrder /\ Apart

(* A job of the mover: the gates are tested, the order is sent, its exchange *)
(* id written to orders.json.                                                *)
OrderOf(k) == <<life.run, workers[k].job>>
EndJob(k) == Finish(k) /\ task' = [task EXCEPT ![k] = "new"]
Decide(k) ==
  /\ Runs(k) /\ workers[k].at = "running" /\ task[k] = "new"
  /\ IF life.running THEN task' = [task EXCEPT ![k] = "send"] /\ UNCHANGED moverVars
                     ELSE EndJob(k)
  /\ UNCHANGED <<life, crash>> /\ NoOrder
Send(k) ==
  /\ Runs(k) /\ task[k] = "send"
  /\ \/ /\ venue' = venue \cup {OrderOf(k)}
        /\ table' = table \cup {InstrumentOf(workers[k].job)}
        /\ task' = [task EXCEPT ![k] = "file"] /\ UNCHANGED moverVars
     \/ EndJob(k) /\ UNCHANGED <<venue, table>>    \* rejected
  /\ UNCHANGED <<life, filed, crash>>
File(k) ==
  /\ Runs(k) /\ task[k] = "file" /\ EndJob(k)
  /\ filed' = filed \cup {OrderOf(k)}
  /\ UNCHANGED <<life, venue, table, crash>>

PosterRuns(p) ==
  Runs(p) /\ IF p = "feed" THEN life.feed ELSE life.at \in {"ready", "loop"}
MoverStep ==
  /\ \/ \E p \in Posters, i \in Instruments : PosterRuns(p) /\ PostCheck(p, i)
     \/ Alive /\ ShardingResolve
     \/ \E p \in Posters : Runs(p) /\ (WorkerFor(p) \/ PostPush(p))
     \/ \E k \in Keys : Runs(k) /\ (Take(k) \/ Leave(k))
  /\ UNCHANGED <<life, task, crash>> /\ NoOrder
-----------------------------------------------------------------------------
(* The shutdown.                                                             *)
\* every tracked leg is cancelled; for the instruments of those the venue still lists when
\* the budget is spent, or that it could not list, cancel_all is sent; the file is emptied
CancelTrackedLegs ==
  /\ MainAt("legs")
  /\ \E gone \in SUBSET {o \in venue : o[1] = life.run} :
       /\ venue' = venue \ gone
       /\ life' = [life EXCEPT !.at = "escalate"]
  /\ UNCHANGED <<table, filed>> /\ Apart
Escalate ==
  /\ MainAt("escalate")
  /\ \E axs \in SUBSET Instruments : venue' = venue \ OrderOn(axs)
  /\ filed' \in {filed, {}}
  /\ Goto("mover") /\ UNCHANGED table /\ Apart

ShutMover ==
  /\ Runs("main") /\ UNCHANGED <<task, crash>> /\ NoOrder
  /\ \/ life.at = "mover" /\ ShutCall /\ Goto("joining")
     \/ life.at = "joining" /\ (ShutCopy \/ \E k \in Keys : ShutStop(k)) /\ UNCHANGED life
     \/ life.at = "joining" /\ ShutJoin /\ Goto("strategies")

\* the symbols to sweep: those of active rows, of strategies and of the configuration
StopAll ==
  /\ MainAt("strategies")
  /\ life' = [life EXCEPT !.at = "symbols", !.running = FALSE, !.ok = {},
                          !.todo = IF life.configured THEN Instruments ELSE table]
  /\ NoOrder /\ Apart
SweepSymbol(i) ==
  /\ MainAt("symbols") /\ i \in life.todo
  /\ \/ /\ venue' = venue \ OrderOn({i}) /\ table' = table \ {i}
        /\ life' = [life EXCEPT !.todo = @ \ {i}, !.ok = @ \cup {i}]
     \/ life' = [life EXCEPT !.todo = @ \ {i}] /\ UNCHANGED <<venue, table>>
  /\ UNCHANGED filed /\ Apart
SweepAll ==
  /\ MainAt("symbols") /\ life.todo = {}
  /\ \/ venue' = {} /\ life' = [life EXCEPT !.at = "recheck", !.ok = @ \cup {"all"}]
     \/ Goto("recheck") /\ UNCHANGED venue
  /\ UNCHANGED <<table, filed>> /\ Apart
Recheck ==
  /\ MainAt("recheck")
  /\ \/ table # {} /\ venue' = {} /\ life' = [life EXCEPT !.at = "feed", !.ok = @ \cup {"again"}]
     \/ UNCHANGED venue /\ Goto("feed")
  /\ table' = {}
  /\ UNCHANGED filed /\ Apart

StopFeed ==
  /\ MainAt("feed") /\ poster["feed"].at = "idle"
  /\ life' = [life EXCEPT !.at = "teardown", !.feed = FALSE]
  /\ NoOrder /\ Apart
StopWatchdog ==
  /\ MainAt("teardown") /\ crash.at # "asked" /\ Goto("return")
  /\ crash' = [crash EXCEPT !.watchdog = FALSE]
  /\ UNCHANGED <<moverVars, task>> /\ NoOrder
\* the statics are destroyed: a mover thread nobody joined ends in std::terminate
Return ==
  /\ MainAt("return") /\ Goto("exit") /\ NoOrder
  /\ crash' = IF crash.at = "none" /\ \E k \in Keys : workers[k].at \in {"waiting", "running"}
              THEN [crash EXCEPT !.at = "asked", !.by = "main"]
              ELSE [crash EXCEPT !.at = "dead"]
  /\ UNCHANGED <<moverVars, task>>
-----------------------------------------------------------------------------
(* Fatal signals.                                                            *)
Threads == {"main"} \cup Keys
\* an exception that leaves the loop meets the desk thread that was not joined: SIGABRT
LoopThrows == MainAt("loop") /\ crash.at = "none"
\* the handler keeps the thread; a second signal kills the process at once
FatalSignal(t) ==
  /\ Runs(t)
  /\ IF t = "main" THEN LoopThrows ELSE workers[t].at = "running"
  /\ crash' = IF crash.at = "none" THEN [crash EXCEPT !.at = "asked", !.by = t]
                                   ELSE [crash EXCEPT !.at = "dead"]
  /\ UNCHANGED <<moverVars, life, task>> /\ NoOrder
WatchdogCancels ==
  /\ crash.at = "asked" /\ crash.watchdog
  /\ venue' \in {venue, {}}
  /\ crash' = [crash EXCEPT !.at = "done"]
  /\ UNCHANGED <<moverVars, life, table, filed, task>>
\* the watchdog is done, or five seconds have passed
HandlerRaises ==
  /\ crash.at \in {"asked", "done"}
  /\ crash' = [crash EXCEPT !.at = "dead"]
  /\ UNCHANGED <<moverVars, life, task>> /\ NoOrder

\* a new process: memory is fresh, the venue and the file are as they were left
Restart ==
  /\ ~ Alive /\ life.run < MaxRuns
  /\ life' = [at |-> "startup", step |-> 1, run |-> life.run + 1, configured |-> FALSE, todo |-> {},
              ok |-> {}, kept |-> {}, listed |-> FALSE, running |-> FALSE, feed |-> FALSE]
  /\ mode' = "unset" /\ workers' = [k \in Keys |-> NoWorker]
  /\ poster' = [p \in Posters |-> [at |-> "idle", job |-> NoJob, posts |-> poster[p].posts]]
  /\ shut' = [at |-> "open", copied |-> {}]
  /\ task' = [k \in Keys |-> "new"] /\ table' = {}
  /\ crash' = [at |-> "none", by |-> "none", watchdog |-> TRUE]
  /\ UNCHANGED <<venue, filed>>

LifeNext ==
  \/ PlainStep \/ LoadConfiguration \/ VerifyApiConnectivity \/ InitializeExternalFeed
  \/ VerifyExternalFeed \/ CollectOids \/ EmptyFile
  \/ \E o \in Orders : CancelOid(o)
  \/ RegisterStrategy \/ StartTrading \/ LeaveLoop
  \/ \E k \in Keys : Decide(k) \/ Send(k) \/ File(k)
  \/ MoverStep
  \/ CancelTrackedLegs \/ Escalate \/ ShutMover \/ StopAll
  \/ \E i \in Instruments : SweepSymbol(i)
  \/ SweepAll \/ Recheck \/ StopFeed \/ StopWatchdog \/ Return
  \/ \E t \in Threads : FatalSignal(t)
  \/ WatchdogCancels \/ HandlerRaises \/ Restart

LifeSpec == LifeInit /\ [][LifeNext]_lifeVars
-----------------------------------------------------------------------------
(* The mover implements SerialQueues, from one process to the next. An       *)
(* instrument's share of a queue is its jobs in their order.                 *)
Places(queue, i) == {n \in 1 .. Len(queue) : InstrumentOf(queue[n]) = i}
Rank(queue, i, n) == Cardinality({m \in Places(queue, i) : m <= n})
Share(queue, i) ==
  [r \in 1 .. Cardinality(Places(queue, i)) |->
     queue[CHOOSE n \in Places(queue, i) : Rank(queue, i, n) = r]]

Waiting == [i \in Instruments |-> Share(workers[KeyOf(i)].queue, i)]
Running == [i \in Instruments |->
              LET j == workers[KeyOf(i)].job IN IF j # NoJob /\ InstrumentOf(j) = i THEN j ELSE NoJob]
Phase   == IF ~ Alive THEN "over" ELSE IF shut.at = "open" THEN "open" ELSE "closing"
SQ == INSTANCE SerialQueues WITH waiting <- Waiting, running <- Running, phase <- Phase
\* SQ!Spec, with the steps that leave the process as it is put aside before they are mapped
JobsRunInOrder == SQ!Init /\ [][lifeVars' # lifeVars => [SQ!Next]_(SQ!vars)]_lifeVars

\* The hard rule of the shutdown (StartupSequence.cpp:2282), as far as it goes: an order that
\* still rests after the sweeps is one that no sweep that succeeded was for, or it was placed
\* by a mover thread started so late that the mover's shutdown did not see it.
SweptFlat ==
  life.at \in {"feed", "teardown", "return", "exit"} =>
    \A o \in venue : \/ life.ok \cap {"all", "again", InstrumentOf(o[2])} = {}
                     \/ o[1] = life.run /\ KeyOf(InstrumentOf(o[2])) \in Late

\* An order of an earlier process that rests when trading starts has survived its own cancel,
\* or both listings failed at start-up, however the earlier process ended.
Inherited ==
  life.at \in {"ready", "loop"} =>
    \A o \in venue : o[1] < life.run => o \in life.kept \/ ~ life.listed
=============================================================================

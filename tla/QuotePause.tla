---------------------------- MODULE QuotePause ----------------------------
(***************************************************************************)
(* What stops a stack's quoting: the breaker that watches one market for    *)
(* all stacks (FastMarketMonitor), the stack's own breaker (MwrBreaker),    *)
(* and the hold of its instrument (mm_orders_enabled switched off). The     *)
(* monitor runs on a mover worker of its own and queues a pull behind the   *)
(* jobs of the instrument; the jobs look at the gate and place later.       *)
(* One stack, one side, one order at a time, one of the two breakers set    *)
(* up. An order the gateway refused to cancel, or whose placement was not   *)
(* answered, is not followed further (OrderGateway). Theo and desk gates    *)
(* are left out: a job past the gate may always end without placing.        *)
(***************************************************************************)
EXTENDS Integers, Sequences, SequencesExt

CONSTANTS
  Mids,        \* the prices both breakers sample
  MoveTicks,   \* size_of_move_ticks
  WindowSecs,  \* time_of_move_sec
  PullSecs,    \* pull_sec
  GapSecs,     \* FastMarketCore::kGapMs
  SelfStale,   \* FastMarketCore::kSelfStaleMs
  MaxSecs,     \* bound: the clock
  MaxTicks,    \* bound: sample jobs that wait
  MaxTodo      \* bound: jobs that wait, pulls not counted

VARIABLES
  breaker,     \* which one is set up: "market" or "stack"; the other's size is 0
  second,      \* the steady clock
  ticksDue,    \* sample jobs the main loop has posted
  watch,       \* FastMarketCore: samples and deadline of its breaker, time of its last tick
  range,       \* mm_mwr_: samples and deadline of the stack's breaker
  blind,       \* history: when the monitor last failed open
  ordersOn,    \* mm_orders_enabled of the instrument, in the configuration
  prevOn,      \* mm_prev_mm_orders_enabled_
  todo,        \* the jobs on the instrument's mover worker
  job,         \* the job that runs there and has passed the gate
  resting      \* the order at the venue: "none", "quoted", "uncancelled" (a pull or a
               \* cancel of it timed out), "late" (placed while prevOn was off)

pauseState == <<breaker, second, ticksDue, watch, range, blind, ordersOn, prevOn, todo, job,
                resting>>

PauseInit ==
  /\ breaker \in {"market", "stack"}
  /\ second = 0 /\ ticksDue = 0 /\ blind = 0
  /\ watch = [samples |-> <<>>, until |-> 0, ticked |-> -1]
  /\ range = [samples |-> <<>>, until |-> 0]
  /\ ordersOn = TRUE /\ prevOn = TRUE
  /\ todo = <<>> /\ job = "idle" /\ resting = "none"
-----------------------------------------------------------------------------
(* MwrBreaker *)
Old(s) == s.at < second - WindowSecs
Recent(seen) == CHOOSE i \in 1 .. Len(seen) : ~Old(seen[i]) /\ \A j \in 1 .. i - 1 : Old(seen[j])
PushSample(b, mid) ==
  LET seen == Append(b.samples, [at |-> second, mid |-> mid]) IN
    [b EXCEPT !.samples = SubSeq(seen, Recent(seen), Len(seen))]
Paused(b) == second < b.until
Breaches(b) ==
  /\ ~Paused(b)
  /\ \E s, t \in ToSet(b.samples) : s.mid - t.mid > MoveTicks
Tripped(b) == [b EXCEPT !.until = second + (IF PullSecs > WindowSecs THEN PullSecs ELSE WindowSecs)]

(* the gates: mmMarketMakerOrdersPlacementAllowed and mmMwrIsPausedNow *)
NotPaused == ~Paused(watch) /\ ~Paused(range)
MayPlace  == ordersOn /\ NotPaused
-----------------------------------------------------------------------------
(* the clock; the main loop posts a sample job a second, unless it stalls *)
Second ==
  /\ second < MaxSecs
  /\ second' = second + 1
  /\ \/ UNCHANGED ticksDue
     \/ breaker = "market" /\ ticksDue < MaxTicks /\ ticksDue' = ticksDue + 1
  /\ UNCHANGED <<breaker, watch, range, blind, ordersOn, prevOn, todo, job, resting>>

(* FastMarketMonitor::onMoverTick: switched off it keeps its window, a      *)
(* stale feed or a late tick of its own clears it, a price that is not      *)
(* valid is skipped; a breach sets the deadline and queues the pull         *)
BeatLate == watch.ticked >= 0 /\ second - watch.ticked > SelfStale
SampleDue == ticksDue > 0 /\ ticksDue' = ticksDue - 1
Ticked(b) == [b EXCEPT !.ticked = second]
TickDisabled ==
  /\ SampleDue /\ watch' = Ticked(watch)
  /\ UNCHANGED <<breaker, second, range, blind, ordersOn, prevOn, todo, job, resting>>
TickFailsOpen ==
  /\ SampleDue /\ watch' = [Ticked(watch) EXCEPT !.samples = <<>>] /\ blind' = second
  /\ UNCHANGED <<breaker, second, range, ordersOn, prevOn, todo, job, resting>>
TickInvalid ==
  /\ SampleDue /\ ~BeatLate /\ watch' = Ticked(watch)
  /\ UNCHANGED <<breaker, second, range, blind, ordersOn, prevOn, todo, job, resting>>
\* mutant: the window survives a gap in the samples
KeptWindow == watch
Window ==
  IF watch.samples # <<>> /\ second - Last(watch.samples).at > GapSecs
  THEN [watch EXCEPT !.samples = <<>>] ELSE watch
\* mutant: only a stack that quotes at the breach is pulled
QuotingPulled == IF resting = "none" THEN todo ELSE Append(todo, "pull")
PullQueued == Append(todo, "pull")
TickSample(mid) ==
  /\ SampleDue /\ ~BeatLate
  /\ LET seen == PushSample(Ticked(Window), mid) IN
       IF Breaches(seen) THEN watch' = Tripped(seen) /\ todo' = PullQueued
       ELSE watch' = seen /\ UNCHANGED todo
  /\ UNCHANGED <<breaker, second, range, blind, ordersOn, prevOn, job, resting>>
-----------------------------------------------------------------------------
(* the configuration is reloaded; who notices it first under the cycle      *)
(* mutex cancels, once: the feed thread, the main loop or a cycle           *)
Configure ==
  /\ ordersOn' = ~ordersOn
  /\ UNCHANGED <<breaker, second, ticksDue, watch, range, blind, prevOn, todo, job, resting>>
Noticed(r) == IF ordersOn THEN (IF r = "late" THEN "quoted" ELSE r)
              ELSE IF prevOn THEN "none" ELSE r
MutexHeld == job \in {"cycle", "requote", "pair"}
NoticeHold ==
  /\ ~MutexHeld
  /\ prevOn' = ordersOn /\ resting' = Noticed(resting)
  /\ UNCHANGED <<breaker, second, ticksDue, watch, range, blind, ordersOn, todo, job>>
-----------------------------------------------------------------------------
(* the instrument's mover worker, one job at a time *)
QueueJob(kind) ==
  /\ Len(SelectSeq(todo, LAMBDA k : k # "pull")) < MaxTodo
  /\ todo' = Append(todo, kind)
  /\ UNCHANGED <<breaker, second, ticksDue, watch, range, blind, ordersOn, prevOn, job, resting>>
Next1(kind) == job = "idle" /\ todo # <<>> /\ Head(todo) = kind

\* the stack's top order is cancelled; a time-out leaves it, and it stays the top
Cancelled(r) == IF r = "none" THEN {"none"} ELSE {"none", "uncancelled"}

(* mmFastMarketPullAllTrackedLegs *)
Pull ==
  /\ Next1("pull") /\ todo' = Tail(todo)
  /\ resting' \in Cancelled(resting)
  /\ UNCHANGED <<breaker, second, ticksDue, watch, range, blind, ordersOn, prevOn, job>>

(* mmDrainPendingQuoteCycle: a sample for the stack's breaker, once a       *)
(* second; then the order that is off its price is cancelled, and re-pegged *)
(* at once or when the cancel is answered; else the full cycle              *)
Sampled(mid) ==
  IF breaker = "stack" /\ (range.samples = <<>> \/ Last(range.samples).at < second)
  THEN PushSample(range, mid) ELSE range
CancelFirst(mid) ==
  /\ Next1("drain") /\ range' = Sampled(mid)
  /\ ordersOn /\ resting # "none"
  /\ resting' \in Cancelled(resting)
  /\ \/ /\ todo' = Tail(todo) \o (IF resting' = "none" THEN <<"repeg">> ELSE <<>>)
        /\ UNCHANGED job
     \/ MayPlace /\ job' = "pair" /\ todo' = Tail(todo)
  /\ UNCHANGED <<breaker, second, ticksDue, watch, blind, ordersOn, prevOn>>

(* runFullMmQuoteCycle: the hold, the breaker for all, the stack's own *)
CycleStarts(mid) ==
  /\ Next1("drain") /\ todo' = Tail(todo)
  /\ prevOn' = ordersOn
  /\ LET b == Sampled(mid) r == Noticed(resting) IN
       IF ~ordersOn \/ Paused(watch) \/ Paused(b)
       THEN range' = b /\ resting' = r /\ UNCHANGED job
       ELSE IF Breaches(b)
            THEN range' = Tripped(b) /\ resting' \in Cancelled(r) /\ UNCHANGED job
            ELSE range' = b /\ resting' = r /\ job' = "cycle"
  /\ UNCHANGED <<breaker, second, ticksDue, watch, blind, ordersOn>>

(* deskTheoMoveAfterCancelAckPlaceOneLeg looks at the gate before it waits  *)
(* for the lease and the mutexes, tryDeskFillRequoteF4PlaceFreshPair after  *)
JobStarts(kind) ==
  /\ kind \in {"repeg", "requote"}
  /\ Next1(kind) /\ todo' = Tail(todo)
  /\ job' = IF MayPlace THEN kind ELSE "idle"
  /\ UNCHANGED <<breaker, second, ticksDue, watch, range, blind, ordersOn, prevOn, resting>>

(* the cycle cancels what rests before a new order takes its place *)
Replaces ==
  /\ job = "cycle" /\ resting # "none"
  /\ resting' \in Cancelled(resting)
  /\ job' = IF resting' = "none" THEN job ELSE "idle"
  /\ UNCHANGED <<breaker, second, ticksDue, watch, range, blind, ordersOn, prevOn, todo>>
PlacesLeg ==
  /\ job # "idle" /\ resting = "none"
  /\ resting' = IF prevOn THEN "quoted" ELSE "late"
  /\ job' = "idle"
  /\ UNCHANGED <<breaker, second, ticksDue, watch, range, blind, ordersOn, prevOn, todo>>
GivesUp ==
  /\ job # "idle" /\ job' = "idle"
  /\ UNCHANGED <<breaker, second, ticksDue, watch, range, blind, ordersOn, prevOn, todo, resting>>

LegTaken ==
  /\ resting # "none" /\ resting' = "none"
  /\ UNCHANGED <<breaker, second, ticksDue, watch, range, blind, ordersOn, prevOn, todo, job>>

PauseNext ==
  \/ Second \/ TickDisabled \/ TickFailsOpen \/ TickInvalid
  \/ \E mid \in Mids : TickSample(mid) \/ CancelFirst(mid) \/ CycleStarts(mid)
  \/ Configure \/ NoticeHold
  \/ \E kind \in {"drain", "repeg", "requote"} : QueueJob(kind)
  \/ \E kind \in {"repeg", "requote"} : JobStarts(kind)
  \/ Pull \/ LegTaken \/ Replaces \/ PlacesLeg \/ GivesUp

PauseSpec == PauseInit /\ [][PauseNext]_pauseState
-----------------------------------------------------------------------------
(* While quoting is paused, or the stack has noticed the hold, nothing of   *)
(* the stack rests at the venue once its worker has run the pull and what   *)
(* was before it, although jobs pass the gate before and place after the    *)
(* breach. Two exceptions: an order whose cancel timed out (no one repeats  *)
(* it before quoting resumes), and an order that was placed when the stack  *)
(* had noticed the hold already (it cancels at the transition only).        *)
PausedIsDark ==
  job = "idle" /\ ~Contains(todo, "pull") =>
    /\ ~NotPaused => resting \in {"none", "uncancelled"}
    /\ ~ordersOn /\ ~prevOn => resting # "quoted"

(* The breaker for all never trips on a range that spans a gap in its       *)
(* samples or a time it was blind: prices on the two sides of a gap say     *)
(* nothing about how fast the market moves.                                 *)
BreachContiguous ==
  watch.until' # watch.until =>
    LET seen == watch'.samples IN
      /\ \A i \in 1 .. Len(seen) - 1 : seen[i + 1].at - seen[i].at <= GapSecs
      /\ \A i \in 1 .. Len(seen) : seen[i].at >= blind
\* (of every step)
NoStraddle == [][BreachContiguous]_pauseState
=============================================================================

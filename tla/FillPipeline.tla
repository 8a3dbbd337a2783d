---------------------------- MODULE FillPipeline ----------------------------
(***************************************************************************)
(* How executions at the venue become local fills.                          *)
(*                                                                          *)
(* The venue stamps every execution with a timestamp. The engine asks for   *)
(* "fills since start_timestamp_ns", applies the page that comes back on    *)
(* the main-loop thread (deduplicating by trade_id) and then advances a     *)
(* time cursor, which is also persisted. Two fetchers exist: the FastPoller *)
(* thread (src/core/FastPoller.cpp), which hands bodies over through a      *)
(* bounded queue, and the inline poll of the main loop, which is used when  *)
(* the poller is disabled or has fallen back.                               *)
(*                                                                          *)
(* Time is in arbitrary units; a trade is a model value. The cursor kept in *)
(* the file, in last_fill_id and in fast_poller_fills_cursor_ns_ is one     *)
(* variable: they are written one after the other by the main loop, and a   *)
(* fetch that reads the older value behaves like a fetch sent before.       *)
(***************************************************************************)
EXTENDS Integers, Sequences, FiniteSets

CONSTANTS
  Trades,           \* the executions the venue may report
  Overlap,          \* kOverlapNs
  Lookback,         \* the cold-start window (60 s)
  Skew,             \* how far the venue may backdate an execution's stamp
  PageLimit,        \* limit=200
  QueueCap,         \* bound of poll_handoff_queue_ (256)
  MaxProcessed,     \* kMaxProcessedFillIds (20000)
  MaxClears,        \* bound: how often the dedupe set may be emptied in one session
  PollerConfigs,    \* values polling.fast_poller_enabled may have at a start
  MayFallBack,      \* the poller thread may exhaust its respawns
  MaxEnds,          \* bound: how often the process may exit or crash in one behaviour
  MaxTime           \* bound: the last instant of the clock

ASSUME FillPipelineAssumption ==
  /\ IsFiniteSet(Trades)
  /\ Overlap \in Nat /\ Lookback \in Nat /\ Overlap < Lookback
  /\ Skew \in Nat
  /\ PageLimit \in Nat \ {0} /\ QueueCap \in Nat \ {0}
  /\ MaxProcessed \in Nat \ {0} /\ MaxClears \in Nat
  /\ PollerConfigs \subseteq BOOLEAN /\ PollerConfigs # {}
  /\ MayFallBack \in BOOLEAN
  /\ MaxEnds \in Nat /\ MaxTime \in Nat

VARIABLES
  now,        \* the clock the engine and the venue share
  ts,         \* the stamp of each trade, NotYet before it is executed
  fetch,      \* the one GET /fills in flight
  queue,      \* poll_handoff_queue_
  local,      \* bodies the main loop is applying; the first one is being applied
  cursor,     \* last_fill_id as a time; 0 when there is none
  processed,  \* processed_fill_trade_ids
  count,      \* how often each trade went through to the order lookup in this session
  clears,     \* how often the dedupe set was emptied in this session
  before,     \* the trades that went through in an earlier session
  floor,      \* start of the first body ever applied: older fills were never asked for
  lossy,      \* a truncated body, or one applied too late, has moved the cursor
  pollerUp,   \* the FastPoller is running and has not fallen back
  mode,       \* "run", "exiting" (loop left, poller joined next) or "down"
  ends        \* how often the process has left the loop or crashed

executions == <<now, ts>>
handoff    == <<fetch, queue>>
applied    == <<processed, count, clears, before>>
mark       == <<cursor, floor, lossy>>
process    == <<pollerUp, mode, ends>>
fillVars   == <<executions, handoff, local, applied, mark, process>>

NotYet   == -1
Executed == {t \in Trades : ts[t] # NotYet}
Ever     == before \cup {t \in Trades : count[t] > 0}
NoFetch  == [phase |-> "idle", start |-> 0, at |-> 0, page |-> {}, whole |-> TRUE]
NoFloor  == -1
-----------------------------------------------------------------------------
(* Fault: a cold start backed up by the overlap too, and not clamped at 0.   *)
StartUnclamped == IF cursor > 0 THEN cursor ELSE now - Lookback - Overlap

(* The first start_timestamp_ns: the cursor, or a look-back from the present *)
(* when there is none.                                                       *)
StartFromCursor ==
  IF cursor > 0 THEN cursor ELSE IF now > Lookback THEN now - Lookback ELSE 0

Since(start) == {t \in Executed : ts[t] >= start}

(* What the venue may answer: everything since start, or the PageLimit       *)
(* oldest of it (limit=200, sort_ts=asc; next_cursor is not followed).       *)
Pages(start) ==
  {P \in SUBSET Since(start) :
     /\ P = Since(start) \/ Cardinality(P) = PageLimit
     /\ Cardinality(P) <= PageLimit
     /\ \A p \in P, s \in Since(start) \ P : ts[p] <= ts[s]}

FillInit ==
  /\ now = Lookback
  /\ ts = [t \in Trades |-> NotYet]
  /\ fetch = NoFetch
  /\ queue = <<>> /\ local = <<>>
  /\ cursor = 0
  /\ processed = {}
  /\ count = [t \in Trades |-> 0]
  /\ clears = 0
  /\ before = {}
  /\ floor = NoFloor
  /\ lossy = FALSE
  /\ pollerUp \in PollerConfigs
  /\ mode = "run"
  /\ ends = 0
-----------------------------------------------------------------------------
(* The environment: the venue and the clock.                                 *)

(* An order executes; the venue stamps it, possibly with an earlier time.    *)
Execute(t) ==
  /\ t \notin Executed
  /\ \E stamp \in (now - Skew)..now :
       /\ stamp >= 0
       /\ ts' = [ts EXCEPT ![t] = stamp]
  /\ UNCHANGED <<local, now, handoff, applied, mark, process>>

ClockTick ==
  /\ now < MaxTime
  /\ now' = now + 1
  /\ UNCHANGED <<local, ts, handoff, applied, mark, process>>
-----------------------------------------------------------------------------
(* The fetch. While the poller is up it is the poller's; otherwise it is the *)
(* main loop's own, which does nothing else until it returns.                *)

(* Fault: nobody polls inline after a fall-back.                             *)
FetchSendByPollerOnly ==
  /\ mode = "run" /\ pollerUp
  /\ fetch.phase = "idle"
  /\ fetch' = [NoFetch EXCEPT !.phase = "sent", !.start = StartFromCursor]
  /\ UNCHANGED <<local, executions, queue, applied, mark, process>>

FetchSend ==
  /\ mode = "run"
  /\ fetch.phase = "idle"
  /\ pollerUp \/ local = <<>>
  /\ fetch' = [NoFetch EXCEPT !.phase = "sent", !.start = StartFromCursor]
  /\ UNCHANGED <<local, executions, queue, applied, mark, process>>

VenueServe ==
  /\ fetch.phase = "sent"
  /\ \E P \in Pages(fetch.start) :
       fetch' = [fetch EXCEPT !.phase = "served", !.at = now, !.page = P,
                              !.whole = (P = Since(fetch.start))]
  /\ UNCHANGED <<local, executions, queue, applied, mark, process>>

(* A timeout, an HTTP error or a 429: the poll is skipped.                   *)
FetchFail ==
  /\ fetch.phase # "idle"
  /\ fetch' = NoFetch
  /\ UNCHANGED <<local, executions, queue, applied, mark, process>>

Body == [start |-> fetch.start, at |-> fetch.at, page |-> fetch.page,
         whole |-> fetch.whole]

(* The queue keeps the newest QueueCap bodies.                               *)
Pushed(q, item) ==
  IF Len(q) < QueueCap THEN Append(q, item) ELSE Append(Tail(q), item)

PollerPush ==
  /\ fetch.phase = "served"
  /\ pollerUp
  /\ queue' = Pushed(queue, Body)
  /\ fetch' = NoFetch
  /\ UNCHANGED <<local, executions, applied, mark, process>>

InlineReturn ==
  /\ fetch.phase = "served"
  /\ ~pollerUp
  /\ local' = <<Body>>
  /\ fetch' = NoFetch
  /\ UNCHANGED <<executions, queue, applied, mark, process>>

(* The poller thread throws out of a fetch once too often and gives up: the  *)
(* main loop polls inline from now on and no longer drains the queue.        *)
FallBack ==
  /\ MayFallBack
  /\ pollerUp
  /\ mode = "run"
  /\ fetch.phase # "idle"
  /\ fetch' = NoFetch
  /\ pollerUp' = FALSE
  /\ UNCHANGED <<local, executions, queue, applied, mark, mode, ends>>
-----------------------------------------------------------------------------
(* The main loop.                                                            *)

(* Swap the whole queue out under the lock: in the loop while the poller is  *)
(* healthy, and once more after the loop, when the poller has been joined.   *)
DrainSwap ==
  /\ queue # <<>> /\ local = <<>>
  /\ \/ mode = "run" /\ pollerUp
     \/ mode = "exiting" /\ fetch.phase = "idle"
  /\ local' = queue
  /\ queue' = <<>>
  /\ UNCHANGED <<executions, fetch, applied, mark, process>>

Oldest(page) == {t \in page : \A u \in page : ts[t] <= ts[u]}

(* Fault: the id is never remembered.                                        *)
RememberNothing(t) == processed

Full == Cardinality(processed) >= MaxProcessed

(* The dedupe set is emptied when it is full, before the new id goes in.     *)
Remember(t) == (IF Full THEN {} ELSE processed) \cup {t}

(* One row of the body: skip a trade_id already processed, else remember it  *)
(* and hand the fill to the order lookup.                                    *)
ApplyRow(t) ==
  /\ local # <<>>
  /\ t \in Oldest(Head(local).page)
  /\ local' = [local EXCEPT ![1].page = @ \ {t}]
  /\ IF t \in processed
       THEN UNCHANGED <<processed, count, clears>>
       ELSE /\ Full => clears < MaxClears
            /\ processed' = Remember(t)
            /\ count' = [count EXCEPT ![t] = @ + 1]
            /\ clears' = IF Full THEN clears + 1 ELSE clears
  /\ UNCHANGED <<executions, handoff, before, mark, process>>

(* Ghost: the body held everything since its start, and the cursor moves     *)
(* before an execution it could not hold may fall behind the cursor.         *)
Covers(body) == body.whole /\ now + Skew <= body.at + Overlap

(* Faults: no overlap; the start of the body, however old the body is.       *)
CursorWithoutOverlap(start) == IF start >= now THEN start ELSE now
CursorAtStart(start) == start

CursorAfter(start) == IF start >= now - Overlap THEN start ELSE now - Overlap

(* All rows done, orphan notifications sent: advance and persist the cursor. *)
FinishBody ==
  /\ local # <<>>
  /\ Head(local).page = {}
  /\ cursor' = CursorAfter(Head(local).start)
  /\ floor' = IF floor = NoFloor THEN Head(local).start ELSE floor
  /\ lossy' = (lossy \/ ~Covers(Head(local)))
  /\ local' = Tail(local)
  /\ UNCHANGED <<executions, handoff, applied, process>>

(* The body cannot be parsed (wholly, or from some row on): the exception is *)
(* caught and the cursor stays.                                              *)
AbandonBody ==
  /\ local # <<>>
  /\ local' = Tail(local)
  /\ UNCHANGED <<executions, handoff, applied, mark, process>>

LeaveLoop ==
  /\ mode = "run"
  /\ local = <<>>
  /\ pollerUp \/ fetch.phase = "idle"
  /\ ends < MaxEnds
  /\ mode' = "exiting"
  /\ ends' = ends + 1
  /\ UNCHANGED <<local, executions, handoff, applied, mark, pollerUp>>

(* Everything volatile is gone; the cursor file stays.                       *)
Lost ==
  /\ mode' = "down"
  /\ fetch' = NoFetch
  /\ queue' = <<>> /\ local' = <<>>
  /\ processed' = {} /\ clears' = 0
  /\ before' = Ever
  /\ count' = [t \in Trades |-> 0]
  /\ UNCHANGED <<executions, mark, pollerUp>>

Stop ==
  /\ mode = "exiting"
  /\ fetch.phase = "idle" /\ queue = <<>> /\ local = <<>>
  /\ Lost
  /\ UNCHANGED ends

Crash ==
  /\ mode # "down"
  /\ ends < MaxEnds
  /\ Lost
  /\ ends' = ends + 1

(* A new process restores the cursor from its file.                          *)
Restart ==
  /\ mode = "down"
  /\ mode' = "run"
  /\ pollerUp' \in PollerConfigs
  /\ UNCHANGED <<local, executions, handoff, applied, mark, ends>>
-----------------------------------------------------------------------------
Venue   == VenueServe \/ \E t \in Trades : Execute(t)
Fetcher == FetchSend \/ FetchFail \/ PollerPush \/ FallBack
Main    == \/ DrainSwap \/ InlineReturn \/ FinishBody \/ AbandonBody
           \/ \E t \in Trades : ApplyRow(t)
           \/ LeaveLoop \/ Stop \/ Crash \/ Restart

FillNext == ClockTick \/ Venue \/ Fetcher \/ Main
FillSpec == FillInit /\ [][FillNext]_fillVars

(* A run of polls does not fail for ever, bodies are not malformed for ever, *)
(* and the two threads are scheduled.                                        *)
Fairness ==
  /\ SF_fillVars(FetchSend) /\ SF_fillVars(VenueServe) /\ SF_fillVars(PollerPush)
  /\ SF_fillVars(InlineReturn) /\ SF_fillVars(DrainSwap) /\ SF_fillVars(FinishBody)
  /\ \A t \in Trades : SF_fillVars(ApplyRow(t))
  /\ WF_fillVars(Stop) /\ WF_fillVars(Restart)

FillFairSpec == FillSpec /\ Fairness
-----------------------------------------------------------------------------
Item == [start : Nat, at : Nat, page : SUBSET Trades, whole : BOOLEAN]

(* Every variable has its type: no negative time goes into a query.          *)
TypeOK ==
  /\ now \in Nat
  /\ ts \in [Trades -> Nat \cup {NotYet}]
  /\ fetch \in [phase : {"idle", "sent", "served"}, start : Nat, at : Nat,
                page : SUBSET Trades, whole : BOOLEAN]
  /\ queue \in Seq(Item) /\ local \in Seq(Item)
  /\ cursor \in Nat
  /\ processed \in SUBSET Trades
  /\ count \in [Trades -> Nat] /\ clears \in Nat
  /\ before \in SUBSET Trades
  /\ floor \in Nat \cup {NoFloor}
  /\ lossy \in BOOLEAN
  /\ pollerUp \in BOOLEAN
  /\ mode \in {"run", "exiting", "down"}
  /\ ends \in Nat

(* Nothing is behind the cursor but applied fills: an execution stamped      *)
(* between the first start ever used and the cursor is never asked for       *)
(* again, so it must have been applied (the promise of the overlap in        *)
(* applyExchangeFillsBody: it "guarantees the next poll re-fetches").        *)
FillsBehindCursor ==
  floor # NoFloor =>
    \A t \in Executed : floor <= ts[t] /\ ts[t] < cursor => t \in Ever

(* It is kept as long as every body that moved the cursor was a whole answer *)
(* and was applied within Overlap - Skew of the answer: failed polls, bodies *)
(* dropped from the full queue or abandoned, a fall-back, exits and crashes  *)
(* do not break it.                                                          *)
NoFillSkipped == ~lossy => FillsBehindCursor

(* An execution goes through to the order lookup once in a session, although *)
(* the windows of successive polls overlap and bodies wait in a queue; once  *)
(* more for each time the full dedupe set was emptied, never otherwise.      *)
AppliedOnce == \A t \in Trades : count[t] <= 1 + clears

(* A trade applied by an earlier process is not applied again by the next    *)
(* (the dedupe set "protects against re-processing if we crash-recover").    *)
NeverReplayed == \A t \in before : count[t] = 0

(* The cursor never moves back, whichever fetcher's body is applied and      *)
(* however late (sort_ts=asc, "so cursor monotonically increases").          *)
CursorMonotone == [][cursor' >= cursor]_fillVars

(* An execution at or after the cursor of a warm pipeline is applied in the  *)
(* end, through failed polls, dropped bodies, a fall-back to inline polling  *)
(* and restarts - or some body has moved the cursor past executions it could *)
(* not hold.                                                                 *)
EventuallyApplied ==
  \A t \in Trades :
    (t \in Executed /\ cursor > 0 /\ ts[t] >= cursor) ~> (t \in Ever \/ lossy)
=============================================================================

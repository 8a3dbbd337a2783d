---------------------------- MODULE FeedGuardian ----------------------------
(***************************************************************************)
(* What happens to the orders when prices stop: every fifteen seconds the   *)
(* main loop runs Platform::runFeedGuardianHeartbeat, which cancels at the  *)
(* venue whatever is quoted from a source that is down and then resets the  *)
(* stacks' local state; a stack's own quote cycle asks for the source once, *)
(* at its beginning, and cancels its orders if it is down. The source may   *)
(* go down and come back between any two steps. In "multi" mode every stack *)
(* has a source of its own and the guardian works per instrument, else one  *)
(* provider prices all and the guardian treats it like the venue's socket.  *)
(* A stack's pair is one order here; fills and the replacement of a resting *)
(* pair are the subject of other modules. Stacks are desk-managed: the      *)
(* cycle the recovery asks for is refused (runFullMmQuoteCycle, 10721), and *)
(* cycles are asked for by the timers at any time.                          *)
(***************************************************************************)
EXTENDS Naturals, FiniteSets

CONSTANTS
  GuardedStacks,
  AxOf,        \* AxOf[s]: the stack's instrument
  SourceOf,    \* SourceOf[s]: mm_theo_source_ of the stack
  LegSource,   \* LegSource[x]: the source the configured leg of instrument x names
  Provider,    \* the one source when the feeds are not separate
  MaxPlaced    \* bound: orders placed

VARIABLES
  feeds,     \* "multi" or "single"
  sourceUp,  \* isFeedUpForSource, isPricingTransportConnected
  count,     \* orders placed so far
  rests,     \* the orders at the venue, by stack
  shown,     \* per stack: bid_order_id_/ask_order_id_
  quoting,   \* per stack: its quote cycle
  beat,      \* the step of the heartbeat
  toCancel,  \* instruments to cancel
  toReset,   \* stacks to reset
  dark,      \* history: sources a heartbeat has read as down, every request of it done, and down since
  readDown,  \* history: sources down since this heartbeat has read them
  inFlightThen \* history: orders of cycles that had passed their check when the source went down

guardState == <<feeds, sourceUp, count, rests, shown, quoting, beat, toCancel,
                toReset, dark, readDown, inFlightThen>>

Sources == {SourceOf[s] : s \in GuardedStacks} \cup {LegSource[x] : x \in DOMAIN LegSource}
GuardedAx == DOMAIN LegSource
NoOrderShown == 0
Src(s) == IF feeds = "multi" THEN SourceOf[s] ELSE Provider
DownStacks == {s \in GuardedStacks : ~sourceUp[Src(s)]}
Alone(s) == \A t \in GuardedStacks : AxOf[t] = AxOf[s] => t = s
OnAx(x) == {o \in rests : AxOf[o.stack] = x}

GuardInit ==
  /\ feeds \in {"multi", "single"}
  /\ sourceUp = [f \in Sources |-> TRUE]
  /\ count = 0 /\ rests = {}
  /\ shown = [s \in GuardedStacks |-> NoOrderShown]
  /\ quoting = [s \in GuardedStacks |-> "idle"]
  /\ beat = "idle" /\ toCancel = {} /\ toReset = {}
  /\ dark = {} /\ readDown = {} /\ inFlightThen = {}
-----------------------------------------------------------------------------
SourceChanges(f) ==
  /\ feeds = "single" => f = Provider
  /\ sourceUp' = [sourceUp EXCEPT ![f] = ~@]
  /\ dark' = dark \ {f} /\ readDown' = readDown \ {f}
  /\ UNCHANGED <<feeds, count, rests, shown, quoting, beat, toCancel, toReset,
                 inFlightThen>>
-----------------------------------------------------------------------------
(* the quote cycle, under the stack's cycle mutex from the check on *)
PriceChecked(s) ==
  /\ quoting[s] = "idle" /\ sourceUp[Src(s)]
  /\ quoting' = [quoting EXCEPT ![s] = "passed"]
  /\ UNCHANGED <<feeds, sourceUp, count, rests, shown, beat, toCancel, toReset,
                 dark, readDown, inFlightThen>>
\* one request for the instrument if the stack is alone there, else one for each order it shows
CancelledNow(s) == IF Alone(s) THEN OnAx(AxOf[s]) ELSE {o \in rests : o.id = shown[s]}
\* mmCancelAllExchangeAndResetLocal
CancelAllAndReset(s) ==
  /\ quoting[s] = "idle" /\ feeds = "multi" /\ ~sourceUp[Src(s)]
  /\ rests' \in {rests, rests \ CancelledNow(s)}
  /\ shown' = [shown EXCEPT ![s] = NoOrderShown]
  /\ UNCHANGED <<feeds, sourceUp, count, quoting, beat, toCancel, toReset, dark,
                 readDown, inFlightThen>>
PlaceAfterCheck(s) ==
  /\ quoting[s] = "passed" /\ shown[s] = NoOrderShown /\ count < MaxPlaced
  /\ LET o == [id |-> count + 1, stack |-> s] IN
       /\ rests' = rests \cup {o}
       /\ shown' = [shown EXCEPT ![s] = o.id]
       /\ inFlightThen' = IF sourceUp[Src(s)] THEN inFlightThen ELSE inFlightThen \cup {o.id}
  /\ count' = count + 1 /\ quoting' = [quoting EXCEPT ![s] = "idle"]
  /\ UNCHANGED <<feeds, sourceUp, beat, toCancel, toReset, dark, readDown>>
CycleEnds(s) ==
  /\ quoting[s] = "passed" /\ quoting' = [quoting EXCEPT ![s] = "idle"]
  /\ UNCHANGED <<feeds, sourceUp, count, rests, shown, beat, toCancel, toReset,
                 dark, readDown, inFlightThen>>
\* refreshLegacyTopOfBookTrackingFromVectors: a reset leaves the legs it comes from
ShowTracked(s) ==
  /\ shown[s] = NoOrderShown
  /\ \E o \in rests : o.stack = s /\ shown' = [shown EXCEPT ![s] = o.id]
  /\ UNCHANGED <<feeds, sourceUp, count, rests, quoting, beat, toCancel, toReset,
                 dark, readDown, inFlightThen>>
-----------------------------------------------------------------------------
(* the heartbeat *)
Heartbeat(stage, xs) ==
  /\ beat = "idle" /\ beat' = stage /\ toCancel' = xs
  /\ readDown' = {f \in Sources : ~sourceUp[f]}
  /\ UNCHANGED <<feeds, sourceUp, count, rests, shown, quoting, toReset, dark,
                 inFlightThen>>
Everything == Heartbeat("cancel all", GuardedAx)
SocketDown == Everything \* the socket may be down whenever it is asked
TransportDown == feeds = "single" /\ ~sourceUp[Provider] /\ Everything

\* mutant: the sources are those of the configured legs
LegsDown == {x \in GuardedAx : ~sourceUp[LegSource[x]]}
SourcesDown ==
  {x \in GuardedAx : ~sourceUp[LegSource[x]]}
    \cup {AxOf[s] : s \in {t \in GuardedStacks : ~sourceUp[SourceOf[t]]}}
FeedsDown ==
  /\ feeds = "multi" /\ SourcesDown # {}
  /\ Heartbeat("cancel", SourcesDown)

(* no source is down; after an outage the stacks are asked to restore their *)
(* pairs, and the cycle that is queued for it is refused                    *)
NothingDown ==
  /\ beat = "idle" /\ feeds = "multi" /\ SourcesDown = {}
  /\ dark' = dark \cup {f \in Sources : ~sourceUp[f]}
  /\ UNCHANGED <<feeds, sourceUp, count, rests, shown, quoting, beat, toCancel, toReset,
                 readDown, inFlightThen>>

\* one instrument after the other; a request that fails is logged, and the source not called dark
CancelSymbol(x) ==
  /\ beat \in {"cancel", "cancel all"} /\ x \in toCancel
  /\ toCancel' = toCancel \ {x}
  /\ \E answered \in BOOLEAN :
       /\ rests' = IF answered THEN rests \ OnAx(x) ELSE rests
       /\ readDown' = IF answered THEN readDown ELSE {}
  /\ UNCHANGED <<feeds, sourceUp, count, shown, quoting, beat, toReset,
                 dark, inFlightThen>>
\* feedGuardianResetAllRegistered, or feedGuardianResetForDownFeeds, which asks again
BeginReset ==
  /\ beat \in {"cancel", "cancel all"} /\ toCancel = {}
  /\ toReset' = IF beat = "cancel" THEN DownStacks ELSE GuardedStacks
  /\ beat' = "reset" /\ dark' = dark \cup readDown /\ readDown' = {}
  /\ UNCHANGED <<feeds, sourceUp, count, rests, shown, quoting, toCancel,
                 inFlightThen>>
\* feedGuardianResetLocalState waits for the stack's cycle mutex
ResetStack(s) ==
  /\ beat = "reset" /\ s \in toReset /\ quoting[s] = "idle"
  /\ toReset' = toReset \ {s} /\ shown' = [shown EXCEPT ![s] = NoOrderShown]
  /\ UNCHANGED <<feeds, sourceUp, count, rests, quoting, beat, toCancel,
                 dark, readDown, inFlightThen>>
HeartbeatEnds ==
  /\ beat = "reset" /\ toReset = {} /\ beat' = "idle"
  /\ UNCHANGED <<feeds, sourceUp, count, rests, shown, quoting, toCancel, toReset,
                 dark, readDown, inFlightThen>>

GuardNext ==
  \/ \E f \in Sources : SourceChanges(f)
  \/ \E s \in GuardedStacks :
       \/ PriceChecked(s) \/ CancelAllAndReset(s) \/ PlaceAfterCheck(s) \/ CycleEnds(s)
       \/ ShowTracked(s) \/ ResetStack(s)
  \/ \E x \in GuardedAx : CancelSymbol(x)
  \/ SocketDown \/ TransportDown \/ FeedsDown \/ NothingDown
  \/ BeginReset \/ HeartbeatEnds

GuardSpec == GuardInit /\ [][GuardNext]_guardState
-----------------------------------------------------------------------------
(* Once a heartbeat has found a source down and its requests have been      *)
(* answered, no order priced from the source rests for as long as it stays  *)
(* down, but for that of a cycle that had asked for the feed before the     *)
(* outage: whatever instrument the stack quotes, whether its source is the  *)
(* one the configuration names or its own, however the feeds flap, and      *)
(* although the local state is reset whatever has become of the orders.     *)
DownIsDark == \A o \in rests : Src(o.stack) \in dark => o.id \in inFlightThen
=============================================================================

------------------------------ MODULE Requote ------------------------------
(***************************************************************************)
(* How one desk-managed stack follows its theoretical price                 *)
(* (src/src/strategy/MakeMarketStrategy.cpp): the feed thread compares the  *)
(* pair it would quote now with the pair that rests and asks the mover for  *)
(* a quote cycle; the cycle computes the pair from theo, width and the      *)
(* inventory skew, checks it against the market and replaces leg after leg; *)
(* after each accept the price is looked at again. The theo is counted in   *)
(* units, a quote in ticks; bid and ask width are the same.                 *)
(* What a leg goes through is the subject of PairCycle, who may run a cycle *)
(* that of ProductLease.                                                    *)
(***************************************************************************)
EXTENDS Integers, FiniteSets

CONSTANTS
  Theos,          \* the prices the feed takes, in units
  UnitsPerTick,
  WidthBps,       \* width of a side, in basis points of the theo
  Resting,        \* resting_depth_extra_ticks
  QuoteSnap, PricerSnap, \* the desk's pair of snapshots: the quote is worth this when the feed shows that
  AdjustPo, AdjustTicks, \* adjust_ticks for each adjust_position contracts held
  PositionCap,    \* max_position
  Positions,      \* the positions there may be
  MinDrift,       \* min_theo_move_ticks_to_requote
  Markets         \* the market's best bids and offers, in ticks

VARIABLES
  theo,      \* the price the provider answers with
  news,      \* a quote published that onFeedUpdate has not handled
  lastTheo,  \* last_theo_
  asked,     \* mm_quote_cycle_pending_reason_, if a cycle is pending
  cycle,     \* the mover's cycle: step, and what it has computed
  leg,       \* per side: state and price
  net,       \* the position
  overtaken  \* history: theo, position or request changed unnoticed since the pair was computed or compared

quoteState == <<theo, news, lastTheo, asked, cycle, leg, net, overtaken>>

PairSides == {"BUY", "SELL"}
NoReason == "none"
NoNews == 0
AbsOf(n) == IF n < 0 THEN -n ELSE n
AtLeast(n, m) == IF n < m THEN m ELSE n
-----------------------------------------------------------------------------
(* the pair to quote, exactly: prices are fractions with this denominator *)
Unit == UnitsPerTick * PricerSnap * 10000
Skew(n) == IF AbsOf(n) >= PositionCap THEN 0
           ELSE (AbsOf(n) \div AdjustPo) * (IF n < 0 THEN -1 ELSE 1) * AdjustTicks
Adjusted(t) == QuoteSnap * t                      \* mmApplyPricerSnapshotTransform
RawBid(t, n) == Adjusted(t) * (10000 - WidthBps) - (Skew(n) + Resting) * Unit
RawAsk(t, n) == Adjusted(t) * (10000 + WidthBps) - (Skew(n) - Resting) * Unit
\* finalizeMmPairOnTickGrid
FullWidth(t, n) == AtLeast((RawAsk(t, n) - RawBid(t, n)) \div Unit, 1)
Pair(t, n) == LET b == RawBid(t, n) \div Unit IN [BUY |-> b, SELL |-> b + FullWidth(t, n)]

MayQuote(d, n) == IF d = "BUY" THEN n < PositionCap ELSE -n < PositionCap
Crosses(d, p, m) == IF d = "BUY" THEN p > m.ask ELSE p < m.bid
InsideSpread(d, p, m) == m.ask > m.bid /\ IF d = "BUY" THEN p > m.bid ELSE p < m.ask
Refused(d, p, seen) == \E m \in seen : Crosses(d, p, m) \/ InsideSpread(d, p, m)
Distance(p, q) == AbsOf(p - q)
Nothing == [at |-> "idle"]
Live == {d \in PairSides : leg[d].state = "live"}
InFlight == \E d \in PairSides : leg[d].state \in {"cancelling", "pending"}

QuoteInit ==
  /\ theo \in Theos /\ news = NoNews /\ lastTheo = theo /\ asked = NoReason
  /\ cycle = Nothing
  /\ net \in Positions /\ MayQuote("BUY", net) /\ MayQuote("SELL", net)
  /\ overtaken = FALSE
  /\ leg = [d \in PairSides |-> [state |-> "live", price |-> Pair(theo, net)[d]]]
-----------------------------------------------------------------------------
(* the feed thread *)
PublishTheo(t) ==
  /\ news = NoNews \* the callback runs on the thread that publishes
  /\ theo' = t /\ news' = t
  /\ UNCHANGED <<lastTheo, asked, cycle, leg, net, overtaken>>

\* enqueueQuoteCycleOnMover: the latest reason replaces the one that waits
Ask(reason) == asked' = reason

Drift(t) == IF MayQuote("BUY", net) # MayQuote("SELL", net) THEN 1 ELSE MinDrift
\* mutant: the bid speaks for the pair
GateOnBid(t) == "BUY" \in Live /\ Distance(leg["BUY"].price, Pair(t, net)["BUY"]) >= Drift(t)
Gate(t) == \E d \in Live : Distance(leg[d].price, Pair(t, net)[d]) >= Drift(t)

\* the price is the one handled last
Unchanged ==
  /\ news # NoNews /\ news = lastTheo /\ news' = NoNews
  /\ overtaken' = (overtaken \/ cycle # Nothing)
  /\ UNCHANGED <<theo, lastTheo, asked, cycle, leg, net>>
\* a pair rests and no cycle is in flight: compare
Compare ==
  /\ news # NoNews /\ news # lastTheo /\ ~InFlight
  /\ IF Live # {} /\ Gate(news) THEN Ask("theo_move") ELSE UNCHANGED asked
  /\ overtaken' = (cycle # Nothing)
  /\ lastTheo' = news /\ news' = NoNews
  /\ UNCHANGED <<theo, cycle, leg, net>>
\* the comparison is skipped, the price is remembered
SkipComparison ==
  /\ news # NoNews /\ news # lastTheo /\ InFlight
  /\ lastTheo' = news /\ news' = NoNews /\ overtaken' = TRUE
  /\ UNCHANGED <<theo, asked, cycle, leg, net>>

(* the strategy's timer, requote_on_timer off *)
TimerReason ==
  CASE MayQuote("BUY", net) /\ MayQuote("SELL", net) -> NoReason
    [] Live = {} \/ \E d \in Live : ~MayQuote(d, net) -> "timer_one_leg" \* or timer_pull
    [] OTHER -> "timer_repeg_one_leg"
Timer ==
  /\ ~InFlight /\ TimerReason # NoReason /\ asked # TimerReason
  /\ Ask(TimerReason)
  /\ overtaken' = (overtaken \/ asked # NoReason)
  /\ UNCHANGED <<theo, news, lastTheo, cycle, leg, net>>

\* a fill of one of the product's other stacks
PositionMoves(n) ==
  /\ n \in {net - 1, net + 1}
  /\ net' = n /\ overtaken' = TRUE
  /\ UNCHANGED <<theo, news, lastTheo, asked, cycle, leg>>
-----------------------------------------------------------------------------
(* the mover *)
Begin ==
  /\ cycle.at = "idle" /\ asked # NoReason
  /\ cycle' = [at |-> "compute", base |-> theo, reason |-> asked]
  /\ asked' = NoReason
  /\ UNCHANGED <<theo, news, lastTheo, leg, net, overtaken>>

\* "active LIMIT bid+ask": only the reasons that must replace the pair go on
TwoSided ==
  /\ cycle.reason \notin {"theo_move", "timer_repeg_one_leg"}
  /\ AbsOf(net) < PositionCap /\ Live = PairSides
\* the pair that rests is the pair that would be placed
Coalesced ==
  /\ cycle.reason # "post_cycle_recheck" /\ Live = PairSides
  /\ \A d \in PairSides : leg[d].price = Pair(cycle.base, net)[d]
SkipTwoSided ==
  /\ cycle.at = "compute" /\ TwoSided
  /\ cycle' = Nothing
  /\ UNCHANGED <<theo, news, lastTheo, asked, leg, net, overtaken>>
Coalesce ==
  /\ cycle.at = "compute" /\ ~TwoSided /\ Coalesced
  /\ cycle' = Nothing /\ lastTheo' = cycle.base
  /\ overtaken' = (theo # cycle.base)
  /\ UNCHANGED <<theo, news, asked, leg, net>>
\* mutant: the check only warns
CheckedLightly(want, refused) == want
Checked(want, refused) == want \ refused
\* both sides' gates and the check against the market; a side that may not be quoted is pulled
Compute(seen) ==
  /\ cycle.at = "compute" /\ ~TwoSided /\ ~Coalesced
  /\ LET pair == Pair(cycle.base, net)
         want == {d \in PairSides : MayQuote(d, net)}
         refused == {d \in PairSides : Refused(d, pair[d], seen)}
     IN cycle' = [at |-> "leg", side |-> "BUY", base |-> cycle.base, on |-> net,
                  moved |-> cycle.reason = "theo_move",
                  refused |-> refused, do |-> Checked(want, refused), refreshed |-> FALSE]
  /\ leg' = [d \in PairSides |-> IF MayQuote(d, net) THEN leg[d] ELSE [state |-> NoReason]]
  /\ overtaken' = (theo # cycle.base)
  /\ UNCHANGED <<theo, news, lastTheo, asked, net>>

\* what the cycle has computed
NewPrice(d) == Pair(cycle.base, cycle.on)[d]
AfterLeg == IF cycle.side = "BUY" THEN [cycle EXCEPT !.at = "leg", !.side = "SELL"]
            ELSE [at |-> "end", base |-> cycle.base]
Kept == /\ ~cycle.moved /\ leg[cycle.side].state = "live"
        /\ leg[cycle.side].price = NewPrice(cycle.side)
NextLeg ==
  /\ cycle.at = "leg" /\ ~InFlight
  /\ cycle.side \notin cycle.do \/ Kept
  /\ cycle' = AfterLeg
  /\ overtaken' = (overtaken \/ (cycle.side \notin cycle.do /\ cycle.side \in Live))
  /\ UNCHANGED <<theo, news, lastTheo, asked, leg, net>>
CancelOld ==
  /\ cycle.at = "leg" /\ cycle.side \in cycle.do /\ ~Kept
  /\ leg[cycle.side].state = "live"
  /\ leg' = [leg EXCEPT ![cycle.side].state = "cancelling"]
  /\ UNCHANGED <<theo, news, lastTheo, asked, cycle, net, overtaken>>
\* the venue has not confirmed the cancel: MM_PLACE_..._BLOCKED
CancelFails ==
  /\ cycle.at = "leg" /\ leg[cycle.side].state = "cancelling"
  /\ leg' = [leg EXCEPT ![cycle.side].state = "live"]
  /\ cycle' = AfterLeg /\ overtaken' = TRUE
  /\ UNCHANGED <<theo, news, lastTheo, asked, net>>
\* refreshCapGatesBeforePlace looks at the position again; both sides' gates are set from it alone
Refresh ==
  [cycle EXCEPT !.at = "place", !.do = {e \in PairSides : MayQuote(e, net)}, !.refreshed = TRUE]
CancelDone ==
  /\ cycle.at = "leg" /\ cycle.side \in cycle.do /\ ~Kept
  /\ leg[cycle.side].state \in {"cancelling", NoReason}
  /\ leg' = [leg EXCEPT ![cycle.side] = [state |-> NoReason]]
  /\ cycle' = Refresh
  /\ UNCHANGED <<theo, news, lastTheo, asked, net, overtaken>>
\* mmPlaceReservedLeg
Reserve ==
  /\ cycle.at = "place" /\ cycle.side \in cycle.do
  /\ leg' = [leg EXCEPT ![cycle.side] = [state |-> "pending", price |-> NewPrice(cycle.side)]]
  /\ cycle' = [cycle EXCEPT !.at = "answer"]
  /\ UNCHANGED <<theo, news, lastTheo, asked, net, overtaken>>
SubmitRefused ==
  /\ cycle.at = "place" /\ cycle.side \notin cycle.do
  /\ cycle' = AfterLeg
  /\ UNCHANGED <<theo, news, lastTheo, asked, leg, net, overtaken>>
PlaceFails ==
  /\ cycle.at = "answer" /\ leg[cycle.side].state = "pending"
  /\ leg' = [leg EXCEPT ![cycle.side] = [state |-> NoReason]]
  /\ cycle' = AfterLeg
  /\ UNCHANGED <<theo, news, lastTheo, asked, net, overtaken>>
\* on_accept, dispatched inside submit_order; an order without a size is refused
Accept ==
  /\ cycle.at = "answer" /\ leg[cycle.side].state = "pending" /\ MayQuote(cycle.side, cycle.on)
  /\ leg' = [leg EXCEPT ![cycle.side].state = "live"]
  /\ cycle' = [cycle EXCEPT !.at = "recheck"]
  /\ UNCHANGED <<theo, news, lastTheo, asked, net, overtaken>>
\* mmMaybePostCycleRecheck measures from last_theo_, which the feed thread has kept up to date
RecheckMarket ==
  /\ cycle.at = "recheck"
  /\ cycle' = AfterLeg
  /\ IF Distance(theo, lastTheo) >= MinDrift * UnitsPerTick
     THEN /\ Ask("post_cycle_recheck") /\ UNCHANGED lastTheo
          /\ overtaken' = (overtaken \/ asked # NoReason)
     ELSE /\ lastTheo' = theo /\ UNCHANGED asked
          /\ overtaken' = (overtaken \/ theo # cycle.base)
  /\ UNCHANGED <<theo, news, leg, net>>
End ==
  /\ cycle.at = "end"
  /\ cycle' = Nothing /\ lastTheo' = cycle.base
  /\ UNCHANGED <<theo, news, asked, leg, net, overtaken>>

QuoteNext ==
  \/ \E t \in Theos : PublishTheo(t)
  \/ Unchanged \/ Compare \/ SkipComparison \/ Timer
  \/ \E n \in Positions : PositionMoves(n)
  \/ Begin \/ SkipTwoSided \/ Coalesce
  \/ Compute({}) \/ \E m \in Markets : Compute({m})
  \/ NextLeg \/ CancelOld \/ CancelFails \/ CancelDone
  \/ Reserve \/ SubmitRefused \/ PlaceFails \/ Accept \/ RecheckMarket
  \/ End

QuoteSpec == QuoteInit /\ [][QuoteNext]_quoteState
-----------------------------------------------------------------------------
Quiet == news = NoNews /\ asked = NoReason /\ cycle = Nothing

\* When the feed is quiet and no cycle is asked for, each resting leg is less than the required
\* move away from what would be quoted at the theo now - unless the pair was overtaken: a price was
\* handled while its cycle ran, the request for a cycle was replaced, a leg could not be renewed, or
\* another stack moved the position.
QuoteFollows ==
  Quiet /\ ~overtaken /\ Live = PairSides =>
    \A d \in PairSides : Distance(leg[d].price, Pair(theo, net)[d]) < MinDrift

\* A leg that the market check of its cycle has refused is not placed - except the offer, once the
\* cancel of the old bid has renewed both gates.
RefusedNotPlaced ==
  \A d \in PairSides :
    leg[d].state # "pending" /\ leg'[d].state = "pending" /\ d \in cycle.refused
      => d = "SELL" /\ cycle.refreshed
\* (of every step)
MarketChecked == [][RefusedNotPlaced]_quoteState
=============================================================================

------------------------------- MODULE MCParts -------------------------------
(***************************************************************************)
(* The smaller parts of the system, checked in one run. Each part has a     *)
(* module of its own and shares no state with the others, so that nothing   *)
(* is lost by running them one at a time: a behaviour picks one part and    *)
(* runs it, while the others stay in an initial state of theirs.            *)
(***************************************************************************)
EXTENDS Lifecycle, EventBus, FeedCallbacks, ExternalFeed, NetPosition, Requote, StackTable,
        CapConverge, BatchReplace, DeskSeed, FeedGuardian

MCPosLegs    == {<<"s1", "BUY">>, <<"s2", "BUY">>}
MCMarkets    == {[bid |-> 7, ask |-> 16]}
MCDeskOrder  == <<"a", "b">>
MCQuotePrice == [s \in {"a", "b"} |-> IF s = "a" THEN 1 ELSE 2]
MCStray      == [stack |-> "stray", side |-> "BUY", price |-> 1]
MCQuotePairs == {[BUY |-> 1, SELL |-> 2], [BUY |-> 2, SELL |-> 3]}
MCAxOf       == [s \in {"g1", "g2"} |-> "x1"]
MCSourceOf   == [s \in {"g1", "g2"} |-> IF s = "g1" THEN "f1" ELSE "f2"]
MCLegSource  == [x \in {"x1"} |-> "f1"]

VARIABLE part   \* the part that runs

Parts == {"life", "bus", "calls", "feed", "position", "quote", "table", "cap", "batch",
          "seed", "guard"}

Init ==
  /\ part \in Parts
  /\ LifeInit /\ BusInit /\ CbInit /\ FeedInit /\ PosInit /\ QuoteInit /\ TableInit /\ ConvInit
  /\ BatchInit /\ SeedInit /\ GuardInit
  \* a part that does not run is in one of its initial states only
  /\ part # "feed"  => setup = "multi"
  /\ part # "quote" => theo = 13 /\ net = 1
  /\ part # "batch" => onBook = FirstPair([BUY |-> 1, SELL |-> 2])
  /\ part # "guard" => feeds = "multi"

Next ==
  /\ UNCHANGED part
  /\ IF part = "life"     THEN LifeNext  ELSE UNCHANGED lifeVars
  /\ IF part = "bus"      THEN BusNext   ELSE UNCHANGED busVars
  /\ IF part = "calls"    THEN CbNext    ELSE UNCHANGED cbState
  /\ IF part = "feed"     THEN FeedNext  ELSE UNCHANGED feedState
  /\ IF part = "position" THEN PosNext   ELSE UNCHANGED posState
  /\ IF part = "quote"    THEN QuoteNext ELSE UNCHANGED quoteState
  /\ IF part = "table"    THEN TableNext ELSE UNCHANGED tableState
  /\ IF part = "cap"      THEN ConvNext  ELSE UNCHANGED convState
  /\ IF part = "batch"    THEN BatchNext ELSE UNCHANGED batchState
  /\ IF part = "seed"     THEN SeedNext  ELSE UNCHANGED seedState
  /\ IF part = "guard"    THEN GuardNext ELSE UNCHANGED guardState

Spec == Init /\ [][Next]_<<part, lifeVars, busVars, cbState, feedState, posState, quoteState,
                           tableState, convState, batchState, seedState, guardState>>
=============================================================================

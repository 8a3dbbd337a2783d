---------------------------- MODULE BatchReplace ----------------------------
(***************************************************************************)
(* How a stack moves its pair when it does not wait for its cancels         *)
(* (place_before_cancel_ack and async_batch_submit on, position book        *)
(* enforced): MakeMarketStrategy::processTrackedOrdersTheoMove marks the    *)
(* pair that rests, mmFireAndTrackPlacePair makes the new one, and both go  *)
(* to the venue in one batch of concurrent requests, in whatever order they *)
(* arrive; only if the new pair would meet the old one do the cancels go    *)
(* first. Answers are dispatched to the orders when the batch is complete.  *)
(* Legs whose cancel was not confirmed are settled later, by time-out.      *)
(* The round runs under the stack's cycle mutex. Bodies are complete: the   *)
(* legs that are cancelled have an exchange id. Orders are not filled here. *)
(***************************************************************************)
EXTENDS Integers, FiniteSets

CONSTANTS
  QuotePairs,  \* the pairs the price asks for, [BUY |-> bid, SELL |-> ask] in ticks
  MinMoveTicks,\* min_theo_move_ticks_to_requote
  MaxRounds    \* bound: replacements of the pair

VARIABLES
  mine,     \* tracked_bids_, tracked_asks_: [id, side, price, state]
  onBook,   \* the stack's orders at the venue: [id, side, price]
  wires,    \* the requests of the batch that runs: [what, order, answer]
  held2nd,  \* new legs that wait for the cancels to be answered
  rounds,
  doubtful  \* history: orders that left the tracked pair without an answered cancel,
            \* or whose placement was not answered

batchState == <<mine, onBook, wires, held2nd, rounds, doubtful>>

QuoteSides == {"BUY", "SELL"}
Drop(t) == [id |-> t.id, side |-> t.side, price |-> t.price]
InState(st) == {t \in mine : t.state = st}
Wire(what, os) == {[what |-> what, order |-> o, answer |-> "none"] : o \in os}
PriceApart(n) == IF n < 0 THEN -n ELSE n
FirstPair(p) == {[id |-> IF d = "BUY" THEN 1 ELSE 2, side |-> d, price |-> p[d]] : d \in QuoteSides}

BatchInit ==
  /\ \E p \in QuotePairs :
       /\ onBook = FirstPair(p)
       /\ mine = {[id |-> o.id, side |-> o.side, price |-> o.price, state |-> "adopted"]
                    : o \in FirstPair(p)}
  /\ wires = {} /\ held2nd = {} /\ rounds = 0 /\ doubtful = {}
-----------------------------------------------------------------------------
\* mutant: only the new bid is held against the old ask
BidMeets(new, old) ==
  \E n \in new : \E o \in old : n.side = "BUY" /\ o.side = "SELL" /\ n.price >= o.price
\* the self-trade guard: a new leg would meet the old leg of the other side
Meets(new, old) ==
  \E n \in new : \E o \in old :
    \/ n.side = "BUY" /\ o.side = "SELL" /\ n.price >= o.price
    \/ n.side = "SELL" /\ o.side = "BUY" /\ n.price <= o.price

(* a leg is off its price by enough: the pair is replaced. The caps decide  *)
(* which sides are wanted; without the product's lease, or when placing is  *)
(* switched off, the round ends with the legs marked and nothing sent       *)
Moved(p) == \E t \in InState("adopted") : PriceApart(p[t.side] - t.price) >= MinMoveTicks
NewLegs(p, sides) ==
  {[id |-> 2 * rounds + (IF d = "BUY" THEN 3 ELSE 4), side |-> d, price |-> p[d]] : d \in sides}
Marked == {[t EXCEPT !.state = IF @ = "adopted" THEN "unconfirmed" ELSE @] : t \in mine}
Replace(p) ==
  /\ wires = {} /\ rounds < MaxRounds /\ Moved(p)
  /\ LET old == {Drop(t) : t \in InState("adopted")} IN
     \/ \E sides \in SUBSET QuoteSides :
          LET new == NewLegs(p, sides) IN
            /\ mine' = Marked \cup {[id |-> o.id, side |-> o.side, price |-> o.price,
                                     state |-> "pending"] : o \in new}
            /\ IF Meets(new, old)
               THEN wires' = Wire("cancel", old) /\ held2nd' = new
               ELSE wires' = Wire("cancel", old) \cup Wire("place", new) /\ held2nd' = {}
            /\ UNCHANGED doubtful
     \/ mine' = Marked /\ doubtful' = doubtful \cup {o.id : o \in old}
        /\ UNCHANGED <<wires, held2nd>>
  /\ rounds' = rounds + 1
  /\ UNCHANGED onBook
-----------------------------------------------------------------------------
(* the venue takes the requests of a batch in any order; a request or its   *)
(* answer may be lost, which the batch sees as a time-out                   *)
Effect(w) == IF w.what = "place" THEN onBook \cup {w.order} ELSE onBook \ {w.order}
SetAnswer(w, answer) == wires' = (wires \ {w}) \cup {[w EXCEPT !.answer = answer]}
Taken(w) ==
  /\ w.answer = "none" /\ onBook' = Effect(w)
  /\ \E answer \in {"ok", "failed"} : SetAnswer(w, answer)
  /\ UNCHANGED <<mine, held2nd, rounds, doubtful>>
\* refused, or never there: an order that is gone answers 404
NotTaken(w) ==
  /\ w.answer = "none"
  /\ SetAnswer(w, IF w.what = "cancel" /\ w.order \notin onBook THEN "ok" ELSE "failed")
  /\ UNCHANGED <<mine, onBook, held2nd, rounds, doubtful>>

(* every transfer of the batch has ended: the answers reach the orders.     *)
(* A failed cancel leaves its leg for the reconcile, a failed placement is  *)
(* a reject                                                                 *)
Answers(what, answer) == {w.order : w \in {v \in wires : v.what = what /\ v.answer = answer}}
Dispatch ==
  /\ wires # {} /\ \A w \in wires : w.answer # "none"
  /\ LET gone     == {o.id : o \in Answers("cancel", "ok") \cup Answers("place", "failed")}
         accepted == {o.id : o \in Answers("place", "ok")} IN
       mine' = {[t EXCEPT !.state = IF t.id \in accepted THEN "adopted" ELSE @]
                  : t \in {u \in mine : u.id \notin gone}}
  /\ doubtful' = doubtful \cup {w.order.id : w \in {v \in wires : v.answer = "failed"}}
  /\ wires' = Wire("place", held2nd) /\ held2nd' = {}
  /\ UNCHANGED <<onBook, rounds>>

(* maybeReconcileDeskCancelAckTimeouts, also from the feed thread while a   *)
(* batch runs: a leg that the venue's listing does not show, or that no     *)
(* fresh listing is there for, is dropped; else its cancel is sent once     *)
(* more, and is answered or not                                             *)
LegDropped(t) ==
  /\ t \in InState("unconfirmed")
  /\ mine' = mine \ {t}
  /\ UNCHANGED <<onBook, wires, held2nd, rounds, doubtful>>
CancelRetried(t) ==
  /\ t \in InState("unconfirmed") /\ Drop(t) \in onBook
  /\ onBook' = onBook \ {Drop(t)} /\ mine' \in {mine, mine \ {t}}
  /\ UNCHANGED <<wires, held2nd, rounds, doubtful>>

BatchNext ==
  \/ \E p \in QuotePairs : Replace(p)
  \/ \E w \in wires : Taken(w) \/ NotTaken(w)
  \/ \E t \in mine : LegDropped(t) \/ CancelRetried(t)
  \/ Dispatch

BatchSpec == BatchInit /\ [][BatchNext]_batchState
-----------------------------------------------------------------------------
(* The stack's own orders never meet at the venue, in whatever order the    *)
(* requests of a batch arrive there: where a bid rests at or above an ask,  *)
(* one of the two is an order whose cancel or placement was not answered,   *)
(* or whose cancel was never sent.                                          *)
NoOwnCross ==
  \A b \in onBook, a \in onBook :
    b.side = "BUY" /\ a.side = "SELL" /\ b.price >= a.price =>
      {b.id, a.id} \cap (doubtful \cup {w.order.id : w \in {v \in wires : v.answer = "failed"}}) # {}
=============================================================================

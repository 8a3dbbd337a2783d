----------------------------- MODULE CapConverge -----------------------------
(* The clean-up of an instrument's orders at the position cap, with the        *)
(* position book off or in shadow mode (MakeMarketStrategy.cpp): the orders    *)
(* that rest at the venue are listed, each stack claims one row per side it    *)
(* may quote, and every other row is cancelled.  It runs after each fill, when *)
(* a stack is about to place its reducing leg at the cap, on a timer at the    *)
(* cap, and when the venue holds more rows than the stacks.                    *)
(*                                                                             *)
(* Abstracted: one contract per order; a clean-up holds the placement lease    *)
(* and the cycle mutex of every stack, so no stack places meanwhile            *)
(* (ProductLease), while orders already sent arrive, accepts are handled and   *)
(* rows fill; a stack keeps its price, and two prices are within half a tick   *)
(* exactly when they are equal;                                                *)
(* how a leg is dropped by a stack's own cycle is in PairCycle.                *)
EXTENDS Integers, Sequences, FiniteSets, SequencesExt

CONSTANTS DeskOrder,    \* the stacks of the instrument, in the order they claim rows
          ConvCap,      \* the position cap in contracts
          QuotePrice,   \* the price of a stack's legs, a positive number
          Stray,        \* an order that rests from before and is no stack's
          MaxIds,       \* bound: orders, the stray one included
          MaxFilled     \* bound: fills

VARIABLES placed,       \* the orders sent, by number: stack (or "stray"), side, price
          rows,         \* the orders resting at the venue
          flying,       \* the orders sent and not at the venue yet
          known,        \* the orders whose exchange id the engine has
          top,          \* the leg a stack counts as its quote on a side, 0 for none
          desired,      \* last_bid_price_ and last_ask_price_, 0 for none
          tracked,      \* tracked_bids_ and tracked_asks_ of a stack
          venueNet,     \* the position at the venue
          cached,       \* the position in the portfolio cache
          local,        \* position_state_.net_position_qty of a stack
          fills,        \* the fills so far
          unseen,       \* fills at the venue the engine has not processed
          conv          \* the clean-up that is running

convState == <<placed, rows, flying, known, top, desired, tracked,
               venueNet, cached, local, fills, unseen, conv>>

DeskStacks == ToSet(DeskOrder)
LegSides   == {"BUY", "SELL"}
Ids        == 1 .. Len(placed)
Away(side) == IF side = "BUY" THEN "SELL" ELSE "BUY"
Abs(n)     == IF n < 0 THEN -n ELSE n
CapReached(n) == Abs(n) >= ConvCap
GrowSide(n)  == IF n < 0 THEN "SELL" ELSE "BUY"
ReduceSide(n) == Away(GrowSide(n))
OnSide(S, side) == {i \in S : placed[i].side = side}
SignOf(side)  == IF side = "BUY" THEN 1 ELSE -1

NoPass == [pc |-> "idle"]
\* A clean-up judged by position n: after a fill, before the placement of
\* stack `for' ("ensure"), or alone.
CleanUp(why, s, n) == [pc |-> "lease", why |-> why, for |-> s, at |-> n,
                       list |-> {}, left |-> {}, excused |-> {}]

\* Where a clean-up returns to: the fill handler goes on with the sync of the
\* positions, the check before a placement looks at the venue again.
Ended(c) ==
    CASE c.why = "fill"   -> [pc |-> "sync"]
      [] c.why = "ensure" -> [pc |-> "scrub", for |-> c.for, at |-> c.at, pass |-> 1]
      [] OTHER            -> NoPass
-----------------------------------------------------------------------------
(* Which rows the stacks may keep. *)

\* The price and the exchange id a stack has for its leg on a side.
DesiredPrice(s, side) == desired[s][side]

OidOf(s, side) == {top[s][side]} \cap known

\* A bug for the mutant: a stack claims a row only by its exchange id.
ClaimsByIdOnly(s, side, list, claimed) ==
    {OidOf(s, side) \cap (OnSide(list, side) \ claimed)}

\* What one stack can claim among the listed rows nobody claimed before: the
\* row of its leg by exchange id, else a row at its price, else nothing.
Claims(s, side, list, claimed) ==
    LET free == OnSide(list, side) \ claimed
        near == {i \in free : placed[i].price = DesiredPrice(s, side)}
    IN IF OidOf(s, side) \cap free # {} THEN {OidOf(s, side)}
       ELSE IF near # {} THEN {{i} : i \in near}
       ELSE {{}}

\* The sets of rows the stacks may end up protecting on a side: each stack in
\* its turn claims at most one row, and none that was claimed before it.
Protected(side, list) ==
    LET turns     == 1 .. Len(DeskOrder)
        before(c, n) == UNION {c[m] : m \in 1 .. n - 1}
        claimed   == {c \in [turns -> {{}} \cup {{i} : i \in list}] :
                        \A n \in turns : c[n] \in Claims(DeskOrder[n], side, list, before(c, n))}
    IN {UNION {c[n] : n \in turns} : c \in claimed}
-----------------------------------------------------------------------------
(* Orders and fills. *)

Sent(s, side) ==
    /\ Len(placed) < MaxIds
    /\ placed' = Append(placed, [stack |-> s, side |-> side,
                               price |-> QuotePrice[s]])
    /\ flying' = flying \cup {Len(placed) + 1}
    /\ top' = [top EXCEPT ![s][side] = Len(placed) + 1]
    /\ desired' = [desired EXCEPT ![s][side] = QuotePrice[s]]
    /\ tracked' = [tracked EXCEPT ![s] = @ \cup {Len(placed) + 1}]
    /\ UNCHANGED <<rows, known, venueNet, cached, local, fills, unseen>>

\* A cycle below the cap: the position is the venue's as the cache has it, and
\* the side has no leg.
PlaceBelowCap(s, side) ==
    /\ conv = NoPass /\ top[s][side] = 0
    /\ local[s] = cached /\ ~CapReached(local[s])
    /\ Sent(s, side) /\ UNCHANGED conv

\* The reducing leg of a cycle at the cap, after the venue was found clean.
PlaceAtCap(s) ==
    /\ conv.pc = "clean" /\ conv.for = s
    /\ top[s][ReduceSide(local[s])] = 0
    /\ Sent(s, ReduceSide(local[s]))
    /\ conv' = NoPass

Arrive(i) ==
    /\ i \in flying
    /\ flying' = flying \ {i} /\ rows' = rows \cup {i}
    /\ UNCHANGED <<placed, known, top, desired, tracked, venueNet, cached, local, fills, unseen, conv>>

\* The accept of an order that some stack still tracks.
Accepted(i) ==
    /\ i \in UNION {tracked[s] : s \in DeskStacks} \ (flying \cup known)
    /\ known' = known \cup {i}
    /\ UNCHANGED <<placed, rows, flying, top, desired, tracked, venueNet, cached, local, fills, unseen, conv>>

Filled(i) ==
    /\ i \in rows /\ fills < MaxFilled
    /\ fills' = fills + 1
    /\ rows' = rows \ {i} /\ unseen' = unseen \cup {i}
    /\ venueNet' = venueNet + SignOf(placed[i].side)
    /\ UNCHANGED <<placed, flying, known, top, desired, tracked, cached, local, conv>>

\* A processed fill changes the stack's position and cleans up by it.  A fill
\* of an order the stack no longer tracks is not booked.
FillSeen(i) ==
    LET s == placed[i].stack  side == placed[i].side IN
    /\ conv = NoPass /\ i \in unseen
    /\ unseen' = unseen \ {i}
    /\ IF s \in DeskStacks /\ i \in tracked[s]
       THEN /\ local' = [local EXCEPT ![s] = @ + SignOf(side)]
            /\ tracked' = [tracked EXCEPT ![s] = @ \ {i}]
            /\ LET mine == top[s][side] = i IN
               /\ top' = IF mine THEN [top EXCEPT ![s][side] = 0] ELSE top
               /\ desired' = IF mine THEN [desired EXCEPT ![s][side] = 0] ELSE desired
            /\ conv' = CleanUp("fill", "none", local'[s])
       ELSE UNCHANGED <<local, tracked, top, desired, conv>>
    /\ UNCHANGED <<placed, rows, flying, known, venueNet, cached, fills>>
-----------------------------------------------------------------------------
(* Positions read from the venue. *)

\* A refresh of the portfolio cache: none was due or it failed; it took the
\* venue's position; or it is read between dropping the old rows and inserting
\* the new ones, when an instrument has no position.
Refreshed == cached' \in {cached, venueNet, 0}

\* Every stack takes the cache's position.
TakeCached == local' = [s \in DeskStacks |-> cached']

\* The clean-up that follows is judged by the cache's position.
EnforceAfterSync == conv' = CleanUp("alone", "none", cached')

\* After a fill: one refresh, the stacks' positions, a clean-up.
SyncAll ==
    /\ conv.pc = "sync"
    /\ Refreshed
    /\ TakeCached
    /\ EnforceAfterSync
    /\ UNCHANGED <<placed, rows, flying, known, top, desired, tracked, venueNet, fills, unseen>>

\* A cycle whose position differs from the cache's, refreshed or not, takes the
\* larger of the two, cancels its leg on the grow side if that is the cache's,
\* and stops.  A leg whose cancel fails stays its quote.
Reconcile(s) ==
    /\ conv = NoPass
    /\ Refreshed
    /\ cached' # local[s]
    /\ LET larger == IF Abs(cached') > Abs(local[s]) THEN cached' ELSE local[s]
           side   == GrowSide(larger)
           leg    == top[s][side]
       IN /\ local' = [local EXCEPT ![s] = larger]
          /\ IF larger # local[s] /\ leg # 0
             THEN \E gone, dropped \in BOOLEAN :
                    /\ leg \notin known => ~gone /\ ~dropped
                    /\ rows' = IF gone THEN rows \ {leg} ELSE rows
                    /\ tracked' = IF dropped THEN [tracked EXCEPT ![s] = @ \ {leg}] ELSE tracked
                    /\ \E cleared \in BOOLEAN :
                         /\ leg \notin known \/ dropped => cleared
                         /\ top' = IF cleared THEN [top EXCEPT ![s][side] = 0] ELSE top
                         /\ desired' = IF cleared THEN [desired EXCEPT ![s][side] = 0] ELSE desired
             ELSE UNCHANGED <<rows, tracked, top, desired>>
    /\ UNCHANGED <<placed, flying, known, venueNet, fills, unseen, conv>>

\* The refresh for a changed cap: the cache's position replaces the stack's,
\* unless the stack has a fill of the last two seconds and the larger position.
RefreshNet(s) ==
    /\ conv = NoPass
    /\ Refreshed
    /\ local' = [local EXCEPT ![s] = cached]
    /\ UNCHANGED <<placed, rows, flying, known, top, desired, tracked, venueNet, fills, unseen, conv>>
-----------------------------------------------------------------------------
(* The clean-up. *)

\* Cancelling the legs the stacks count as their quotes on a side.  A leg
\* without an exchange id is left alone; a cancel can work or not, and the leg
\* be dropped or kept, independently (time-out, other error); the side is reset
\* in every case.
CancelTops(side) ==
    LET legs == {top[s][side] : s \in DeskStacks} \cap known IN
    \E gone, dropped \in SUBSET legs :
       /\ rows' = rows \ gone
       /\ tracked' = [s \in DeskStacks |-> tracked[s] \ dropped]
       /\ top' = [s \in DeskStacks |-> [top[s] EXCEPT ![side] = 0]]
       /\ desired' = [s \in DeskStacks |-> [desired[s] EXCEPT ![side] = 0]]

\* Without the lease only the grow-side legs are cancelled.
LeaseRefused ==
    /\ conv.pc = "lease"
    /\ IF CapReached(conv.at) THEN CancelTops(GrowSide(conv.at))
                              ELSE UNCHANGED <<rows, tracked, top, desired>>
    /\ conv' = Ended(conv)
    /\ UNCHANGED <<placed, flying, known, venueNet, cached, local, fills, unseen>>

\* What the venue's listing of open orders can give; one that fails has no rows.
Listings == {{}, rows}

\* With the lease and every cycle mutex, the rows are listed.
Listed ==
    /\ conv.pc = "lease"
    /\ \E list \in Listings : conv' = [conv EXCEPT !.pc = "choose", !.list = list]
    /\ UNCHANGED <<placed, rows, flying, known, top, desired, tracked, venueNet, cached, local, fills, unseen>>

\* Another listed row of the side is at the order's price.
Doubled(i, list) ==
    \E j \in OnSide(list, placed[i].side) \ {i} : placed[j].price = placed[i].price

\* At the cap the grow side goes and the reducing side keeps what is claimed;
\* below it both sides keep what is claimed.
Chosen ==
    /\ conv.pc = "choose"
    /\ \E b \in Protected("BUY", conv.list), a \in Protected("SELL", conv.list) :
         LET keep == IF CapReached(conv.at) THEN OnSide(b \cup a, ReduceSide(conv.at)) ELSE b \cup a
         IN conv' = [conv EXCEPT !.pc = "cancel", !.list = {}, !.left = conv.list \ keep,
                                 !.excused = {i \in conv.list \ known : Doubled(i, conv.list)}]
    /\ UNCHANGED <<placed, rows, flying, known, top, desired, tracked, venueNet, cached, local, fills, unseen>>

\* An order cancelled by exchange id leaves the tracked legs of every stack
\* that has this id, and a stack's quote without a tracked leg is cleared.
Evict(i) ==
    LET drop == {i} \cap known IN
    /\ tracked' = [s \in DeskStacks |-> tracked[s] \ drop]
    /\ top' = [s \in DeskStacks |-> [side \in LegSides |->
                  IF top[s][side] \in tracked'[s] THEN top[s][side] ELSE 0]]
    /\ desired' = [s \in DeskStacks |-> [side \in LegSides |->
                  IF top[s][side] # 0 /\ top'[s][side] = 0 THEN 0 ELSE desired[s][side]]]

\* One cancel by exchange id: done (an order already gone counts), or failed.
CancelRow ==
    /\ conv.pc = "cancel" /\ conv.left # {}
    /\ \E i \in conv.left :
         /\ \A j \in conv.left : i <= j
         /\ conv' = [conv EXCEPT !.left = @ \ {i}]
         /\ \/ rows' = rows \ {i} /\ Evict(i)
            \/ UNCHANGED <<rows, tracked, top, desired>>
    /\ UNCHANGED <<placed, flying, known, venueNet, cached, local, fills, unseen>>

\* Last, at the cap, the quotes of the stacks on the grow side.
CancelGrowLegs ==
    /\ conv.pc = "cancel" /\ conv.left = {}
    /\ IF CapReached(conv.at) THEN CancelTops(GrowSide(conv.at))
                              ELSE UNCHANGED <<rows, tracked, top, desired>>
    /\ conv' = Ended(conv)
    /\ UNCHANGED <<placed, flying, known, venueNet, cached, local, fills, unseen>>
-----------------------------------------------------------------------------
(* Who asks for a clean-up at the cap. *)

\* The timer, every 15 seconds.
Periodic ==
    /\ conv = NoPass /\ CapReached(cached)
    /\ conv' = CleanUp("alone", "none", cached)
    /\ UNCHANGED <<placed, rows, flying, known, top, desired, tracked, venueNet, cached, local, fills, unseen>>

\* Every fourth cycle of a stack.
AfterReplace(s) ==
    /\ conv = NoPass /\ CapReached(cached)
    /\ conv' = CleanUp("alone", "none", cached)
    /\ UNCHANGED <<placed, rows, flying, known, top, desired, tracked, venueNet, cached, local, fills, unseen>>

\* The venue holds more reducing rows than the stacks claim.
Excess(s) ==
    /\ conv = NoPass /\ CapReached(cached)
    /\ \E k \in Protected(ReduceSide(cached), rows) :
         Cardinality(OnSide(rows, ReduceSide(cached))) > IF k = {} THEN 1 ELSE Cardinality(k)
    /\ conv' = CleanUp("alone", "none", cached)
    /\ UNCHANGED <<placed, rows, flying, known, top, desired, tracked, venueNet, cached, local, fills, unseen>>

\* Before the reducing leg is placed: the stacks' legs on that side are
\* cancelled, then the venue is looked at.
EnsureClean(s) ==
    /\ conv = NoPass /\ local[s] = cached /\ CapReached(local[s])
    /\ CancelTops(ReduceSide(local[s]))
    /\ conv' = [pc |-> "scrub", for |-> s, at |-> local[s], pass |-> 0]
    /\ UNCHANGED <<placed, flying, known, venueNet, cached, local, fills, unseen>>

\* At most one reducing row: place.  More: clean up and look again, a few
\* times, then give up.  A listing that fails stops the first look and ends
\* the later ones as if clean.
LookAgain ==
    /\ conv.pc = "scrub"
    /\ LET few == Cardinality(OnSide(rows, ReduceSide(conv.at))) <= 1 IN
       \/ few /\ conv' = [pc |-> "clean", for |-> conv.for]
       \/ ~few /\ conv' = CleanUp("ensure", conv.for, conv.at)
       \/ ~few /\ conv.pass = 1 /\ conv' = NoPass
       \/ conv' = IF conv.pass = 0 THEN NoPass ELSE [pc |-> "clean", for |-> conv.for]
    /\ UNCHANGED <<placed, rows, flying, known, top, desired, tracked, venueNet, cached, local, fills, unseen>>

\* The cycle's later gates keep it from placing.
NotPlaced ==
    /\ conv.pc = "clean" /\ conv' = NoPass
    /\ UNCHANGED <<placed, rows, flying, known, top, desired, tracked, venueNet, cached, local, fills, unseen>>
-----------------------------------------------------------------------------
ConvInit ==
    /\ placed = <<Stray>>
    /\ rows = {1} /\ flying = {} /\ known = {}
    /\ top = [s \in DeskStacks |-> [side \in LegSides |-> 0]]
    /\ desired = [s \in DeskStacks |-> [side \in LegSides |-> 0]]
    /\ tracked = [s \in DeskStacks |-> {}]
    /\ venueNet = 0 /\ cached = 0 /\ local = [s \in DeskStacks |-> 0] /\ fills = 0
    /\ unseen = {} /\ conv = NoPass

ConvNext ==
    \/ \E s \in DeskStacks :
         \/ \E side \in LegSides : PlaceBelowCap(s, side)
         \/ PlaceAtCap(s)
         \/ Reconcile(s)
         \/ RefreshNet(s)
         \/ Excess(s)
         \/ AfterReplace(s)
         \/ EnsureClean(s)
    \/ \E i \in Ids : Arrive(i) \/ Accepted(i) \/ Filled(i) \/ FillSeen(i)
    \/ SyncAll
    \/ LeaseRefused
    \/ Listed
    \/ Chosen
    \/ CancelRow
    \/ CancelGrowLegs
    \/ Periodic
    \/ LookAgain
    \/ NotPlaced

ConvSpec == ConvInit /\ [][ConvNext]_convState
-----------------------------------------------------------------------------
\* The clean-up cancels no order that is a stack's present quote on a side the
\* stack may keep.  The exception the code has: the order was not accepted yet
\* when the rows were claimed, and another listed row of that side was at its
\* price, which the stack then may have claimed instead
\* (mmConvergeProductBookOnAx, mmBuildProtectOidsWithTieBreak).
CancelSpares ==
  \A i \in rows \ rows' :
    CancelRow /\ (CapReached(conv.at) => placed[i].side = ReduceSide(conv.at))
    => \/ \A s \in DeskStacks : top[s][placed[i].side] # i
       \/ i \in conv.excused
\* (of every step)
SparesQuotes == [][CancelSpares]_convState
=============================================================================

---------------------------- MODULE NetPosition ----------------------------
(***************************************************************************)
(* The net position of one product with position_book_mode = enforce        *)
(* (src/include/strategy/PositionBook.h and its use by the market maker):   *)
(* the last position the venue reported plus the fills booked since. The    *)
(* fills and the positions are fetched by the fast poller, one request at a *)
(* time, and applied by the main loop from one queue in the order they were *)
(* fetched; quoting decisions read the sum on other threads. At the cap the *)
(* stacks quote the reducing side only, and what rests on the other side is *)
(* cancelled. An order is for one contract.                                 *)
(***************************************************************************)
EXTENDS Integers, Sequences, FiniteSets, FiniteSetsExt

CONSTANTS
  PosLegs,     \* the legs: a market making stack on the product and a side
  Cap,         \* max_position
  MaxFills,    \* bound: fills at the venue
  MaxBodies    \* poll_handoff_queue_ drops its oldest entry beyond this

VARIABLES
  trades,    \* the fills at the venue, in order: quantity, and the leg, if it is one of ours
  bodies,    \* poll_handoff_queue_
  snapshot,  \* exchange_snapshot_qty_
  unbooked,  \* unaccounted_fill_qty_
  legs,      \* per stack and side: what the main loop and the mover do with the leg
  booked,    \* history: the fills processed by the main loop
  basis,     \* history: the fills in the snapshot
  since,     \* history: the fills added to the book after the snapshot was applied
  late       \* history: legs that were decided on before the position changed last

posState == <<trades, bodies, snapshot, unbooked, legs, booked, basis, since, late>>

Sides == {"BUY", "SELL"}
Signed(d) == IF d = "BUY" THEN 1 ELSE -1
Fills == DOMAIN trades
\* each fill is for one contract: those bought less those sold
SumOf(s) == Cardinality({f \in s : trades[f].qty = 1}) - Cardinality({f \in s : trades[f].qty = -1})
Nobody == <<"nobody", "BUY">>

Effective == snapshot + unbooked
Magnitude(n) == IF n < 0 THEN -n ELSE n
AtCap(n) == Magnitude(n) >= Cap
Grows(d, n) == n * Signed(d) > 0

PosInit ==
  /\ trades = <<>> /\ bodies = <<>>
  /\ snapshot = 0 /\ unbooked = 0
  /\ legs = [x \in PosLegs |-> "none"]
  /\ booked = {} /\ basis = {} /\ since = {} /\ late = {}
-----------------------------------------------------------------------------
(* the venue *)
Trade(qty, leg) == trades' = Append(trades, [qty |-> qty, leg |-> leg])
LegFills(x) ==
  /\ Len(trades) < MaxFills /\ legs[x] \in {"live", "cancelling"}
  /\ Trade(Signed(x[2]), x)
  /\ legs' = [legs EXCEPT ![x] = "filled"]
  /\ UNCHANGED <<bodies, snapshot, unbooked, booked, basis, since, late>>
\* a fill of an order that no stack tracks
OrphanFills(d) ==
  /\ Len(trades) < MaxFills
  /\ Trade(Signed(d), Nobody)
  /\ UNCHANGED <<bodies, snapshot, unbooked, legs, booked, basis, since, late>>
CancelEnds(x) ==
  /\ legs[x] = "cancelling" /\ legs' = [legs EXCEPT ![x] = "none"]
  /\ UNCHANGED <<trades, bodies, snapshot, unbooked, booked, basis, since, late>>
-----------------------------------------------------------------------------
(* the fast poller *)
Push(b) == bodies' = IF Len(bodies) = MaxBodies THEN Append(Tail(bodies), b) ELSE Append(bodies, b)
FetchFills ==
  /\ Push([kind |-> "fills", has |-> Fills])
  /\ UNCHANGED <<trades, snapshot, unbooked, legs, booked, basis, since, late>>
FetchPositions ==
  /\ Push([kind |-> "positions", has |-> Fills])
  /\ UNCHANGED <<trades, snapshot, unbooked, legs, booked, basis, since, late>>
-----------------------------------------------------------------------------
(* drainFastPollerHandoff *)
\* mutant: the newest body is applied first
NextBodyNewest == [item |-> bodies[Len(bodies)], rest |-> SubSeq(bodies, 1, Len(bodies) - 1)]
NextBody == [item |-> Head(bodies), rest |-> Tail(bodies)]

\* at the cap, what rests on the growing side is cancelled; a decision that is not placed yet is missed
Converge(l, n) ==
  [x \in PosLegs |->
     IF AtCap(n) /\ Grows(x[2], n) /\ l[x] = "live" THEN "cancelling" ELSE l[x]]
Undecided == {x \in PosLegs : legs[x] = "decided"}

\* processFill: the leg's stack adds it to the book; an orphan waits for the next snapshot
BookFill ==
  /\ bodies # <<>> /\ NextBody.item.kind = "fills"
  /\ NextBody.item.has \ booked # {}
  /\ LET f == Min(NextBody.item.has \ booked)
         x == trades[f].leg
     IN /\ booked' = booked \cup {f}
        /\ IF x = Nobody THEN UNCHANGED <<unbooked, legs, since, late>>
           ELSE /\ unbooked' = unbooked + trades[f].qty /\ since' = since \cup {f}
                /\ legs' = Converge([legs EXCEPT ![x] = "none"], snapshot + unbooked + trades[f].qty)
                /\ late' = Undecided
  /\ UNCHANGED <<trades, bodies, snapshot, basis>>
FillsDone ==
  /\ bodies # <<>> /\ NextBody.item.kind = "fills" /\ NextBody.item.has \subseteq booked
  /\ bodies' = NextBody.rest
  /\ UNCHANGED <<trades, snapshot, unbooked, legs, booked, basis, since, late>>

\* applyExchangePositionsBody, mmApplyVenueSnapshotBatch, mmEnforceCapFromSnapshotOnSymbol
ApplySnapshot ==
  /\ bodies # <<>> /\ NextBody.item.kind = "positions"
  /\ snapshot' = SumOf(NextBody.item.has) /\ unbooked' = 0
  /\ basis' = NextBody.item.has /\ since' = {}
  /\ legs' = Converge(legs, snapshot') /\ late' = Undecided
  /\ bodies' = NextBody.rest
  /\ UNCHANGED <<trades, booked>>

\* a new stack on the product seeds the shared book with the position it has asked for
Seed ==
  /\ snapshot' = SumOf(Fills) /\ unbooked' = 0
  /\ basis' = Fills /\ since' = {}
  /\ late' = {x \in PosLegs : legs[x] \in {"decided", "live"}}
  /\ UNCHANGED <<trades, bodies, legs, booked>>
-----------------------------------------------------------------------------
(* a stack's quote cycle *)
\* mutant: the fills since the snapshot are left out
MayQuoteOnSnapshot(d) == ~(Grows(d, snapshot) /\ AtCap(snapshot))
MayGrow(d) == ~(Grows(d, Effective) /\ AtCap(Effective))
DecideLeg(x) ==
  /\ legs[x] = "none" /\ MayGrow(x[2])
  /\ legs' = [legs EXCEPT ![x] = "decided"]
  /\ late' = late \ {x}
  /\ UNCHANGED <<trades, bodies, snapshot, unbooked, booked, basis, since>>
PlaceLeg(x) ==
  /\ legs[x] = "decided" /\ legs' = [legs EXCEPT ![x] = "live"]
  /\ UNCHANGED <<trades, bodies, snapshot, unbooked, booked, basis, since, late>>

PosNext ==
  \/ \E x \in PosLegs : LegFills(x) \/ CancelEnds(x) \/ DecideLeg(x) \/ PlaceLeg(x)
  \/ \E d \in Sides : OrphanFills(d)
  \/ FetchFills \/ FetchPositions \/ BookFill \/ FillsDone \/ ApplySnapshot \/ Seed

PosSpec == PosInit /\ [][PosNext]_posState
-----------------------------------------------------------------------------
\* The book holds what the venue reported plus the fills booked since, and no fill of ours that
\* the main loop has processed is missing from it: a snapshot never wipes out a fill it does not
\* have. (It may count one twice that the venue reports before the fill is processed; the next
\* snapshot repairs that.)
BookSound ==
  /\ Effective = SumOf(basis) + SumOf(since)
  /\ {f \in booked : trades[f].leg # Nobody} \subseteq basis \cup since

\* At the cap no order rests on the growing side without a cancel under way, except one whose
\* placement had been decided on before the position last changed (or, when a new stack seeded
\* the book, that rested already).
CapHeld ==
  AtCap(Effective) =>
    \A x \in PosLegs : legs[x] = "live" /\ Grows(x[2], Effective) => x \in late
=============================================================================

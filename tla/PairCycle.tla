------------------------------ MODULE PairCycle ------------------------------
(***************************************************************************)
(* The pair cycle of one desk stack: a bid and an ask rest at the venue,    *)
(* are cancelled and placed again when the theoretical price moves, and     *)
(* when one is filled the other one is cancelled and a fresh pair is placed *)
(* (src/strategy/MakeMarketStrategy.cpp).                                   *)
(*                                                                          *)
(* Three actors work on the legs the stack tracks: the price feed (cycle    *)
(* start, scan for overdue cancel acknowledgements), the main loop (fills,  *)
(* open-orders reconcile) and the worker of the instrument in the order     *)
(* mover, which runs the queued jobs one at a time, with other actors in    *)
(* between its HTTP calls. The fourth is the venue.                         *)
(*                                                                          *)
(* Every order is for one contract, so there are no partial fills. The      *)
(* order's answer comes with its submission, place_before_cancel_ack and    *)
(* the position book are off, the price feed is up and every placing gate   *)
(* of the configuration open; a gate that closes for a moment is a side the *)
(* cycle does not want. Desk reseeding and adoption are left out.           *)
(***************************************************************************)
EXTENDS Integers, Sequences, FiniteSets, SequencesExt

CONSTANTS
  MaxOrders,    \* bound: orders a side may send in one behaviour
  MaxEvents,    \* bound: how many of them the venue fills or drops by itself
  Cap,          \* max_position
  OrphanMax,    \* kOrphanRecoveryMaxConsecutive (5)
  Faults        \* what may go wrong: see FaultKinds

FaultKinds ==
  {"network",   \* the answer to a cancel is lost, its effect may have happened
   "error",     \* the venue answers a cancel with an error, the order stays
   "listing",   \* GET /open-orders fails
   "reject",    \* the venue rejects an order
   "drop",      \* the venue drops a resting order by itself
   "late"}      \* a cancel is not acknowledged within cancel_ack_timeout_ms

ASSUME PairCycleAssumption ==
  /\ MaxOrders \in Nat \ {0} /\ MaxEvents \in Nat /\ Cap \in Nat \ {0} /\ OrphanMax \in Nat
  /\ Faults \subseteq FaultKinds

VARIABLES
  venue,    \* the state of each order at the venue
  asked,    \* the live orders some cancel request was sent for
  om,       \* the engine's order row: none, active or final (OrderManager)
  desk,     \* the tracked legs, the top of book, net position, pending accepts, mover queue
  work,     \* what is left of the job the mover's worker is running
  stack,    \* MmStackState
  recov     \* mm_venue_orphan_consecutive_recoveries_

vars == <<venue, asked, om, desk, work, stack, recov>>

Sides   == {"BUY", "SELL"}
Opp(s)  == CHOOSE t \in Sides : t # s
Orders  == Sides \X (1 .. MaxOrders)
None    == <<"none", 0>>
Side(o) == o[1]

\* A leg: ADOPTED, CANCEL_PENDING, CANCELLED, PLACE_PENDING or FILLED, with the intent
\* None, TheoMove or FillOpposite. Jobs of the mover: quote, requote, repeg, cancel.
\* exchange and local id, state, pending_cancel_intent, desk_cancel_timeout_retry_sent,
\* cancel_after_opposite_settled, pending_place_client_id, time in the state
Leg(o, st) == [ord |-> o, st |-> st, intent |-> "None", retry |-> FALSE, due |-> FALSE,
               cid |-> None, age |-> 0]

Live   == {o \in Orders : venue[o] = "live"}
Filled == {o \in Orders : venue[o] = "filled"}
Booked(d) == {o \in Orders : \E s \in Sides : \E i \in DOMAIN d.legs[s] : d.legs[s][i].ord = o}
\* what the venue's portfolio says, and which side makes a position grow
VenueNet == Cardinality({o \in Filled : Side(o) = "BUY"})
            - Cardinality({o \in Filled : Side(o) = "SELL"})
Mag(n)    == IF n < 0 THEN -n ELSE n
Grow(n)   == IF n >= 0 THEN "BUY" ELSE "SELL"
AtCap(n)  == Mag(n) >= Cap
Wanted(n) == {s \in Sides : IF s = "BUY" THEN n < Cap ELSE -n < Cap}
BidFirst(S) == (IF "BUY" \in S THEN <<"BUY">> ELSE <<>>) \o (IF "SELL" \in S THEN <<"SELL">> ELSE <<>>)
-----------------------------------------------------------------------------
(* The legs. Every operator maps a desk record to a desk record.             *)
InFlight(l)  == l.st \in {"CANCEL_PENDING", "PLACE_PENDING"}
Cancelling(l) == l.st = "CANCEL_PENDING"
SomeLeg(d, P(_)) == \E s \in Sides : \E i \in DOMAIN d.legs[s] : P(d.legs[s][i])
HasOrd(d, o) == o \in Booked(d)
LegOf(d, o) == LET s == Side(o)
               IN d.legs[s][CHOOSE i \in DOMAIN d.legs[s] : d.legs[s][i].ord = o]
PairInFlight(d) == d.pend > 0 \/ SomeLeg(d, InFlight)
PairSettled(d)  == ~ SomeLeg(d, LAMBDA l : l.st \in {"ADOPTED", "CANCEL_PENDING"})

EachLeg(d, S, P(_), F(_)) ==
  [d EXCEPT !.legs = [s \in Sides |->
     IF s \notin S THEN @[s]
     ELSE [i \in DOMAIN @[s] |-> IF P(@[s][i]) THEN F(@[s][i]) ELSE @[s][i]]]]
\* what is left of a sequence at the indices of I, in its order
Kept(seq, I) ==
  [n \in 1 .. Cardinality(I) |-> seq[CHOOSE i \in I : Cardinality({j \in I : j <= i}) = n]]
DropLegs(d, ords) ==
  [d EXCEPT !.legs = [s \in Sides |-> Kept(@[s], {i \in DOMAIN @[s] : @[s][i].ord \notin ords})]]
EraseTracked(d, o) == DropLegs(d, {o})

\* the first order of a side that may still rest there
TopOf(seq) ==
  LET working == {i \in DOMAIN seq : seq[i].ord # None /\ seq[i].st \notin {"CANCELLED", "FILLED"}}
  IN IF working = {} THEN None ELSE seq[CHOOSE i \in working : \A j \in working : i <= j].ord
Refresh(d) == [d EXCEPT !.top = [s \in Sides |-> TopOf(d.legs[s])]]

AskCancel(l, why) ==
  [l EXCEPT !.st = "CANCEL_PENDING", !.intent = why, !.retry = FALSE, !.age = 0]
Settle(l) ==
  [l EXCEPT !.st = "CANCELLED", !.ord = None, !.intent = "None", !.retry = FALSE, !.age = 0]
Adopted(l) == l.st = "ADOPTED"
AdoptedOn(d, S) == {o \in Booked(d) : Side(o) \in S /\ LegOf(d, o).st = "ADOPTED"}

(* The mover's queue; a quote or requote job that waits already is not queued again. *)
Job(kind, ords, s) == [kind |-> kind, ords |-> ords, side |-> s]
Queued(d, kind) == \E i \in DOMAIN d.queue : d.queue[i].kind = kind
Enqueue(d, job) == [d EXCEPT !.queue = Append(@, job)]
EnqueueQuote(d)   == IF Queued(d, "quote") THEN d ELSE Enqueue(d, Job("quote", {}, "BUY"))
EnqueueRequote(d) == IF Queued(d, "requote") THEN d ELSE Enqueue(d, Job("requote", {}, "BUY"))
EnqueueRepeg(d, s) == Enqueue(d, Job("repeg", {}, s))
EnqueueCancel(d, ords) == IF ords = {} THEN d ELSE Enqueue(d, Job("cancel", ords, "BUY"))

\* what a settled cancel is followed by
AfterCancel(d, intent, s) ==
  CASE intent = "FillOpposite" -> EnqueueRequote(d)
    [] intent = "TheoMove"     -> IF PairSettled(d) THEN EnqueueQuote(d) ELSE d
    [] OTHER                   -> EnqueueRepeg(d, s)
-----------------------------------------------------------------------------
(* The handlers of the order events, which run on whichever thread got the   *)
(* answer.                                                                   *)
OnCancel(d, o) ==
  LET s == Side(o)
      l == LegOf(d, o)
      filledAway == IF s = "BUY" THEN d.net > 0 ELSE d.net < 0
      other == {i \in DOMAIN d.legs[Opp(s)] : d.legs[Opp(s)][i].st = "ADOPTED"}
      first == CHOOSE i \in other : \A j \in other : i <= j
      booked == [d EXCEPT !.legs[s] =
                   [i \in DOMAIN @ |-> IF @[i].ord = o THEN [@[i] EXCEPT !.st = "FILLED", !.age = 0] ELSE @[i]]]
  IN IF ~ HasOrd(d, o) THEN Refresh(d)
     ELSE IF l.st = "CANCEL_PENDING"
          THEN Refresh(AfterCancel(EachLeg(d, {s}, LAMBDA k : k.ord = o, Settle), l.intent, s))
     ELSE IF ~ (l.st = "ADOPTED" /\ filledAway) THEN Refresh(EraseTracked(d, o))
     ELSE IF other # {}
          THEN Refresh(EnqueueCancel(
                 [booked EXCEPT !.legs[Opp(s)][first] = AskCancel(@, "FillOpposite")],
                 {d.legs[Opp(s)][first].ord}))
     ELSE Refresh(EnqueueRequote([booked EXCEPT !.legs[Opp(s)] = Append(@, Leg(None, "CANCELLED"))]))

\* Fault: the opposite leg is only marked, no cancel request is queued for it.
ProcessFillNoCancel(d, o, n, swept) ==
  LET d1 == [DropLegs(d, swept) EXCEPT !.net = n]
      other == AdoptedOn(d1, {Opp(Side(o))})
      d2 == EachLeg(d1, {Opp(Side(o))}, Adopted, LAMBDA l : AskCancel(l, "FillOpposite"))
      d3 == EraseTracked(d2, o)
  IN Refresh(IF other = {} THEN EnqueueRequote(d3) ELSE d3)

\* A full fill: the sweep of the product's book took `swept` off the venue, the
\* other side is cancelled, the filled leg is forgotten.
ProcessFill(d, o, n, swept) ==
  LET d1 == [DropLegs(d, swept) EXCEPT !.net = n]
      other == AdoptedOn(d1, {Opp(Side(o))})
      d2 == EachLeg(d1, {Opp(Side(o))}, Adopted, LAMBDA l : AskCancel(l, "FillOpposite"))
      d3 == EnqueueCancel(EraseTracked(d2, o), other)
  IN Refresh(IF other = {} THEN EnqueueRequote(d3) ELSE d3)

\* A resting order the open-orders listing lacks is booked as a fill; a leg that
\* waits for its order or for a cancel is cancelled once it has settled.
FillDeskStack(d, o, n, swept) ==
  LET q == Opp(Side(o))
      d1 == EachLeg(d, {Side(o)}, LAMBDA l : l.ord = o, LAMBDA l : [l EXCEPT !.st = "FILLED", !.age = 0])
      d2 == EachLeg(d1, {q}, InFlight, LAMBDA l : [l EXCEPT !.due = TRUE])
      d3 == EachLeg(d2, {q}, Adopted, LAMBDA l : AskCancel(l, "FillOpposite"))
      d4 == [DropLegs(d3, swept) EXCEPT !.net = n]
  IN Refresh(EnqueueCancel(d4, AdoptedOn(d, {q})))

\* the rows of the book the sweep must not touch
Protected(d, n) ==
  {d.top[s] : s \in IF AtCap(n) THEN {Opp(Grow(n))} ELSE Sides} \ {None}
-----------------------------------------------------------------------------
(* The venue's answer to a cancel, and the effect of the answer on the stack. *)
CancelAnswers(o) ==
  (IF venue[o] = "live" THEN {<<"gone", "ok">>} ELSE {<<venue[o], "benign">>})
  \cup (IF "network" \in Faults
        THEN {<<venue[o], "lost">>} \cup (IF venue[o] = "live"
                                         THEN {<<"gone", "lost">>, <<"gone", "benign">>} ELSE {})
        ELSE {})
  \cup (IF "error" \in Faults /\ venue[o] = "live" THEN {<<"live", "error">>} ELSE {})

\* A cancel straight at the gateway: a refused one may still be at work there, an
\* unexpected error counts as done.
GatewayCancel(d, o, answer) ==
  [desk |-> CASE answer = "lost"   -> d
              [] answer = "benign" ->
                   EachLeg(d, {Side(o)}, LAMBDA l : l.ord = o /\ l.st # "FILLED",
                           LAMBDA l : [l EXCEPT !.st = "CANCEL_PENDING", !.retry = FALSE, !.age = 0])
              [] OTHER             -> EraseTracked(d, o),
   ok |-> answer # "lost"]

\* Legs whose order the venue does not list any more, beyond the grace period.
Dead(d)   == {o \in Booked(d) : venue[o] # "live" /\ LegOf(d, o).age = 2}
Spared(d) == {o \in Booked(d) : venue[o] # "live" /\ LegOf(d, o).age < 2}
Evict(d)  == Refresh(DropLegs(d, Dead(d)))
Orphaned(d) == Dead(d) # {} /\ Live = {} /\ Spared(d) = {}

\* Nothing left at the venue: the stack is orphaned, and re-armed at once unless
\* it was too often in a row or too short a time ago.
EvictStack(d) ==
  IF ~ Orphaned(d) THEN {<<stack, IF Live # {} THEN 0 ELSE recov>>}
  ELSE {<<"VENUE_ORPHANED", recov>>}
       \cup (IF recov < OrphanMax THEN {<<"ACTIVE", recov + 1>>} ELSE {})
-----------------------------------------------------------------------------
(* The price feed.                                                           *)
\* a tick starts a cycle unless one is in flight
FeedTick ==
  /\ stack = "ACTIVE" /\ ~ PairInFlight(desk) /\ ~ Queued(desk, "quote")
  /\ desk' = EnqueueQuote(desk)
  /\ UNCHANGED <<venue, asked, om, work, stack, recov>>

\* Time: a leg's age is 0, past the ack timeout (1), or past the evict grace (2).
Older(l) == l.ord # None /\ l.age < 2
Tick ==
  /\ SomeLeg(desk, Older)
  /\ "late" \notin Faults =>
       \A o \in Booked(desk) \ asked : LegOf(desk, o).st = "CANCEL_PENDING" => venue[o] # "live"
  /\ desk' = EachLeg(desk, Sides, Older, LAMBDA l : [l EXCEPT !.age = IF l.st = "CANCEL_PENDING" THEN @ + 1 ELSE 2])
  /\ UNCHANGED <<venue, asked, om, work, stack, recov>>

Overdue(l) == l.st = "CANCEL_PENDING" /\ l.age >= 1
NeedsScan(d, o) ==
  o \in Booked(d) /\ Overdue(LegOf(d, o)) /\ (venue[o] = "live" => ~ LegOf(d, o).retry)

\* The scan for overdue cancel acknowledgements: an order the venue still lists
\* gets one more cancel, any other one is settled. A failed listing lists nothing.
AckTimeout(o) ==
  /\ o \in Booked(desk) /\ Overdue(LegOf(desk, o))
  /\ \E open \in IF "listing" \in Faults THEN {venue[o] = "live", FALSE} ELSE {venue[o] = "live"} :
       LET isO(l) == l.ord = o
           l == LegOf(desk, o)
       IN IF open
          THEN /\ ~ l.retry
               /\ desk' = EnqueueCancel(EachLeg(desk, {Side(o)}, isO,
                             LAMBDA k : [k EXCEPT !.retry = TRUE, !.age = 0]), {o})
          ELSE desk' = Refresh(AfterCancel(EachLeg(desk, {Side(o)}, isO, Settle), l.intent, Side(o)))
  /\ UNCHANGED <<venue, asked, om, work, stack, recov>>
-----------------------------------------------------------------------------
(* The venue, and the main loop.                                             *)
Calm == Cardinality({o \in Orders : venue[o] \in {"filled", "dropped"}}) < MaxEvents

VenueFill(o) ==
  /\ venue[o] = "live" /\ Calm
  /\ venue' = [venue EXCEPT ![o] = "filled"]
  /\ asked' = asked \ {o}
  /\ UNCHANGED <<om, desk, work, stack, recov>>

\* the order ends without a request of ours
VenueDrop(o) ==
  /\ "drop" \in Faults /\ venue[o] = "live" /\ Calm
  /\ venue' = [venue EXCEPT ![o] = "dropped"]
  /\ asked' = asked \ {o}
  /\ UNCHANGED <<om, desk, work, stack, recov>>

\* what a sweep of the product's book takes off the venue
Sweeps(d, n) ==
  LET rows == Live \ Protected(d, n)
  IN IF {"network", "listing"} \cap Faults # {} THEN SUBSET rows ELSE {rows}
Sweep(swept) ==
  /\ venue' = [o \in Orders |-> IF o \in swept THEN "gone" ELSE venue[o]]
  /\ asked' = asked \ swept

\* The poller delivers the fill; without a leg for it nothing happens here.
ApplyFill(o) ==
  /\ venue[o] = "filled" /\ om[o] = "active"
  /\ om' = [om EXCEPT ![o] = "final"]
  /\ IF HasOrd(desk, o)
     THEN \E swept \in Sweeps(desk, VenueNet) :
            /\ Sweep(swept)
            /\ desk' = ProcessFill(desk, o, VenueNet, swept)
     ELSE desk' = Refresh(desk) /\ UNCHANGED <<venue, asked>>
  /\ UNCHANGED <<work, stack, recov>>

\* The periodic open-orders reconcile finds an active order that is not listed: it
\* is booked as a fill if its leg rests, and then reported cancelled.
VenueTruthMissing(o) ==
  /\ om[o] = "active" /\ venue[o] \in {"filled", "dropped", "gone"}
  /\ om' = [om EXCEPT ![o] = "final"]
  /\ IF HasOrd(desk, o) /\ LegOf(desk, o).st = "ADOPTED"
     THEN \E swept \in Sweeps(desk, VenueNet) :
            /\ Sweep(swept)
            /\ desk' = OnCancel(FillDeskStack(desk, o, VenueNet, swept), o)
     ELSE desk' = OnCancel(desk, o) /\ UNCHANGED <<venue, asked>>
  /\ UNCHANGED <<work, stack, recov>>
-----------------------------------------------------------------------------
(* The mover's worker.                                                       *)
Step(kind, o, s) == [step |-> kind, ord |-> o, side |-> s]
Popped == [desk EXCEPT !.queue = Tail(@)]
Starts(kind) == work = <<>> /\ desk.queue # <<>> /\ Head(desk.queue).kind = kind

\* A stack that is not active drops its quote and requote jobs.
DropJob ==
  /\ Starts("quote") \/ Starts("requote")
  /\ stack # "ACTIVE"
  /\ desk' = Popped
  /\ UNCHANGED <<venue, asked, om, work, stack, recov>>

\* mmReconcileTrackedAgainstVenue: it lists the orders (at most every 3 s for a
\* quote, always for a requote) and forgets the legs that are not listed.
Reconcile(forced, next) ==
  \/ \E r \in EvictStack(desk) :
       /\ desk' = Evict(Popped) /\ stack' = r[1] /\ recov' = r[2]
       /\ work' = next
  \/ /\ ~ forced \/ "listing" \in Faults
     /\ desk' = Popped /\ work' = next
     /\ UNCHANGED <<stack, recov>>

StartQuote ==
  /\ Starts("quote") /\ stack = "ACTIVE"
  /\ Reconcile(FALSE, <<Step("decide", None, "BUY")>>)
  /\ UNCHANGED <<venue, asked, om>>

StartRequote ==
  /\ Starts("requote") /\ stack = "ACTIVE"
  /\ Reconcile(TRUE, <<Step("fresh", None, "BUY")>>)
  /\ UNCHANGED <<venue, asked, om>>

StartRepeg ==
  /\ Starts("repeg")
  /\ desk' = Popped
  /\ work' = <<Step("place", None, Head(desk.queue).side)>>
  /\ UNCHANGED <<venue, asked, om, stack, recov>>

StartCancels ==
  /\ Starts("cancel")
  /\ desk' = Popped
  /\ work' = [i \in 1 .. Cardinality(Head(desk.queue).ords) |->
                Step("cancel", SetToSeq(Head(desk.queue).ords)[i], "BUY")]
  /\ UNCHANGED <<venue, asked, om, stack, recov>>

At(kind) == work # <<>> /\ Head(work).step = kind
\* The scan runs first. A price that moved cancels the whole pair and ends the job.
Decide ==
  /\ At("decide")
  /\ \A o \in Orders : ~ NeedsScan(desk, o)
  /\ \/ /\ AdoptedOn(desk, Sides) # {}
        /\ desk' = EnqueueCancel(EachLeg(desk, Sides, Adopted, LAMBDA l : AskCancel(l, "TheoMove")),
                                 AdoptedOn(desk, Sides))
        /\ work' = Tail(work)
     \/ /\ work' = <<Step("cycle", None, "BUY")>>
        /\ UNCHANGED desk
  /\ UNCHANGED <<venue, asked, om, stack, recov>>

\* The outcomes of a cancel at the gateway of the side's top of book.
CancelTop(s, reset) ==
  LET o == desk.top[s]
      Outcome(a) ==
        LET r == GatewayCancel(desk, o, a[2])
        IN [venue |-> [venue EXCEPT ![o] = a[1]],
            asked |-> IF a[1] = "live" THEN asked \cup {o} ELSE asked \ {o},
            desk  |-> IF reset \/ r.ok THEN [r.desk EXCEPT !.top[s] = None] ELSE r.desk,
            ok    |-> r.ok]
  IN IF o = None THEN {[venue |-> venue, asked |-> asked, desk |-> desk, ok |-> TRUE]}
     ELSE {Outcome(a) : a \in CancelAnswers(o)}
AtVenue(r) == venue' = r.venue /\ asked' = r.asked

Larger(m, n) == IF Mag(m) > Mag(n) THEN m ELSE n

\* mmReconcileVenueOrAbort: the larger of the two positions is taken over and the
\* cycle ends; the portfolio cache the venue's one is read from may be stale.
Mismatch(n) ==
  /\ n # desk.net
  /\ IF Mag(n) > Mag(desk.net)
     THEN \E r \in CancelTop(Grow(n), FALSE) :
            AtVenue(r) /\ desk' = [r.desk EXCEPT !.net = Larger(n, desk.net)]
     ELSE desk' = [desk EXCEPT !.net = Larger(n, desk.net)] /\ UNCHANGED <<venue, asked>>
  /\ work' = Tail(work)

\* The sides not wanted are pulled, at the cap the reducing side is cleaned, and
\* then the sides that pass the placing checks are replaced, the bid first.
Plan(W) ==
  LET All(step, S) == [i \in DOMAIN BidFirst(S) |-> Step(step, None, BidFirst(S)[i])]
  IN All("drop", Sides \ Wanted(desk.net))
     \o (IF AtCap(desk.net) THEN All("clean", {Opp(Grow(desk.net))}) ELSE <<>>)
     \o All("replace", W)

Cycle ==
  /\ At("cycle")
  /\ \/ stack # "ACTIVE" /\ work' = <<>> /\ UNCHANGED <<venue, asked, desk>>
     \/ stack = "ACTIVE" /\ Mismatch(VenueNet)
     \/ /\ stack = "ACTIVE"
        /\ \E W \in SUBSET Wanted(desk.net) : work' = Plan(W)
        /\ UNCHANGED <<venue, asked, desk>>
  /\ UNCHANGED <<om, stack, recov>>

Drop ==
  /\ At("drop")
  /\ \E r \in CancelTop(Head(work).side, TRUE) : AtVenue(r) /\ desk' = r.desk
  /\ work' = Tail(work)
  /\ UNCHANGED <<om, stack, recov>>

\* mmEnsureAtCapReduceSideVenueClean: more than one row left on the side is swept,
\* and if that fails nothing is placed.
Rows(s, v) == Cardinality({o \in Orders : Side(o) = s /\ v[o] = "live"})
Clean ==
  /\ At("clean")
  /\ LET s == Head(work).side
     IN /\ \E r \in CancelTop(s, TRUE) : AtVenue(r) /\ desk' = r.desk
        /\ work' = IF Rows(s, venue') > 1
                   THEN <<Step("scrub", None, s)>> \o Tail(work) ELSE Tail(work)
  /\ UNCHANGED <<om, stack, recov>>

Scrub ==
  /\ At("scrub")
  /\ \E swept \in Sweeps(desk, desk.net) :
       /\ Sweep(swept)
       /\ desk' = DropLegs(desk, swept)
  /\ work' = IF Rows(Head(work).side, venue') > 1 THEN <<>> ELSE Tail(work)
  /\ UNCHANGED <<om, stack, recov>>

\* Cancel, then place: nothing is placed when the cancel's answer was lost.
Replace ==
  /\ At("replace")
  /\ LET s == Head(work).side
     IN \E r \in CancelTop(s, FALSE) :
          /\ AtVenue(r) /\ desk' = r.desk
          /\ work' = IF r.ok THEN <<Step("wanted", None, s)>> \o Tail(work) ELSE Tail(work)
  /\ UNCHANGED <<om, stack, recov>>

\* the position may have moved since the plan
StillWanted ==
  /\ At("wanted")
  /\ LET s == Head(work).side
     IN work' = IF s \in Wanted(desk.net) THEN <<Step("place", None, s)>> \o Tail(work) ELSE Tail(work)
  /\ UNCHANGED <<venue, asked, om, desk, stack, recov>>
-----------------------------------------------------------------------------
(* Placing. A side's next order is the first one it has not sent.            *)
Unsent(s) == {o \in Orders : Side(o) = s /\ venue[o] = "unsent"}
NextOrder(s) == CHOOSE o \in Unsent(s) : \A p \in Unsent(s) : o[2] <= p[2]
\* mmSubmitOrderWithProductCapGate
GateOpen(s) == s \in Wanted(desk.net) /\ Unsent(s) # {}

\* mmReservePendingPlace: the first cancelled leg, or another one without an order,
\* is taken over as it stands; only when there is none a leg is added.
Reserve(d, s, o) ==
  LET free == {i \in DOMAIN d.legs[s] : d.legs[s][i].st = "CANCELLED"}
      slot == CHOOSE i \in free : \A j \in free : i <= j
      legs == IF free = {} THEN Append(d.legs[s], Leg(None, "PLACE_PENDING")) ELSE d.legs[s]
      at   == IF free = {} THEN Len(legs) ELSE slot
  IN [d EXCEPT !.pend = @ + 1,
               !.legs[s] = [legs EXCEPT ![at] =
                  [@ EXCEPT !.st = "PLACE_PENDING", !.cid = o, !.ord = None, !.age = 0]]]

Awaits(l, o) == l.st = "PLACE_PENDING" /\ l.cid = o
Unpend(d) == [d EXCEPT !.pend = IF @ > 0 THEN @ - 1 ELSE 0]
Settled(l) == [l EXCEPT !.st = "CANCELLED", !.cid = None]

\* The order goes to the venue, which takes or rejects it; the answer comes later.
SendOrder(o) ==
  \E v \in {"live"} \cup (IF "reject" \in Faults THEN {"refused"} ELSE {}) :
    venue' = [venue EXCEPT ![o] = v]

Place ==
  /\ At("place")
  /\ LET s == Head(work).side
         o == NextOrder(s)
     IN IF GateOpen(s)
        THEN /\ SendOrder(o)
             /\ desk' = Reserve(desk, s, o)
             /\ work' = <<Step("answer", o, s)>> \o Tail(work)
        ELSE /\ desk' = Unpend(EachLeg(Reserve(desk, s, None), {s},
                                      LAMBDA l : l.st = "PLACE_PENDING" /\ l.cid = None, Settled))
             /\ work' = Tail(work) /\ UNCHANGED venue
  /\ UNCHANGED <<asked, om, stack, recov>>

\* on_accept: the leg that awaits the order adopts it, or cancels it at once when
\* its flag says so; without such a leg the order becomes the side's only leg.
OnAccept(d, o) ==
  LET s == Side(o)
      Mine(l) == Awaits(l, o)
      due == SomeLeg(d, LAMBDA l : Mine(l) /\ l.due)
      Take(l) == IF l.due THEN [AskCancel(l, "FillOpposite") EXCEPT !.ord = o, !.cid = None, !.due = FALSE]
                 ELSE [l EXCEPT !.ord = o, !.cid = None, !.st = "ADOPTED", !.age = 0]
      d1 == IF SomeLeg(d, Mine) THEN EachLeg(d, {s}, Mine, Take)
            ELSE [d EXCEPT !.legs[s] = <<Leg(o, "ADOPTED")>>]
  IN Refresh(Unpend(IF due THEN EnqueueCancel(d1, {o}) ELSE d1))

\* Fault: a rejected order stays in the count of pending accepts.
OnRejectKeepsPending(d, o, margin) ==
  EachLeg(d, {Side(o)}, LAMBDA l : Awaits(l, o), Settled)

\* on_reject: the leg is free again; a margin reject pulls the other side's order.
OnReject(d, o, margin) ==
  LET q == d.top[Opp(Side(o))]
      d1 == Unpend(EachLeg(d, {Side(o)}, LAMBDA l : Awaits(l, o), Settled))
  IN IF margin /\ q # None THEN EnqueueCancel(d1, {q}) ELSE d1

\* whichever handler the answer calls for
Answered(o, accepted) ==
  /\ om' = [om EXCEPT ![o] = IF accepted THEN "active" ELSE "final"]
  /\ IF accepted THEN desk' = OnAccept(desk, o)
     ELSE \E margin \in BOOLEAN : desk' = OnReject(desk, o, margin)

Answer ==
  /\ At("answer")
  /\ LET o == Head(work).ord IN Answered(o, venue[o] # "refused")
  /\ work' = Tail(work)
  /\ UNCHANGED <<venue, asked, stack, recov>>
-----------------------------------------------------------------------------
(* The re-quote after a fill.                                                *)
FillLayout(d) ==
  \E s \in Sides :
    /\ \E i \in DOMAIN d.legs[s] : d.legs[s][i].st = "FILLED"
    /\ \E i \in DOMAIN d.legs[Opp(s)] : d.legs[Opp(s)][i].st \in {"CANCELLED", "CANCEL_PENDING"}

\* Without a filled leg and a settling one on the other side it goes on only at
\* the cap, where the reducing side is cleaned first.
Fresh ==
  /\ At("fresh")
  /\ \/ /\ ~ FillLayout(desk) /\ ~ AtCap(desk.net)
        /\ work' = <<>> /\ UNCHANGED <<venue, asked, desk>>
     \/ Mismatch(VenueNet)
     \/ /\ FillLayout(desk) \/ AtCap(desk.net)
        /\ work' = (IF AtCap(desk.net) THEN <<Step("clean", None, Opp(Grow(desk.net)))>> ELSE <<>>)
                    \o <<Step("forget", None, "BUY")>>
        /\ UNCHANGED <<venue, asked, desk>>
  /\ UNCHANGED <<om, stack, recov>>

\* Both vectors are cleared and the accepts of the new pair reserved in advance.
Forget ==
  /\ At("forget")
  /\ LET two == BidFirst(Wanted(desk.net))
     IN /\ desk' = [desk EXCEPT !.legs = [s \in Sides |-> <<>>], !.pend = @ + Len(two)]
        /\ work' = [i \in DOMAIN two |-> Step("submit", None, two[i])]
  /\ UNCHANGED <<venue, asked, om, stack, recov>>

Submit ==
  /\ At("submit")
  /\ LET s == Head(work).side
         o == NextOrder(s)
     IN IF GateOpen(s)
        THEN /\ SendOrder(o)
             /\ work' = <<Step("accept", o, s), Step("track", o, s)>> \o Tail(work)
             /\ UNCHANGED desk
        ELSE /\ desk' = Unpend(desk)
             /\ work' = Tail(work) /\ UNCHANGED venue
  /\ UNCHANGED <<asked, om, stack, recov>>

Accept ==
  /\ At("accept")
  /\ LET o == Head(work).ord IN Answered(o, venue[o] # "refused")
  /\ work' = Tail(work)
  /\ UNCHANGED <<venue, asked, stack, recov>>

\* track_place_pending_if_needed: a leg that awaits the order's answer is added
\* unless the side has an adopted one; the answer may have come already.
Track(d, o) ==
  IF AdoptedOn(d, {Side(o)}) # {} THEN d
  ELSE [d EXCEPT !.legs[Side(o)] = Append(@, [Leg(None, "PLACE_PENDING") EXCEPT !.cid = o])]

TrackPlace ==
  /\ At("track")
  /\ desk' = (IF Len(work) = 1 THEN Refresh(Track(desk, Head(work).ord)) ELSE Track(desk, Head(work).ord))
  /\ work' = Tail(work)
  /\ UNCHANGED <<venue, asked, om, stack, recov>>
\* A cancel the mover sends: an order that is final already is left alone, and a
\* refusal is taken as the acknowledgement.
SendCancel ==
  /\ At("cancel")
  /\ LET o == Head(work).ord
     IN IF om[o] # "active" \/ stack # "ACTIVE"
        THEN UNCHANGED <<venue, asked, om, desk>>
        ELSE \E a \in CancelAnswers(o) :
               /\ venue' = [venue EXCEPT ![o] = a[1]]
               /\ asked' = IF a[1] = "live" THEN asked \cup {o} ELSE asked \ {o}
               /\ IF a[2] \in {"ok", "benign"}
                  THEN om' = [om EXCEPT ![o] = "final"] /\ desk' = OnCancel(desk, o)
                  ELSE UNCHANGED <<om, desk>>
  /\ work' = Tail(work)
  /\ UNCHANGED <<stack, recov>>
-----------------------------------------------------------------------------
\* A quoted pair with nothing queued.
Init ==
  /\ venue = [o \in Orders |-> IF o[2] = 1 THEN "live" ELSE "unsent"]
  /\ asked = {}
  /\ om = [o \in Orders |-> IF o[2] = 1 THEN "active" ELSE "none"]
  /\ desk = [legs |-> [s \in Sides |-> <<Leg(<<s, 1>>, "ADOPTED")>>],
             top  |-> [s \in Sides |-> <<s, 1>>],
             net  |-> 0, pend |-> 0, queue |-> <<>>]
  /\ work = <<>>
  /\ stack = "ACTIVE"
  /\ recov = 0

Scan    == \E o \in Orders : AckTimeout(o)
Deliver == \E o \in Orders : ApplyFill(o)
Missing == \E o \in Orders : VenueTruthMissing(o)
Start   == DropJob \/ StartQuote \/ StartRequote \/ StartRepeg \/ StartCancels
QuoteStep  == Decide \/ Cycle \/ Drop \/ Clean \/ Scrub \/ Replace \/ StillWanted
PlaceStep  == Place \/ Answer \/ SendCancel
RequoteStep == Fresh \/ Forget \/ Submit \/ Accept \/ TrackPlace
Worker  == Start \/ QuoteStep \/ PlaceStep \/ RequoteStep

Next ==
  \/ FeedTick
  \/ Tick
  \/ Scan
  \/ \E o \in Orders : VenueFill(o)
  \/ \E o \in Orders : VenueDrop(o)
  \/ Deliver
  \/ Missing
  \/ Worker

Spec == Init /\ [][Next]_vars
-----------------------------------------------------------------------------
\* mm_pending_accepts counts the submissions that wait for their answer, and every
\* fault and every order of answers, fills and cancels leaves it exact: a count
\* left over pins the in-flight gate and the stack never quotes again.
PendingAcceptsExact ==
  desk.pend = Cardinality({i \in DOMAIN work : work[i].step \in {"answer", "accept", "submit"}})

CancelWaits(o) ==
  \/ \E i \in DOMAIN desk.queue : desk.queue[i].kind = "cancel" /\ o \in desk.queue[i].ords
  \/ \E i \in DOMAIN work : work[i].step = "cancel" /\ work[i].ord = o

\* While the stack is active, a leg marked as being cancelled whose order still rests
\* has a cancel on its way: queued, about to be sent, or sent (its answer may be lost).
\* Marking the legs and queueing the requests are separate steps of five handlers. (Of
\* a stack that stays orphaned the worker drops the cancels, while its repeg jobs still
\* place: there it does not hold.)
PulledIsCancelled ==
  stack = "ACTIVE" => \A o \in Live :
    HasOrd(desk, o) /\ LegOf(desk, o).st = "CANCEL_PENDING" => o \in asked \/ CancelWaits(o)

\* "no replacement order can ever go out while a stale leg is still live at the
\* venue" (the comment in on_cancel): a side never has two live orders of which
\* nobody asked to cancel either. VIOLATED: see the run pair_double_quote.
OneQuotePerSide ==
  \A s \in Sides : Cardinality({o \in Live : Side(o) = s /\ o \notin asked}) <= 1

\* A leg that waits for an answer has one coming ("pinning isPairCycleInFlight()
\* true forever ... Fix: reserve the leg before submit"). VIOLATED on the path
\* that re-quotes after a fill: see the run pair_dead_leg.
PendingIsAwaited ==
  \A s \in Sides : \A i \in DOMAIN desk.legs[s] :
    desk.legs[s][i].st = "PLACE_PENDING" =>
      \E j \in DOMAIN work : work[j].step \in {"answer", "accept"} /\ work[j].ord = desk.legs[s][i].cid
=============================================================================

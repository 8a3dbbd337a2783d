---------------------------- MODULE OrderGateway ----------------------------
(***************************************************************************)
(* The local order table (src/orders/OrderManager.cpp) and the book of the  *)
(* venue, which is only reached by requests that may be lost, late or       *)
(* answered with an error:                                                  *)
(*   - a strategy thread submits: the order is stored as PENDING, and the   *)
(*     ORDER_SUBMITTED handler of Platform.cpp posts it and stores the      *)
(*     answer before the submit returns;                                    *)
(*   - a strategy thread cancels, either at the venue first and then in the *)
(*     table (mmSendRestCancelByOrderId) or in the table only; in both      *)
(*     cases the ORDER_CANCELLED handler sends a cancel of its own;         *)
(*   - the main loop applies the fills it has polled, and reconciles the    *)
(*     table with GET /open-orders in both directions                       *)
(*     (reconcileLocalOrdersAgainstGatewayOpenOrders).                      *)
(*                                                                          *)
(* A fill is one contract and is polled once (FillPipeline: AppliedOnce).   *)
(* Left out: orders the desk places itself and the table adopts, modify,    *)
(* purge and detach, several symbols.                                       *)
(***************************************************************************)
EXTENDS Integers, FiniteSets

CONSTANTS
  Orders,        \* the orders that may be submitted
  Threads,       \* the threads that submit and cancel
  Qty,           \* the size of every order
  ListingLags,   \* /open-orders need not show an order before it is aged
  ClockAhead     \* the venue's clock may be ahead of this host's

ASSUME OrderGatewayAssumption ==
  /\ IsFiniteSet(Orders)
  /\ Qty \in Nat \ {0}
  /\ ListingLags \in BOOLEAN /\ ClockAhead \in BOOLEAN

VARIABLES
  status,    \* Order::status, "none" before the order is stored
  oid,       \* exchange_order_id: "none", "right", or a made-up one ("wrong")
  filled,    \* filled_quantity
  booked,    \* what the portfolio and the hedge provider were told, summed up
  partials,  \* queued ORDER_PARTIALLY_FILLED events: order and quantity
  active,    \* stats_.active_orders
  missed,    \* fills read while no order had their exchange id
  venue,     \* the order at the venue: "none", "open" or "done"
  vfill,     \* what the venue has executed of it
  aged,      \* the open orders older than gateway_orphan_grace_ms
  places,    \* the orders whose place request may still reach the venue
  cancels,   \* the orders for which a cancel request may still reach the venue
  call,      \* what each thread is waiting for, and for which order
  recon,     \* the reconcile pass of the main loop; young (ghost): the open orders
             \* that were not aged when the listing was answered
  confirmed, \* orders whose cancel was answered with success (ghost)
  revived    \* orders filled after they were CANCELLED (ghost)

told     == <<booked, partials>>
table    == <<status, oid, filled, active, missed, told>>
book     == <<venue, vfill, aged>>
network  == <<places, cancels>>
ghosts   == <<confirmed, revived>>
vars     == <<table, book, network, call, recon, ghosts>>

NoCall   == [phase |-> "idle", order |-> "none"]
NoRecon  == [phase |-> "idle", candidates |-> {}, rows |-> {}, young |-> {}]

IsActive(o) == status[o] \in {"accepted", "partial"}
Counted     == {o \in Orders : status[o] = "pending" \/ IsActive(o)}
Placing(o)  == \E t \in Threads : call[t] = [phase |-> "place", order |-> o]

Init ==
  /\ status = [o \in Orders |-> "none"]
  /\ oid = [o \in Orders |-> "none"]
  /\ filled = [o \in Orders |-> 0]
  /\ booked = [o \in Orders |-> 0] /\ partials = {}
  /\ active = 0
  /\ missed = [o \in Orders |-> 0]
  /\ venue = [o \in Orders |-> "none"]
  /\ vfill = [o \in Orders |-> 0]
  /\ aged = {}
  /\ places = {} /\ cancels = {}
  /\ call = [t \in Threads |-> NoCall]
  /\ recon = NoRecon
  /\ confirmed = {} /\ revived = {}

Idle(t)             == call[t] = NoCall
Waits(t, phase, o)  == call[t] = [phase |-> phase, order |-> o]
WaitFor(t, phase, o) == call' = [call EXCEPT ![t] = [phase |-> phase, order |-> o]]
Return(t)           == call' = [call EXCEPT ![t] = NoCall]
-----------------------------------------------------------------------------
(* What the order table does.                                                *)

(* Fault: the counter is taken down without looking whether it is zero.      *)
OneLessUnclamped(n) == n - 1

OneLess(n) == IF n > 0 THEN n - 1 ELSE n

(* Fault: a rejected order stays in the count.                               *)
RejectedStillCounted(o) ==
  /\ status' = [status EXCEPT ![o] = "rejected"]
  /\ UNCHANGED <<oid, filled, told, active, missed>>

OnOrderRejected(o) ==
  /\ status' = [status EXCEPT ![o] = "rejected"]
  /\ active' = OneLess(active)
  /\ UNCHANGED <<oid, filled, told, missed>>

OnOrderAccepted(o, id) ==
  /\ status' = [status EXCEPT ![o] = "accepted"]
  /\ oid' = [oid EXCEPT ![o] = id]
  /\ UNCHANGED <<filled, told, active, missed>>

(* Fault: an order that is no longer active is cancelled too.                *)
CancelledAnyway(o) ==
  /\ status' = [status EXCEPT ![o] = "cancelled"]
  /\ active' = OneLess(active)
  /\ UNCHANGED <<oid, filled, told, missed>>

(* cancelOrder and onOrderCancelled: nothing, unless the order is active.    *)
Cancelled(o) ==
  IF IsActive(o)
    THEN /\ status' = [status EXCEPT ![o] = "cancelled"]
         /\ active' = OneLess(active)
         /\ UNCHANGED <<oid, filled, told, missed>>
    ELSE UNCHANGED table

(* processFillEvent of Platform.cpp: the portfolio, the hedge provider and   *)
(* the hedge webhook are told the quantity of the event.                     *)
Book(o, quantity) == booked' = [booked EXCEPT ![o] = @ + quantity]

(* ORDER_FILLED is handled before publishOrderEvent returns, a partial fill   *)
(* is queued for the event workers. Either carries the order's whole         *)
(* filled_quantity.                                                          *)
PublishFill(o, total) ==
  IF total >= Qty
    THEN Book(o, total) /\ UNCHANGED partials
    ELSE partials' = partials \cup {<<o, total>>} /\ UNCHANGED booked

(* Fault: fills of an order that is no longer active are ignored.            *)
FilledIfActive(o) ==
  IF IsActive(o)
    THEN /\ filled' = [filled EXCEPT ![o] = @ + 1]
         /\ status' = [status EXCEPT ![o] = IF filled[o] + 1 >= Qty THEN "filled" ELSE "partial"]
         /\ active' = IF filled[o] + 1 >= Qty THEN OneLess(active) ELSE active
         /\ PublishFill(o, filled[o] + 1)
         /\ UNCHANGED <<oid, missed>>
    ELSE UNCHANGED table

(* onOrderFilled for one contract.                                           *)
OnOrderFilled(o) ==
  LET total == filled[o] + 1
      full  == total >= Qty
  IN /\ filled' = [filled EXCEPT ![o] = total]
     /\ status' = [status EXCEPT ![o] = IF full THEN "filled" ELSE "partial"]
     /\ active' = IF full /\ IsActive(o) THEN OneLess(active) ELSE active
     /\ PublishFill(o, total)
     /\ UNCHANGED <<oid, missed>>
-----------------------------------------------------------------------------
(* Submitting.                                                               *)

(* submitOrder up to the POST. Not a LIMIT order, or no price: the handler   *)
(* returns and the order stays PENDING. Less than the venue's minimum:       *)
(* rejected at once.                                                         *)
Submit(t, o) ==
  /\ Idle(t) /\ status[o] = "none"
  /\ active' = active + 1
  /\ status' = [status EXCEPT ![o] = "pending"]
  /\ \/ WaitFor(t, "place", o) /\ places' = places \cup {o}
     \/ UNCHANGED <<call, places>>
  /\ UNCHANGED <<oid, filled, told, missed, book, cancels, recon, ghosts>>

SubmitTooSmall(t, o) ==
  /\ Idle(t) /\ status[o] = "none"
  /\ status' = [status EXCEPT ![o] = "rejected"]
  /\ UNCHANGED <<oid, filled, told, active, missed>>
  /\ UNCHANGED <<book, network, call, recon, ghosts>>

(* A 2xx answer. If its body cannot be read, the local id is stored as the   *)
(* exchange id.                                                              *)
PlaceAccepted(t, o) ==
  /\ Waits(t, "place", o) /\ venue[o] # "none"
  /\ \E id \in {"right", "wrong"} : OnOrderAccepted(o, id)
  /\ Return(t)
  /\ UNCHANGED <<book, network, recon, ghosts>>

(* An error answer, or none within order_op_timeout_ (4 s).                  *)
PlaceFailed(t, o) ==
  /\ Waits(t, "place", o)
  /\ OnOrderRejected(o)
  /\ Return(t)
  /\ UNCHANGED <<book, network, recon, ghosts>>
-----------------------------------------------------------------------------
(* Cancelling.                                                               *)

(* A cancel of an exchange id the venue does not know changes nothing.       *)
SendCancel(o) == cancels' = IF oid[o] = "wrong" THEN cancels ELSE cancels \cup {o}

(* mmSendRestCancelByOrderId: POST first, DELETE when that fails.            *)
CancelAtVenue(t, o) ==
  /\ Idle(t) /\ IsActive(o) /\ oid[o] # "none"
  /\ SendCancel(o)
  /\ WaitFor(t, "post", o)
  /\ UNCHANGED <<table, book, places, recon, ghosts>>

CancelAgain(t, o) ==
  /\ Waits(t, "post", o)
  /\ SendCancel(o)
  /\ WaitFor(t, "delete", o)
  /\ UNCHANGED <<table, book, places, recon, ghosts>>

(* Both failed: the order is left as it is.                                  *)
CancelFailed(t, o) ==
  /\ Waits(t, "delete", o)
  /\ Return(t)
  /\ UNCHANGED <<table, book, network, recon, ghosts>>

(* om.cancelOrder, whose event makes Platform send a cancel (another one, if *)
(* this is the end of CancelAtVenue) and wait for its answer.                *)
CancelLocally(t, o) ==
  /\ Cancelled(o)
  /\ IF IsActive(o) THEN SendCancel(o) /\ WaitFor(t, "echo", o)
                    ELSE UNCHANGED cancels /\ Return(t)

(* Success, which the venue answers once the order is gone ...               *)
CancelConfirmed(t, o) ==
  /\ Waits(t, "post", o) \/ Waits(t, "delete", o)
  /\ venue[o] = "done" /\ oid[o] = "right" /\ o \notin cancels
  /\ confirmed' = confirmed \cup {o}
  /\ CancelLocally(t, o)
  /\ UNCHANGED <<book, places, recon, revived>>

(* ... or a "benign" refusal (404, "not found", "cannot be canceled") to the *)
(* DELETE, which has been seen for live orders too.                          *)
CancelBenign(t, o) ==
  /\ Waits(t, "delete", o)
  /\ CancelLocally(t, o)
  /\ UNCHANGED <<book, places, recon, ghosts>>

(* BaseStrategy::cancel_order: in the table only.                            *)
CancelDirect(t, o) ==
  /\ Idle(t) /\ IsActive(o)
  /\ CancelLocally(t, o)
  /\ UNCHANGED <<book, places, recon, ghosts>>

(* Whatever the answer of Platform's own cancel is, it is only logged.       *)
EchoAnswered(t, o) ==
  /\ Waits(t, "echo", o)
  /\ Return(t)
  /\ UNCHANGED <<table, book, network, recon, ghosts>>
-----------------------------------------------------------------------------
(* The venue and the network.                                                *)

VenueTake(o) ==
  /\ o \in places
  /\ places' = places \ {o}
  /\ venue' = [venue EXCEPT ![o] = "open"]
  /\ UNCHANGED <<table, vfill, aged, cancels, call, recon, ghosts>>

VenueCancel(o) ==
  /\ o \in cancels
  /\ cancels' = cancels \ {o}
  /\ venue' = [venue EXCEPT ![o] = IF @ = "open" THEN "done" ELSE @]
  /\ aged' = aged \ {o}
  /\ UNCHANGED <<table, vfill, places, call, recon, ghosts>>

(* Lost on the way, or refused.                                              *)
Lose(o) ==
  /\ o \in places \cup cancels
  /\ \/ places' = places \ {o} /\ UNCHANGED cancels
     \/ cancels' = cancels \ {o} /\ UNCHANGED places
  /\ UNCHANGED <<table, book, call, recon, ghosts>>

Execute(o) ==
  /\ venue[o] = "open"
  /\ vfill' = [vfill EXCEPT ![o] = @ + 1]
  /\ venue' = [venue EXCEPT ![o] = IF vfill[o] + 1 = Qty THEN "done" ELSE "open"]
  /\ aged' = IF vfill[o] + 1 = Qty THEN aged \ {o} ELSE aged
  /\ UNCHANGED <<table, network, call, recon, ghosts>>

(* The grace of 10 s runs from the acceptance by the venue, after the send;  *)
(* the place call ends within 4 s of the send.                               *)
Age(o) ==
  /\ venue[o] = "open" /\ o \notin aged /\ ~Placing(o)
  /\ aged' = aged \cup {o}
  /\ UNCHANGED <<table, venue, vfill, network, call, recon, ghosts>>
-----------------------------------------------------------------------------
(* The main loop: fills.                                                     *)

Unread(o) == vfill[o] - filled[o] - missed[o]

(* A fill whose exchange id no order has is an orphan: its trade_id has been *)
(* remembered, so it does not come again.                                    *)
ReadFill(o) ==
  /\ recon.phase = "idle"
  /\ Unread(o) > 0
  /\ IF oid[o] = "right"
       THEN /\ OnOrderFilled(o)
            /\ revived' = IF status[o] = "cancelled" THEN revived \cup {o} ELSE revived
       ELSE /\ missed' = [missed EXCEPT ![o] = @ + 1]
            /\ UNCHANGED <<status, oid, filled, told, active, revived>>
  /\ UNCHANGED <<book, network, call, recon, confirmed>>

(* An event worker takes a partial fill off the queue.                       *)
HandlePartial(o, quantity) ==
  /\ <<o, quantity>> \in partials
  /\ partials' = partials \ {<<o, quantity>>}
  /\ Book(o, quantity)
  /\ UNCHANGED <<status, oid, filled, active, missed, book, network, call, recon, ghosts>>
-----------------------------------------------------------------------------
(* The main loop: reconcile. Collect the active orders, get the open orders, *)
(* cancel locally what the venue does not show, cancel at the venue what the *)
(* table does not know.                                                      *)

(* Fault: an order that has filled at all is left to the fill poll.          *)
CandidateIfUnfilled(o) == IsActive(o) /\ oid[o] # "none" /\ filled[o] = 0

Candidate(o) == IsActive(o) /\ oid[o] # "none" /\ filled[o] < Qty

ReconCollect ==
  /\ recon.phase = "idle"
  /\ recon' = [NoRecon EXCEPT !.phase = "asked",
                              !.candidates = {o \in Orders : Candidate(o)}]
  /\ UNCHANGED <<table, book, network, call, ghosts>>

(* What /open-orders may answer. An order that was just placed "may not have  *)
(* propagated into /open-orders yet" (MakeMarketStrategy.cpp 9856-9862).     *)
Open == {o \in Orders : venue[o] = "open"}
Listings == {R \in SUBSET Open : R = Open \/ (ListingLags /\ aged \subseteq R)}

ReconList ==
  /\ recon.phase = "asked"
  /\ \E R \in Listings :
       recon' = [recon EXCEPT !.phase = "listed", !.rows = R, !.young = Open \ aged]
  /\ UNCHANGED <<table, book, network, call, ghosts>>

(* An HTTP error, or a body that is not JSON.                                *)
ReconSkip ==
  /\ recon.phase = "asked"
  /\ recon' = NoRecon
  /\ UNCHANGED <<table, book, network, call, ghosts>>

(* Fault: what is active now is compared with the listing, not what was      *)
(* active before it was asked for.                                           *)
ActiveNow == {o \in Orders : Candidate(o)}

ToCompare == recon.candidates

Shown(o) == o \in recon.rows /\ oid[o] = "right"

(* Direction A.                                                              *)
ReconSync(o) ==
  /\ recon.phase = "listed"
  /\ o \in ToCompare /\ ~Shown(o)
  /\ Cancelled(o)
  /\ recon' = [recon EXCEPT !.candidates = @ \ {o}]
  /\ UNCHANGED <<book, network, call, ghosts>>

(* All compared: on to the orphans, or not, if orders.json cannot be loaded. *)
ReconTurn ==
  /\ recon.phase = "listed"
  /\ \A o \in ToCompare : Shown(o)
  /\ recon' \in {NoRecon, [recon EXCEPT !.phase = "orphans", !.candidates = {}, !.young = {}]}
  /\ UNCHANGED <<table, book, network, call, ghosts>>

(* Fault: an order the table knows by any id is not an orphan.               *)
KnownByClientId(o) == status[o] # "none"

(* getOrderByExchangeId finds it.                                            *)
Known(o) == oid[o] = "right"

(* Fault: no grace window.                                                   *)
NeverYoung(o) == FALSE

Young(o) == o \notin aged

(* Direction B. The grace is for ages from zero on: an order whose time of    *)
(* creation lies in the future of this host's clock does not have it.        *)
ReconOrphan(o) ==
  /\ recon.phase = "orphans"
  /\ o \in recon.rows
  /\ recon' = [recon EXCEPT !.rows = @ \ {o}]
  /\ \/ (Known(o) \/ Young(o)) /\ UNCHANGED cancels
     \/ ~Known(o) /\ (ClockAhead \/ ~Young(o)) /\ cancels' = cancels \cup {o}
  /\ UNCHANGED <<table, book, places, call, ghosts>>

ReconDone ==
  /\ recon.phase = "orphans" /\ recon.rows = {}
  /\ recon' = NoRecon
  /\ UNCHANGED <<table, book, network, call, ghosts>>
-----------------------------------------------------------------------------
Strategy(t, o) ==
  \/ Submit(t, o) \/ SubmitTooSmall(t, o) \/ PlaceAccepted(t, o) \/ PlaceFailed(t, o)
  \/ CancelAtVenue(t, o) \/ CancelAgain(t, o) \/ CancelFailed(t, o)
  \/ CancelConfirmed(t, o) \/ CancelBenign(t, o) \/ CancelDirect(t, o) \/ EchoAnswered(t, o)

Venue(o) == VenueTake(o) \/ VenueCancel(o) \/ Lose(o) \/ Execute(o) \/ Age(o)

MainLoop ==
  \/ \E o \in Orders : ReadFill(o) \/ ReconSync(o) \/ ReconOrphan(o)
  \/ ReconCollect \/ ReconList \/ ReconSkip \/ ReconTurn \/ ReconDone

EventWorker == \E event \in partials : HandlePartial(event[1], event[2])

Next ==
  \/ \E t \in Threads, o \in Orders : Strategy(t, o)
  \/ \E o \in Orders : Venue(o)
  \/ EventWorker
  \/ MainLoop

Spec == Init /\ [][Next]_vars

(* The main loop runs; a place call ends (it has a timeout); orders grow old; *)
(* /open-orders and orders.json are not unavailable for ever, and a cancel    *)
(* that is sent again and again gets through.                                *)
FairSpec ==
  /\ Spec
  /\ WF_vars(ReconCollect) /\ SF_vars(ReconList) /\ SF_vars(ReconTurn /\ recon'.phase = "orphans")
  /\ WF_vars(ReconDone)
  /\ \A o \in Orders :
       /\ SF_vars(ReadFill(o)) /\ WF_vars(ReconSync(o)) /\ SF_vars(ReconOrphan(o))
       /\ WF_vars(Age(o)) /\ SF_vars(VenueCancel(o))
       /\ \A t \in Threads : WF_vars(PlaceAccepted(t, o) \/ PlaceFailed(t, o))
-----------------------------------------------------------------------------
Statuses == {"none", "pending", "accepted", "partial", "filled", "cancelled", "rejected"}

(* Every variable has its type; the count of active orders is not negative,  *)
(* although an order that a late fill made active again is cancelled twice.  *)
TypeOK ==
  /\ status \in [Orders -> Statuses]
  /\ oid \in [Orders -> {"none", "right", "wrong"}]
  /\ filled \in [Orders -> Nat]
  /\ booked \in [Orders -> Nat] /\ partials \in SUBSET (Orders \X Nat)
  /\ active \in Nat
  /\ missed \in [Orders -> Nat]
  /\ venue \in [Orders -> {"none", "open", "done"}]
  /\ vfill \in [Orders -> Nat]
  /\ aged \in SUBSET Orders
  /\ places \in SUBSET Orders /\ cancels \in SUBSET Orders
  /\ call \in [Threads -> [phase : {"place", "post", "delete", "echo"}, order : Orders]
                          \cup {NoCall}]
  /\ recon \in [phase : {"idle", "asked", "listed", "orphans"}, candidates : SUBSET Orders,
                rows : SUBSET Orders, young : SUBSET Orders]
  /\ confirmed \in SUBSET Orders /\ revived \in SUBSET Orders

(* stats_.active_orders is the number of orders that wait for the venue or   *)
(* rest there, whichever of the strategy threads, the fill poll and the      *)
(* reconcile pass ends an order, as long as no order was filled after its    *)
(* cancel.                                                                   *)
ActiveExact == revived = {} => active = Cardinality(Counted)

(* An order that is FILLED or REJECTED stays so, although cancels, fills,    *)
(* late answers and the reconcile pass work on it from several threads.      *)
TerminalSticky ==
  [][\A o \in Orders : status[o] \in {"filled", "rejected"} => status'[o] = status[o]]_vars

(* The reconcile pass marks an order CANCELLED only if it is not open at the *)
(* venue any more, or was too young for the listing when that was answered:  *)
(* the pass compares what was active before it asked, and has no grace of    *)
(* its own for what the listing does not show yet. The other exception is an *)
(* order whose exchange id was never learned.                                *)
SyncSound ==
  [][\A o \in Orders :
       ReconSync(o) /\ status'[o] # status[o] /\ oid[o] = "right" =>
         venue[o] # "open" \/ o \in recon.young]_vars

(* What the comment at the pass says of every order it compares: "For        *)
(* locally-active orders that the gateway says are gone, mark them CANCELLED *)
(* so OrderManager state matches reality" - it is gone from the venue.       *)
SyncMatchesReality ==
  [][\A o \in Orders :
       ReconSync(o) /\ status'[o] # status[o] /\ oid[o] = "right" => venue[o] # "open"]_vars

(* The reconcile pass never cancels as an orphan an order that is still being *)
(* placed, although the table does not know its exchange id yet ("race-free  *)
(* orphan-cancel").                                                          *)
OrphanSound ==
  [][\A o \in Orders : ReconOrphan(o) /\ cancels' # cancels => ~Placing(o)]_vars

(* An order that is active in the table and done at the venue is settled in  *)
(* the table in the end: by its fills, or by the reconcile pass when its     *)
(* fills were orphaned or its cancel was answered with an error.             *)
EventuallySettled == \A o \in Orders : (IsActive(o) /\ venue[o] = "done") ~> ~IsActive(o)

(* An order that rests at the venue while the table has given it up without  *)
(* knowing its exchange id (the place call timed out, or was answered with a *)
(* body that could not be read) is taken off the book in the end.            *)
StrayTakenOff ==
  \A o \in Orders :
    (venue[o] = "open" /\ oid[o] # "right" /\ ~Placing(o)) ~> venue[o] # "open"

(* A fill that races a cancel still reaches its order.                       *)
FillsReachOrder ==
  \A o \in Orders :
    (oid[o] = "right" /\ Unread(o) > 0) ~> filled[o] + missed[o] = vfill[o]

(* The portfolio and the hedge provider, which are told of a fill "on every   *)
(* Architect fill", are never told more contracts than were executed.        *)
FillsBookedOnce == \A o \in Orders : booked[o] <= filled[o]

(* The reconcile pass takes an order off the book that the table has          *)
(* cancelled while the venue still shows it (its orphan pass is there for a   *)
(* leg whose "cancel returned 404 "benign" but the order was actually still   *)
(* alive").                                                                  *)
CancelledLeavesVenue ==
  \A o \in Orders : (status[o] = "cancelled" /\ venue[o] = "open") ~> venue[o] # "open"
=============================================================================

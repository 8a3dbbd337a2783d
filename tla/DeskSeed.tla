------------------------------ MODULE DeskSeed -------------------------------
(* How a desk stack takes its legs from orders.json.  The file names, for each *)
(* side, the order the desk placed or the stack patched in last; a strategy    *)
(* that has no live leg adopts the orders named there, from the reading of the *)
(* file on the main loop, from the feed thread and from a quote cycle, and an  *)
(* operator's desk sync adopts them at any time (MakeMarketStrategy.cpp).      *)
(* The file is always behind the stack: it is written after the stack placed,  *)
(* and copied before the adoption takes the cycle mutex.                       *)
(*                                                                             *)
(* Abstracted: one stack, one contract per order; one order at most per side   *)
(* is placed or cancelled at a time (PairCycle has the details), and one cancel *)
(* is answered at a time: a stack's cancels run one after the other on its      *)
(* order worker.  Every row names an exchange id; the listing and the           *)
(* acknowledgement timers are left out, what comes of them is an order the      *)
(* stack gave up.                                                              *)
EXTENDS Integers, FiniteSets

CONSTANT MaxGen         \* bound: orders per side, the first one placed by the desk

VARIABLES at,           \* an order at the venue: none, way, rest, gone
          row,          \* its row in the OrderManager: none, live, done
          held,         \* the stack's leg for it: none, PLACE, ADOPTED, CANCEL
          tops,         \* bid_order_id_ and ask_order_id_, 0 for none
          named,        \* the orders named in orders.json
          manual,       \* optional_manual_stack_: the last copy of those names
          acked,        \* orders marked CANCELLED whose on_cancel has yet to note it
          inWindow,     \* orders whose cancel was noted a short while ago
          givenUp       \* orders that may rest and that the stack dropped

seedState == <<at, row, held, tops, named, manual, acked, inWindow, givenUp>>

BookSides == {"BUY", "SELL"}
Other(side) == CHOOSE t \in BookSides : t # side
SeedOrders  == BookSides \X (1 .. MaxGen)
NoNames  == [s \in BookSides |-> 0]

LegsOn(side, states) == {o \in SeedOrders : o[1] = side /\ held[o] \in states}
Tracked     == {o \in SeedOrders : held[o] # "none"}
Churn       == \E o \in SeedOrders : held[o] \in {"PLACE", "CANCEL"}
TopIsLive(side) == tops[side] # 0 /\ row[<<side, tops[side]>>] = "live"

\* The top of book is the first leg that has an exchange id.
TopsOf(h) ==
    [s \in BookSides |->
        LET legs == {g \in 1 .. MaxGen : h[<<s, g>>] \in {"ADOPTED", "CANCEL"}}
        IN IF legs = {} THEN 0 ELSE CHOOSE g \in legs : \A k \in legs : g <= k]
-----------------------------------------------------------------------------
(* The legs of the stack, in outline. *)

\* A cycle places on a side that has no leg; while it waits for the accept, no
\* other actor may start a pair.
PlaceOn(side) ==
    /\ LegsOn(side, {"PLACE", "ADOPTED", "CANCEL"}) = {}
    /\ \E g \in 1 .. MaxGen :
          LET o == <<side, g>> IN
          /\ at[o] = "none" /\ \A k \in 1 .. (g - 1) : at[<<side, k>>] # "none"
          /\ at' = [at EXCEPT ![o] = "way"]
          /\ row' = [row EXCEPT ![o] = "live"]
          /\ held' = [held EXCEPT ![o] = "PLACE"]
    /\ UNCHANGED <<tops, named, manual, acked, inWindow, givenUp>>

\* The accept; the file is patched once each side has exactly one adopted leg.
AcceptOf(o) ==
    /\ at[o] = "way" /\ held[o] = "PLACE"
    /\ at' = [at EXCEPT ![o] = "rest"]
    /\ held' = [held EXCEPT ![o] = "ADOPTED"]
    /\ tops' = TopsOf(held')
    /\ LET on(s) == {k \in SeedOrders : k[1] = s /\ held'[k] # "none"} IN
       named' = IF \A s \in BookSides :
                      Cardinality(on(s)) = 1 /\ \A k \in on(s) : held'[k] = "ADOPTED"
                THEN tops' ELSE named
    /\ UNCHANGED <<row, manual, acked, inWindow, givenUp>>

\* The venue fills an order, and the stack hears of it: the other leg is
\* cancelled for a fresh pair.
FillOf(o) ==
    /\ at[o] = "rest"
    /\ at' = [at EXCEPT ![o] = "gone"]
    /\ UNCHANGED <<row, held, tops, named, manual, acked, inWindow, givenUp>>

FillHeard(o) ==
    /\ at[o] = "gone" /\ row[o] = "live"
    /\ row' = [row EXCEPT ![o] = "done"]
    /\ LET opp == LegsOn(Other(o[1]), {"ADOPTED"}) IN
       held' = IF held[o] = "none" THEN held
               ELSE [k \in SeedOrders |-> IF k = o THEN "none"
                                          ELSE IF k \in opp THEN "CANCEL" ELSE held[k]]
    /\ tops' = TopsOf(held')
    /\ UNCHANGED <<at, named, manual, acked, inWindow, givenUp>>

\* The theo moved: both legs are cancelled first.
MoveBegins ==
    /\ ~Churn /\ Tracked # {}
    /\ held' = [o \in SeedOrders |-> IF held[o] = "ADOPTED" THEN "CANCEL" ELSE held[o]]
    /\ UNCHANGED <<at, row, tops, named, manual, acked, inWindow, givenUp>>

\* The cancel of a leg is answered: the order's row is final and on_cancel marks
\* the leg CANCELLED under tracked_orders_mutex_, which it then gives up. When
\* the venue had filled the order the answer says so and the leg stays until the
\* fill is heard.
CancelAnswered(o) ==
    /\ held[o] = "CANCEL" /\ row[o] = "live" /\ at[o] = "rest" /\ acked = {}
    /\ at' = [at EXCEPT ![o] = "gone"]
    /\ row' = [row EXCEPT ![o] = "done"]
    /\ held' = [held EXCEPT ![o] = "none"]
    /\ acked' = acked \cup {o}
    /\ UNCHANGED <<tops, named, manual, inWindow, givenUp>>

\* Then it stamps the time of the cancel and takes the top of book afresh. It has
\* not the cycle mutex: an adoption on another thread may come in between.
CancelNoted(o) ==
    /\ o \in acked
    /\ acked' = acked \ {o}
    /\ inWindow' = inWindow \cup {o}
    /\ tops' = TopsOf(held)
    /\ UNCHANGED <<at, row, held, named, manual, givenUp>>

\* cancel_ack_timeout_ms and two seconds went by.
WindowEnds ==
    /\ inWindow # {}
    /\ inWindow' = {}
    /\ UNCHANGED <<at, row, held, tops, named, manual, acked, givenUp>>

\* The answer to a placement is lost: the engine takes it for a rejection.
AnswerLost(o) ==
    /\ at[o] = "way" /\ held[o] = "PLACE"
    /\ at' = [at EXCEPT ![o] = "rest"]
    /\ row' = [row EXCEPT ![o] = "done"]
    /\ held' = [held EXCEPT ![o] = "none"]
    /\ givenUp' = givenUp \cup {o}
    /\ UNCHANGED <<tops, named, manual, acked, inWindow>>

\* The growing side is reset at the cap whatever came of the cancel.
SideReset(side) ==
    /\ tops[side] # 0
    /\ tops' = [tops EXCEPT ![side] = 0]
    /\ givenUp' = givenUp \cup {o \in LegsOn(side, {"ADOPTED", "CANCEL"}) : at[o] = "rest"}
    /\ UNCHANGED <<at, row, held, named, manual, acked, inWindow>>

\* DESK_RECOVERY: a stack without a top forgets its legs and quotes afresh.
RecoverLegs ==
    /\ tops = NoNames /\ Tracked # {}
    /\ \A o \in SeedOrders : held[o] # "PLACE"
    /\ held' = [o \in SeedOrders |-> "none"]
    /\ UNCHANGED <<at, row, tops, named, manual, acked, inWindow, givenUp>>
-----------------------------------------------------------------------------
(* Adoption. *)

\* Two bugs for the mutants: the stack must own both legs, and a noted cancel
\* holds nothing back.
OwnsBoth  == ~Churn /\ (\E s \in BookSides : ~TopIsLive(s)) /\ inWindow = {}
AnyTime   == ~Churn /\ \A s \in BookSides : ~TopIsLive(s)
MayReseed == ~Churn /\ (\A s \in BookSides : ~TopIsLive(s)) /\ inWindow = {}

\* The legs match the names: nothing to do.
Matches == \A s \in BookSides : manual[s] = 0 \/ held[<<s, manual[s]>>] = "ADOPTED"

\* The rows of the tops are detached, so that the queued cancels of the legs
\* find no row; the named orders become the legs.  An order whose id the
\* OrderManager knows keeps its row, a final one too.
Reseed(names) ==
    LET detached == {<<s, tops[s]>> : s \in {t \in BookSides : tops[t] # 0}}
        taken    == {<<s, names[s]>> : s \in {t \in BookSides : names[t] # 0}}
    IN /\ row' = [o \in SeedOrders |->
                    IF o \in taken /\ (row[o] = "none" \/ o \in detached) THEN "live"
                    ELSE IF o \in detached THEN "none" ELSE row[o]]
       /\ held' = [o \in SeedOrders |-> IF o \in taken THEN "ADOPTED" ELSE "none"]
       /\ tops' = names

Adopt ==
    /\ ~Matches /\ MayReseed
    /\ Reseed(manual)
    /\ UNCHANGED <<at, named, manual, acked, inWindow, givenUp>>

\* The main loop reads orders.json and sets the names the stack may adopt.
FileRead ==
    /\ manual # named
    /\ manual' = named
    /\ UNCHANGED <<at, row, held, tops, named, acked, inWindow, givenUp>>

\* Who adopts, each under the cycle mutex: the main loop after it read the
\* file, a price update while the stack has no working signal, and a quote
\* cycle whose tracked orders are not all alive.
MainAdopts  == Adopt
FeedAdopts  == Tracked = {} /\ tops = NoNames /\ Adopt
CycleAdopts == (tops = NoNames \/ \E s \in BookSides : tops[s] # 0 /\ ~TopIsLive(s)) /\ Adopt
-----------------------------------------------------------------------------
\* The desk placed the first pair and filed it; the engine has just read it.
SeedInit ==
    /\ at = [o \in SeedOrders |-> IF o[2] = 1 THEN "rest" ELSE "none"]
    /\ row = [o \in SeedOrders |-> "none"]
    /\ held = [o \in SeedOrders |-> "none"]
    /\ tops = NoNames
    /\ named = [s \in BookSides |-> 1]
    /\ manual = named
    /\ acked = {} /\ inWindow = {} /\ givenUp = {}

SeedNext ==
    \/ \E s \in BookSides : PlaceOn(s) \/ SideReset(s)
    \/ \E o \in SeedOrders : AcceptOf(o) \/ AnswerLost(o) \/ FillOf(o) \/ FillHeard(o)
                               \/ CancelAnswered(o) \/ CancelNoted(o)
    \/ MoveBegins \/ WindowEnds \/ RecoverLegs
    \/ FileRead \/ MainAdopts \/ FeedAdopts \/ CycleAdopts

SeedSpec == SeedInit /\ [][SeedNext]_seedState
-----------------------------------------------------------------------------
\* An automatic adoption never makes an order the stack's quote while a newer
\* order of the stack on that side rests or is on its way, unless the stack had
\* given that one up, nor an order whose cancel was noted a moment ago: the names
\* in orders.json lag behind the stack, and two tracks of orders would quote at
\* once (MakeMarketStrategy.cpp 13219-13321). The exception is a cancel that is
\* answered but not noted (acked): the window guard reads the stamp that on_cancel
\* has yet to set (8393 to 8430), and the id just cancelled may be taken up again.
Superseded(o) ==
    \/ o \in inWindow
    \/ \E k \in SeedOrders : k[1] = o[1] /\ k[2] > o[2]
                             /\ at[k] \in {"way", "rest"} /\ k \notin givenUp

AdoptionCurrent ==
  \A o \in SeedOrders :
     (held[o] = "none" /\ held'[o] = "ADOPTED" /\ at'[o] = at[o]) => ~Superseded(o)
\* (of every step)
AdoptsCurrent == [][AdoptionCurrent]_seedState
==============================================================================

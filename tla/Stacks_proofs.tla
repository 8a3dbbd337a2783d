---------------------------- MODULE Stacks_proofs ----------------------------
(***************************************************************************)
(* The desk's stacks for any set of stacks, prices and windows: which of    *)
(* them run follows the file, several are torn down only when that is       *)
(* confirmed, a stack's own orders do not meet while it moves its pair,     *)
(* nothing rests while quoting is paused, an adopted order is the newest of *)
(* its side, and the pair follows the theo within the market's check.       *)
(***************************************************************************)
EXTENDS StackTable, BatchReplace, QuotePause, DeskSeed, Requote, FiniteSetTheorems, WellFoundedInduction, TLAPS

-----------------------------------------------------------------------------
(* StackTable.                                                               *)

(* One stack may always be torn down at once.                                *)
TableConstants == MassMin \in Nat \ {0}

(* The types the proofs need.                                                *)
TableTypes ==
  /\ file.time \in Nat /\ copy.time \in Nat /\ clock \in Nat
  /\ freeze \in [reads : {"file", "copy"}, seq : Nat]
  /\ signal.seq \in Nat
  /\ seen \in [time : Nat, from : {"file", "copy"}, had : BOOLEAN, force : BOOLEAN]

(* No file is newer than the clock, nor is what the thread remembers.        *)
TimesOK == file.time <= clock /\ copy.time <= clock /\ seen.time <= clock

(* What the last reading asked for is what a deferred removal remembers.     *)
DeferOK == deferred # NotDeferred => deferred[3] = wanted

(* The file the thread has looked at last; it is as it was then.             *)
LookedAt == IF seen.from = "copy" THEN copy ELSE file
AsSeen ==
  /\ Exists(LookedAt) /\ LookedAt.time = seen.time
  /\ seen.from = "copy" => freeze.reads = "copy"

(* Between looking and reading the thread may turn to another file, but then *)
(* either it has the same content or the one looked at is no longer in use.  *)
ReadsSame ==
  /\ step = "reconcile" => seen.from = freeze.reads
  /\ step = "read" /\ AsSeen => Doc = LookedAt.doc

(* After a reading the stacks that run are those of the file it looked at.   *)
Followed ==
  step \in {"refresh", "look"} /\ AsSeen /\ ~seen.force /\ LookedAt.doc.kind = "doc"
    => registered = LookedAt.doc.names \ failed

(* The inductive invariant behind StacksFollowFile and MassConfirmed.        *)
TableInv == TableTypes /\ TimesOK /\ DeferOK /\ ReadsSame /\ Followed

(* At the start nothing was looked at.                                       *)
LEMMA TableStart == TableInit => TableInv
BY DEF TableInit, TableInv, TableTypes, TimesOK, DeferOK, ReadsSame, Followed, AsSeen, LookedAt,
       Missing, NoSignal, Exists, Empty

(* The desk's steps make the files newer than what was looked at.            *)
LEMMA DeskStep ==
  ASSUME TableInv, \/ \E doc \in Docs : Write(doc)
                   \/ RemoveFile
                   \/ \E active \in BOOLEAN : Signal(active)
  PROVE  TableInv'
<1>. USE DEF TableInv, TableTypes, TimesOK, DeferOK, ReadsSame, Followed, AsSeen, LookedAt, Exists,
             Doc, InUse
<1>1. ASSUME NEW doc \in Docs, Write(doc) PROVE TableInv'
  BY <1>1 DEF Write
<1>2. CASE RemoveFile
  <2>1. file'.time = 0
    BY <1>2 DEF RemoveFile, Missing
  <2>2. UNCHANGED <<copy, signal, freeze, seen, deferred, step, registered, clock, failed, wanted>>
    BY <1>2 DEF RemoveFile
  <2>. QED
    BY <2>1, <2>2
<1>3. ASSUME NEW active \in BOOLEAN, Signal(active) PROVE TableInv'
  BY <1>3 DEF Signal
<1>. QED
  BY <1>1, <1>2, <1>3

(* A look at the freeze signal leaves the thread at the same file, turns it  *)
(* to the desk's, or to a copy that was just made.                           *)
LEMMA RefreshShape ==
  ASSUME TableTypes, TimesOK, RefreshFreeze, UNCHANGED <<file, signal, seen>>
  PROVE  /\ TableTypes' /\ TimesOK'
         /\ \/ copy' = copy /\ freeze'.reads \in {freeze.reads, "file"}
            \/ /\ freeze'.reads = "copy" /\ copy'.time > seen.time
               /\ Exists(file) => copy'.doc = file.doc
               /\ Exists(copy)'
<1>. USE DEF TableTypes, TimesOK, Exists
<1>1. CASE (NoFile \/ Known) /\ UNCHANGED <<copy, clock>>
           /\ freeze' = IF NoFile THEN [freeze EXCEPT !.reads = "file"] ELSE freeze
  BY <1>1
<1>2. CASE copy' = Copied /\ clock' = clock + 1 /\ freeze' = [reads |-> "copy", seq |-> signal.seq]
  BY <1>2 DEF Copied
<1>3. CASE freeze' = [freeze EXCEPT !.seq = signal.seq] /\ UNCHANGED <<copy, clock>>
  BY <1>3
<1>4. CASE freeze' = [reads |-> "file", seq |-> signal.seq] /\ UNCHANGED <<copy, clock>>
  BY <1>4
<1>. QED
  BY <1>1, <1>2, <1>3, <1>4 DEF RefreshFreeze

(* The thread's two looks at the freeze signal.                              *)
LEMMA FreezeStep ==
  ASSUME TableInv, Tick \/ RefreshAgain
  PROVE  TableInv'
<1>. USE DEF TableInv, DeferOK, ReadsSame, Followed, AsSeen, LookedAt, Exists, Doc, InUse
<1>1. RefreshFreeze /\ UNCHANGED <<file, signal, seen, deferred, registered, failed, wanted>>
  BY DEF Tick, RefreshAgain
<1>2. TableTypes' /\ TimesOK'
  BY <1>1, RefreshShape
<1>3. (step = "refresh" /\ step' = "look") \/ (step = "reconcile" /\ step' = "read")
  BY DEF Tick, RefreshAgain
<1>4. CASE copy' = copy /\ freeze'.reads \in {freeze.reads, "file"}
  BY <1>1, <1>2, <1>3, <1>4 DEF TableTypes
<1>5. CASE freeze'.reads = "copy" /\ copy'.time > seen.time /\ (Exists(file) => copy'.doc = file.doc)
           /\ Exists(copy)'
  BY <1>1, <1>2, <1>3, <1>5 DEF TableTypes
<1>. QED
  BY <1>1, <1>4, <1>5, RefreshShape

(* The thread looks whether the file has changed.                            *)
LEMMA LookStep ==
  ASSUME TableInv, Look \/ LookGone
  PROVE  TableInv'
<1>. USE DEF TableInv, TableTypes, TimesOK, DeferOK, ReadsSame, Followed, AsSeen, LookedAt, Exists,
             Doc, InUse
<1>1. CASE Look
  <2>1. seen' = [time |-> InUse.time, from |-> freeze.reads, had |-> TRUE, force |-> FALSE]
    BY <1>1 DEF Look, Switched
  <2>2. Exists(InUse) /\ step = "look"
        /\ UNCHANGED <<file, copy, signal, freeze, deferred, registered, clock, failed, wanted>>
    BY <1>1 DEF Look
  <2>3. TableTypes' /\ TimesOK' /\ DeferOK' /\ ReadsSame'
    BY <2>1, <2>2, <1>1 DEF Look
  <2>4. CASE step' = "reconcile"
    BY <2>3, <2>4
  <2>5. CASE ~Switched.force /\ Switched.time = InUse.time
    <3>1. seen.from = freeze.reads /\ seen.time = InUse.time /\ ~seen.force
      BY <2>2, <2>5 DEF Switched
    <3>2. Followed'
      BY <2>1, <2>2, <3>1
    <3>. QED
      BY <2>3, <3>2
  <2>. QED
    BY <1>1, <2>4, <2>5 DEF Look
<1>2. CASE LookGone
  <2>1. seen'.from = freeze.reads /\ seen'.time \in {0, seen.time}
        /\ seen' \in [time : Nat, from : {"file", "copy"}, had : BOOLEAN, force : BOOLEAN]
    BY <1>2 DEF LookGone, Switched
  <2>2. step' \in {"reconcile", "refresh"} /\ ~Exists(InUse)
        /\ UNCHANGED <<file, copy, signal, freeze, deferred, registered, clock, failed, wanted>>
    BY <1>2 DEF LookGone
  <2>. QED
    BY <2>1, <2>2
<1>. QED
  BY <1>1, <1>2

(* A file that cannot be read to its end starts stacks at most.              *)
LEMMA UnreadStep ==
  ASSUME TableInv, ReadTorn \/ \E started \in SUBSET StackIds : ReadThrows(started)
  PROVE  TableInv'
<1>1. Doc.kind # "doc" /\ step = "read" /\ step' = "refresh"
      /\ UNCHANGED <<file, copy, signal, freeze, seen, deferred, clock, failed, wanted>>
  BY DEF ReadTorn, ReadThrows
<1>. QED
  BY <1>1 DEF TableInv, TableTypes, TimesOK, DeferOK, ReadsSame, Followed, AsSeen, LookedAt, Exists

(* A removal that was deferred is what the last reading asked for, so one of *)
(* several stacks is only done when two readings in a trail ask for it.        *)
LEMMA ReadStep ==
  ASSUME TableConstants, TableInv, NEW started, Read(started)
  PROVE  TableInv' /\ RemovalConfirmed
<1>. DEFINE removal == registered \ Doc.names
            print == <<Cardinality(Doc.names), Cardinality(Spawned(started)), removal>>
            mass == Cardinality(removal) >= MassMin /\ ~Doc.intent
<1>1. /\ step = "read" /\ step' = "refresh" /\ wanted' = removal
      /\ started \subseteq Doc.names \ registered
      /\ failed' = (Doc.names \ registered) \ started
      /\ UNCHANGED <<file, copy, signal, freeze, clock>>
  BY DEF Read
<1>2. CASE mass /\ deferred # print
  <2>1. registered' = registered \cup started /\ deferred' = print /\ seen' = [seen EXCEPT !.force = TRUE]
    BY <1>2 DEF Read, Defer, Spawned
  <2>2. registered \ registered' = {}
    BY <2>1
  <2>3. RemovalConfirmed
    BY <2>2, FS_EmptySet DEF RemovalConfirmed, TableConstants
  <2>4. DeferOK'
    BY <1>1, <2>1 DEF DeferOK
  <2>. QED
    BY <1>1, <2>1, <2>3, <2>4 DEF TableInv, TableTypes, TimesOK, ReadsSame, Followed
<1>3. CASE ~(mass /\ deferred # print)
  <2>1. registered' = (registered \cup started) \ removal /\ UNCHANGED seen
        /\ deferred' = NotDeferred
    BY <1>3 DEF Read, Spawned, TornDown, Recovered
  <2>2. registered \ registered' = removal
    BY <1>1, <2>1
  <2>3. RemovalConfirmed
    <3>1. mass => deferred = print /\ deferred # NotDeferred
      BY <1>3 DEF NotDeferred
    <3>2. mass => wanted = removal
      BY <3>1 DEF TableInv, DeferOK
    <3>. QED
      BY <2>2, <3>2 DEF RemovalConfirmed
  <2>4. registered' = Doc.names \ failed'
    BY <1>1, <2>1
  <2>5. DeferOK'
    BY <2>1 DEF DeferOK
  <2>. QED
    BY <1>1, <2>1, <2>3, <2>4, <2>5 DEF TableInv, TableTypes, TimesOK, ReadsSame, Followed, AsSeen,
       LookedAt, Exists
<1>. QED
  BY <1>2, <1>3

(* The invariant is inductive, and every step confirms a large removal.      *)
LEMMA TableStep ==
  ASSUME TableConstants, TableInv, [TableNext]_tableState
  PROVE  TableInv' /\ (RemovalConfirmed \/ UNCHANGED tableState)
<1>1. ASSUME registered \subseteq registered'
      PROVE  RemovalConfirmed
  <2>1. Cardinality(registered \ registered') = 0
    BY <1>1, FS_EmptySet
  <2>. QED
    BY <2>1 DEF RemovalConfirmed, TableConstants
<1>2. CASE \/ \E doc \in Docs : Write(doc)
           \/ RemoveFile
           \/ \E active \in BOOLEAN : Signal(active)
  BY <1>1, <1>2, DeskStep DEF Write, RemoveFile, Signal
<1>3. CASE Tick \/ RefreshAgain
  BY <1>1, <1>3, FreezeStep DEF Tick, RefreshAgain
<1>4. CASE Look \/ LookGone
  BY <1>1, <1>4, LookStep DEF Look, LookGone
<1>5. CASE ReadTorn \/ \E started \in SUBSET StackIds : ReadThrows(started)
  BY <1>1, <1>5, UnreadStep DEF ReadTorn, ReadThrows, Spawned
<1>6. CASE \E started \in SUBSET StackIds : Read(started)
  BY <1>6, ReadStep
<1>7. CASE UNCHANGED tableState
  BY <1>7 DEF tableState, TableInv, TableTypes, TimesOK, DeferOK, ReadsSame, Followed, AsSeen, LookedAt,
     Exists, Doc, InUse
<1>. QED
  BY <1>2, <1>3, <1>4, <1>5, <1>6, <1>7 DEF TableNext

(* When the thread has nothing left to read, the stacks that run are those   *)
(* of the file in use, but for those that failed to start, although the desk *)
(* may write, remove or freeze the file between any two of its steps.        *)
THEOREM RunningFollowsFile ==
  ASSUME TableConstants
  PROVE  TableSpec => []StacksFollowFile
<1>1. TableInv => StacksFollowFile
  BY DEF TableInv, Followed, AsSeen, LookedAt, StacksFollowFile, InUse
<1>. QED
  BY <1>1, TableStart, TableStep, PTL DEF TableSpec

(* Several stacks are torn down in one pass only when the reading before     *)
(* asked for the same removal, or the desk states its intent.                *)
THEOREM RemovalsAreConfirmed ==
  ASSUME TableConstants
  PROVE  TableSpec => MassConfirmed
<1>1. TableInv /\ [TableNext]_tableState => TableInv' /\ [RemovalConfirmed]_tableState
  BY TableStep
<1>. QED
  BY <1>1, TableStart, PTL DEF TableSpec, MassConfirmed

-----------------------------------------------------------------------------
(* BatchReplace.                                                             *)

(* A pair the price asks for does not cross.                                 *)
BatchConstants ==
  \A p \in QuotePairs : (\A d \in QuoteSides : p[d] \in Int) /\ p["BUY"] < p["SELL"]

OrderRec == [id : Nat, side : QuoteSides, price : Int]
LegRec   == [id : Nat, side : QuoteSides, price : Int, state : {"adopted", "unconfirmed", "pending"}]
WireRec  == [what : {"cancel", "place"}, order : OrderRec, answer : {"none", "ok", "failed"}]

(* The types of the variables; ids grow from one pair to the next.           *)
BatchTypes ==
  /\ rounds \in Nat
  /\ mine \in SUBSET LegRec /\ onBook \in SUBSET OrderRec
  /\ wires \in SUBSET WireRec /\ held2nd \in SUBSET OrderRec
  /\ \A t \in mine : t.id <= 2 * rounds + 2
  /\ \A w \in wires : w.order.id <= 2 * rounds + 2
  /\ \A o \in held2nd : o.id <= 2 * rounds + 2

(* An order has one leg, one request, and the price and side of both.        *)
IdsOK ==
  /\ \A t, u \in mine : t.id = u.id => t = u
  /\ \A v, w \in wires : v.order.id = w.order.id => v = w
  /\ \A w \in wires : w.what = "place" => \E t \in InState("pending") : Drop(t) = w.order
  /\ \A o \in held2nd : \E t \in InState("pending") : Drop(t) = o
  /\ \A w \in wires, o \in held2nd : w.order.id # o.id

(* While a batch runs no leg is adopted, and what waits behind it waits for  *)
(* cancels only.                                                             *)
PhaseOK ==
  /\ wires # {} => InState("adopted") = {}
  /\ held2nd # {} => \A w \in wires : w.what = "cancel"

(* Orders that do not meet.                                                  *)
NoMeet(bids, asks) ==
  \A b \in bids, a \in asks : b.side = "BUY" /\ a.side = "SELL" => b.price < a.price
WireOrders == {w.order : w \in wires}
MeetOK ==
  /\ NoMeet(InState("adopted"), InState("adopted"))
  /\ NoMeet(WireOrders, WireOrders)
  /\ NoMeet(held2nd, held2nd)

(* The orders of which the stack does not know whether they rest.            *)
Unsure == doubtful \cup {w.order.id : w \in {v \in wires : v.answer = "failed"}}

(* Every other order at the venue is an adopted leg, or its cancel is on its *)
(* way, or its placement was answered.                                       *)
BookOK ==
  /\ \A w \in wires : w.what = "cancel" /\ w.answer = "ok" => w.order \notin onBook
  /\ \A o \in onBook :
       \/ o.id \in Unsure
       \/ \E t \in InState("adopted") : Drop(t) = o
       \/ \E w \in wires : w.order = o /\ w.what = "cancel" /\ w.answer = "none"
       \/ \E w \in wires : w.order = o /\ w.what = "place" /\ w.answer = "ok"

(* The inductive invariant behind NoOwnCross.                                *)
BatchInv == BatchTypes /\ IdsOK /\ PhaseOK /\ MeetOK /\ BookOK

(* At the start the pair rests and is adopted.                               *)
LEMMA BatchStart ==
  ASSUME BatchConstants, BatchInit
  PROVE  BatchInv
<1>1. PICK p \in QuotePairs :
        /\ onBook = FirstPair(p)
        /\ mine = {[id |-> o.id, side |-> o.side, price |-> o.price, state |-> "adopted"]
                     : o \in FirstPair(p)}
  BY DEF BatchInit
<1>2. p["BUY"] \in Int /\ p["SELL"] \in Int /\ p["BUY"] < p["SELL"]
  BY DEF BatchConstants, QuoteSides
<1>3. wires = {} /\ held2nd = {} /\ rounds = 0
  BY DEF BatchInit
<1>. DEFINE bid == [id |-> 1, side |-> "BUY", price |-> p["BUY"]]
            ask == [id |-> 2, side |-> "SELL", price |-> p["SELL"]]
            bidLeg == [id |-> 1, side |-> "BUY", price |-> p["BUY"], state |-> "adopted"]
            askLeg == [id |-> 2, side |-> "SELL", price |-> p["SELL"], state |-> "adopted"]
<1>4. FirstPair(p) = {bid, ask}
  BY DEF FirstPair, QuoteSides
<1>5. onBook = {bid, ask} /\ mine = {bidLeg, askLeg}
  BY <1>1, <1>4
<1>6. BatchTypes
  BY <1>2, <1>3, <1>5 DEF BatchTypes, OrderRec, LegRec, QuoteSides
<1>7. IdsOK
  BY <1>3, <1>5 DEF IdsOK
<1>8. PhaseOK
  BY <1>3 DEF PhaseOK
<1>9. MeetOK
  BY <1>2, <1>3, <1>5 DEF MeetOK, NoMeet, InState, WireOrders
<1>10. BookOK
  <2>1. bidLeg \in InState("adopted") /\ askLeg \in InState("adopted")
    BY <1>5 DEF InState
  <2>2. Drop(bidLeg) = bid /\ Drop(askLeg) = ask
    BY DEF Drop
  <2>. HIDE DEF bid, ask, bidLeg, askLeg
  <2>. QED
    BY <1>3, <1>5, <2>1, <2>2 DEF BookOK
<1>. QED
  BY <1>6, <1>7, <1>8, <1>9, <1>10 DEF BatchInv

(* The invariant says what NoOwnCross asks.                                  *)
LEMMA BatchCross == BatchInv => NoOwnCross
<1>. SUFFICES ASSUME BatchInv, NEW b \in onBook, NEW a \in onBook,
                     b.side = "BUY", a.side = "SELL", b.id \notin Unsure, a.id \notin Unsure
              PROVE  ~(b.price >= a.price)
  BY DEF NoOwnCross, Unsure
<1>. USE DEF BatchInv
<1>1. b.price \in Int /\ a.price \in Int
  BY DEF BatchTypes, OrderRec
<1>2. CASE wires = {}
  <2>1. /\ \E t \in InState("adopted") : Drop(t) = b
        /\ \E t \in InState("adopted") : Drop(t) = a
    BY <1>2 DEF BookOK
  <2>. QED
    BY <1>1, <2>1 DEF MeetOK, NoMeet, Drop
<1>3. CASE wires # {}
  <2>1. b \in WireOrders /\ a \in WireOrders
    BY <1>3 DEF BookOK, PhaseOK, WireOrders
  <2>. QED
    BY <1>1, <2>1 DEF MeetOK, NoMeet
<1>. QED
  BY <1>2, <1>3

(* A leg that is marked stays the leg it was: none is adopted any more, and  *)
(* those whose placement is on its way are untouched.                        *)
LEMMA MarkedLegs ==
  ASSUME BatchTypes, IdsOK
  PROVE  /\ Marked \in SUBSET LegRec
         /\ \A u \in Marked : u.state # "adopted" /\ \E t \in mine : t.id = u.id
         /\ \A u, v \in Marked : u.id = v.id => u = v
         /\ \A t \in InState("pending") : t \in Marked
<1>. DEFINE mark(t) == [t EXCEPT !.state = IF @ = "adopted" THEN "unconfirmed" ELSE @]
<1>1. Marked = {mark(t) : t \in mine}
  BY DEF Marked
<1>2. \A t \in mine : /\ mark(t) \in LegRec /\ mark(t).id = t.id /\ mark(t).state # "adopted"
                      /\ t.state = "pending" => mark(t) = t
  BY DEF BatchTypes, LegRec
<1>. HIDE DEF mark
<1>. QED
  BY <1>1, <1>2 DEF InState, IdsOK

(* What a placement asks for.                                                *)
LEMMA NewPair ==
  ASSUME BatchConstants, BatchTypes, NEW p \in QuotePairs, NEW sides \in SUBSET QuoteSides
  PROVE  /\ NewLegs(p, sides) \in SUBSET OrderRec
         /\ \A n \in NewLegs(p, sides) : 2 * rounds + 2 < n.id /\ n.id <= 2 * (rounds + 1) + 2
         /\ \A n, m \in NewLegs(p, sides) : n.id = m.id => n = m
         /\ NoMeet(NewLegs(p, sides), NewLegs(p, sides))
<1>. DEFINE order(d) == [id |-> 2 * rounds + (IF d = "BUY" THEN 3 ELSE 4), side |-> d,
                         price |-> p[d]]
<1>1. NewLegs(p, sides) = {order(d) : d \in sides}
  BY DEF NewLegs
<1>2. \A d \in sides : /\ d \in QuoteSides /\ p[d] \in Int /\ order(d) \in OrderRec
                       /\ order(d).side = d /\ order(d).price = p[d]
                       /\ order(d).id = 2 * rounds + (IF d = "BUY" THEN 3 ELSE 4)
  BY DEF BatchTypes, BatchConstants, QuoteSides, OrderRec
<1>3. rounds \in Nat /\ p["BUY"] < p["SELL"]
  BY DEF BatchTypes, BatchConstants
<1>. HIDE DEF order
<1>. QED
  BY <1>1, <1>2, <1>3 DEF NoMeet, QuoteSides

(* What a leg stands for at the venue.                                       *)
LEMMA LegOrder ==
  ASSUME BatchTypes, NEW t \in mine
  PROVE  /\ Drop(t) \in OrderRec /\ Drop(t).id = t.id /\ Drop(t).side = t.side
         /\ Drop(t).price = t.price
BY DEF BatchTypes, LegRec, OrderRec, Drop

(* The pair that rests is cancelled and a new one placed: the new one goes   *)
(* out at once only if it meets nothing of the old one.                      *)
LEMMA PairSent ==
  ASSUME BatchConstants, BatchInv, NEW p \in QuotePairs, NEW sides \in SUBSET QuoteSides,
         NEW old, old = {Drop(t) : t \in InState("adopted")},
         NEW new, new = NewLegs(p, sides),
         wires = {}, rounds' = rounds + 1, onBook' = onBook, doubtful' = doubtful,
         mine' = Marked \cup {[id |-> o.id, side |-> o.side, price |-> o.price,
                               state |-> "pending"] : o \in new},
         \/ Meets(new, old) /\ wires' = Wire("cancel", old) /\ held2nd' = new
         \/ ~Meets(new, old) /\ wires' = Wire("cancel", old) \cup Wire("place", new) /\ held2nd' = {}
  PROVE  BatchInv'
<1>. USE DEF BatchInv
<1>. DEFINE legOf(o) == [id |-> o.id, side |-> o.side, price |-> o.price, state |-> "pending"]
<1>1. rounds \in Nat /\ rounds' \in Nat
  BY DEF BatchTypes
<1>2. /\ old \in SUBSET OrderRec
      /\ \A o \in old : o.id <= 2 * rounds + 2
      /\ \A o, q \in old : o.id = q.id => o = q
      /\ NoMeet(old, old)
  BY LegOrder DEF BatchTypes, IdsOK, MeetOK, NoMeet, InState
<1>3. /\ new \in SUBSET OrderRec
      /\ \A n \in new : 2 * rounds + 2 < n.id /\ n.id <= 2 * (rounds + 1) + 2
      /\ \A n, m \in new : n.id = m.id => n = m
      /\ NoMeet(new, new)
  BY NewPair
<1>4. /\ Marked \in SUBSET LegRec
      /\ \A u \in Marked : u.state # "adopted" /\ \E t \in mine : t.id = u.id
      /\ \A u, v \in Marked : u.id = v.id => u = v
  BY MarkedLegs
<1>5. \A o \in new : legOf(o) \in LegRec /\ legOf(o).id = o.id /\ legOf(o).state = "pending"
                     /\ Drop(legOf(o)) = o
  BY <1>3 DEF OrderRec, LegRec, Drop
<1>6. mine' = Marked \cup {legOf(o) : o \in new}
  OBVIOUS
<1>. HIDE DEF legOf
<1>7. \A u \in Marked : u.id \in Nat /\ u.id <= 2 * rounds + 2
  BY <1>4 DEF BatchTypes, LegRec
<1>8. mine' \in SUBSET LegRec /\ \A t \in mine' : t.id <= 2 * rounds' + 2
  BY <1>1, <1>3, <1>4, <1>5, <1>6, <1>7 DEF OrderRec
<1>9. \A t, u \in mine' : t.id = u.id => t = u
  BY <1>1, <1>3, <1>4, <1>5, <1>6, <1>7 DEF OrderRec
<1>10. \A o \in new : legOf(o) \in InState("pending")'
  BY <1>5, <1>6 DEF InState
<1>11. InState("adopted")' = {}
  BY <1>4, <1>5, <1>6 DEF InState
<1>12. \A w \in wires' : \/ w.what = "cancel" /\ w.order \in old /\ w.answer = "none"
                         \/ w.what = "place" /\ w.order \in new /\ w.answer = "none"
  BY DEF Wire
<1>13. wires' \in SUBSET WireRec
  BY <1>2, <1>3 DEF Wire, WireRec
<1>14. \A v, w \in wires' : v.order.id = w.order.id => v = w
  <2>1. \A w \in wires' : \/ w = [what |-> "cancel", order |-> w.order, answer |-> "none"] /\ w.order \in old
                          \/ w = [what |-> "place", order |-> w.order, answer |-> "none"] /\ w.order \in new
    BY DEF Wire
  <2>2. \A o \in old, n \in new : o.id # n.id
    BY <1>1, <1>2, <1>3 DEF OrderRec
  <2>. QED
    BY <1>2, <1>3, <2>1, <2>2
<1>15. held2nd' \subseteq new
  OBVIOUS
<1>16. BatchTypes'
  <2>1. \A w \in wires' : w.order.id <= 2 * rounds' + 2
    BY <1>1, <1>2, <1>3, <1>12 DEF OrderRec
  <2>2. \A o \in held2nd' : o.id <= 2 * rounds' + 2
    BY <1>3, <1>15
  <2>. QED
    BY <1>1, <1>3, <1>8, <1>13, <1>15, <2>1, <2>2 DEF BatchTypes
<1>17. IdsOK'
  <2>1. \A w \in wires' : w.what = "place" => \E t \in InState("pending")' : Drop(t) = w.order
    BY <1>5, <1>10, <1>12
  <2>2. \A o \in held2nd' : \E t \in InState("pending")' : Drop(t) = o
    BY <1>5, <1>10, <1>15
  <2>3. \A w \in wires', o \in held2nd' : w.order.id # o.id
    <3>1. CASE held2nd' = {}
      BY <3>1
    <3>2. CASE wires' = Wire("cancel", old) /\ held2nd' = new
      <4>1. \A w \in wires' : w.order \in old
        BY <3>2 DEF Wire
      <4>. QED
        BY <1>1, <1>2, <1>3, <3>2, <4>1 DEF OrderRec
    <3>. QED
      BY <3>1, <3>2
  <2>. QED
    BY <1>9, <1>14, <2>1, <2>2, <2>3 DEF IdsOK
<1>18. PhaseOK'
  <2>1. held2nd' # {} => \A w \in wires' : w.what = "cancel"
    BY DEF Wire
  <2>. QED
    BY <1>11, <2>1 DEF PhaseOK
<1>19. MeetOK'
  <2>1. NoMeet(WireOrders', WireOrders')
    <3>1. CASE ~Meets(new, old)
      <4>1. NoMeet(new, old) /\ NoMeet(old, new)
        BY <1>2, <1>3, <3>1 DEF Meets, NoMeet, OrderRec
      <4>2. WireOrders' \subseteq old \cup new
        BY <1>12 DEF WireOrders
      <4>. QED
        BY <1>2, <1>3, <4>1, <4>2 DEF NoMeet
    <3>2. CASE wires' = Wire("cancel", old)
      <4>1. WireOrders' \subseteq old
        BY <3>2 DEF WireOrders, Wire
      <4>. QED
        BY <1>2, <4>1 DEF NoMeet
    <3>. QED
      BY <3>1, <3>2
  <2>. QED
    BY <1>3, <1>11, <1>15, <2>1 DEF MeetOK, NoMeet
<1>20. BookOK'
  <2>1. \A o \in old : \E w \in wires' : w.order = o /\ w.what = "cancel" /\ w.answer = "none"
    <3>1. \A o \in old : [what |-> "cancel", order |-> o, answer |-> "none"] \in wires'
      BY DEF Wire
    <3>. QED
      BY <3>1
  <2>2. \A o \in onBook : o.id \in doubtful \/ o \in old
    BY DEF BookOK, Unsure
  <2>3. \A w \in wires' : w.answer = "none"
    BY <1>12
  <2>4. doubtful \subseteq Unsure'
    BY DEF Unsure
  <2>. QED
    BY <2>1, <2>2, <2>3, <2>4 DEF BookOK
<1>. QED
  BY <1>16, <1>17, <1>18, <1>19, <1>20

(* Without the lease the legs are marked and nothing is sent.                *)
LEMMA PairMarked ==
  ASSUME BatchInv, NEW old, old = {Drop(t) : t \in InState("adopted")},
         wires = {}, rounds' = rounds + 1, onBook' = onBook, mine' = Marked,
         doubtful' = doubtful \cup {o.id : o \in old}, wires' = wires, held2nd' = held2nd
  PROVE  BatchInv'
<1>. USE DEF BatchInv
<1>1. rounds \in Nat
  BY DEF BatchTypes
<1>2. /\ Marked \in SUBSET LegRec
      /\ \A u \in Marked : u.state # "adopted" /\ \E t \in mine : t.id = u.id
      /\ \A u, v \in Marked : u.id = v.id => u = v
      /\ \A t \in InState("pending") : t \in Marked
  BY MarkedLegs
<1>3. BatchTypes'
  <2>1. \A t \in mine' : t.id <= 2 * rounds' + 2
    BY <1>1, <1>2 DEF BatchTypes, LegRec
  <2>2. \A o \in held2nd' : o.id <= 2 * rounds' + 2
    BY <1>1 DEF BatchTypes, OrderRec
  <2>. QED
    BY <1>1, <1>2, <2>1, <2>2 DEF BatchTypes
<1>4. InState("adopted")' = {} /\ InState("pending") \subseteq InState("pending")'
  BY <1>2 DEF InState
<1>5. IdsOK'
  BY <1>2, <1>4 DEF IdsOK
<1>6. PhaseOK' /\ MeetOK'
  BY <1>4 DEF PhaseOK, MeetOK, NoMeet, WireOrders
<1>7. BookOK'
  <2>1. \A o \in onBook : o.id \in doubtful \/ o \in old
    BY DEF BookOK, Unsure
  <2>2. doubtful' \subseteq Unsure'
    BY DEF Unsure
  <2>. QED
    BY <2>1, <2>2 DEF BookOK
<1>. QED
  BY <1>3, <1>5, <1>6, <1>7

(* A request of the batch is answered, with or without its effect.           *)
LEMMA WireAnswered ==
  ASSUME BatchInv, NEW w \in wires, w.answer = "none",
         NEW answer \in {"ok", "failed"}, SetAnswer(w, answer),
         mine' = mine, held2nd' = held2nd, rounds' = rounds, doubtful' = doubtful,
         \/ onBook' = Effect(w)
         \/ /\ onBook' = onBook
            /\ answer = IF w.what = "cancel" /\ w.order \notin onBook THEN "ok" ELSE "failed"
  PROVE  BatchInv'
<1>. USE DEF BatchInv
<1>. DEFINE done == [w EXCEPT !.answer = answer]
<1>1. /\ w \in WireRec /\ done \in WireRec /\ done.what = w.what /\ done.order = w.order
      /\ done.answer = answer
  BY DEF BatchTypes, WireRec
<1>2. wires' = (wires \ {w}) \cup {done}
  BY DEF SetAnswer
<1>. HIDE DEF done
<1>3. w.order \in OrderRec /\ w.what \in {"cancel", "place"}
  BY <1>1 DEF WireRec
<1>4. BatchTypes'
  <2>1. onBook' \in SUBSET OrderRec
    BY <1>3 DEF BatchTypes, Effect
  <2>2. wires' \in SUBSET WireRec /\ \A v \in wires' : v.order.id <= 2 * rounds + 2
    BY <1>1, <1>2 DEF BatchTypes
  <2>. QED
    BY <2>1, <2>2 DEF BatchTypes
<1>5. \A v \in wires' : v = done \/ (v \in wires /\ v # w)
  BY <1>2
<1>6. InState("adopted")' = InState("adopted") /\ InState("pending")' = InState("pending")
  BY DEF InState
<1>7. IdsOK'
  <2>1. \A u, v \in wires' : u.order.id = v.order.id => u = v
    BY <1>1, <1>5 DEF IdsOK
  <2>2. \A v \in wires' : v.what = "place" => \E t \in InState("pending") : Drop(t) = v.order
    BY <1>1, <1>5 DEF IdsOK
  <2>3. \A v \in wires', o \in held2nd : v.order.id # o.id
    BY <1>1, <1>5 DEF IdsOK
  <2>4. \A o \in held2nd : \E t \in InState("pending") : Drop(t) = o
    BY DEF IdsOK
  <2>. QED
    BY <1>6, <2>1, <2>2, <2>3, <2>4 DEF IdsOK
<1>8. PhaseOK'
  BY <1>1, <1>5, <1>6 DEF PhaseOK
<1>9. MeetOK'
  <2>1. WireOrders' = WireOrders
    BY <1>1, <1>2 DEF WireOrders
  <2>. QED
    BY <1>6, <2>1 DEF MeetOK
<1>10. BookOK'
  <2>1. Unsure \subseteq Unsure' /\ (answer = "failed" => w.order.id \in Unsure')
    BY <1>1, <1>2 DEF Unsure
  <2>2. \A v \in wires : v # w => v \in wires' /\ v.order # w.order
    BY <1>2 DEF IdsOK
  <2>3. done \in wires'
    BY <1>2
  <2>4. \A v \in wires' : v.what = "cancel" /\ v.answer = "ok" => v.order \notin onBook'
    <3>1. ASSUME NEW v \in wires, v # w, v.what = "cancel", v.answer = "ok"
          PROVE  v.order \notin onBook'
      BY <2>2, <3>1 DEF BookOK, Effect
    <3>2. ASSUME w.what = "cancel", answer = "ok"
          PROVE  w.order \notin onBook'
      BY <3>2 DEF Effect
    <3>. QED
      BY <1>1, <1>5, <3>1, <3>2
  <2>5. ASSUME NEW o \in onBook', o = w.order
        PROVE  \/ o.id \in Unsure'
               \/ done.what = "place" /\ done.answer = "ok"
    BY <1>1, <1>3, <2>1, <2>5 DEF Effect
  <2>6. ASSUME NEW o \in onBook', o # w.order
        PROVE  \/ o.id \in Unsure'
               \/ \E t \in InState("adopted") : Drop(t) = o
               \/ \E v \in wires' : v.order = o /\ v.what = "cancel" /\ v.answer = "none"
               \/ \E v \in wires' : v.order = o /\ v.what = "place" /\ v.answer = "ok"
    <3>1. o \in onBook
      BY <2>6 DEF Effect
    <3>. QED
      BY <2>1, <2>2, <2>6, <3>1 DEF BookOK
  <2>. QED
    BY <1>1, <1>6, <2>3, <2>4, <2>5, <2>6 DEF BookOK
<1>. QED
  BY <1>4, <1>7, <1>8, <1>9, <1>10

(* The batch is complete: the answers reach the legs, and what waited goes   *)
(* out.                                                                      *)
LEMMA BatchDispatched ==
  ASSUME BatchInv, Dispatch
  PROVE  BatchInv'
<1>. USE DEF BatchInv
<1>. DEFINE gone     == {o.id : o \in Answers("cancel", "ok") \cup Answers("place", "failed")}
            accepted == {o.id : o \in Answers("place", "ok")}
            told(t)  == [t EXCEPT !.state = IF t.id \in accepted THEN "adopted" ELSE @]
            left     == {u \in mine : u.id \notin gone}
<1>1. /\ wires # {} /\ rounds' = rounds /\ onBook' = onBook
      /\ \A w \in wires : w.answer # "none"
      /\ mine' = {told(t) : t \in left}
      /\ doubtful' = doubtful \cup {w.order.id : w \in {v \in wires : v.answer = "failed"}}
      /\ wires' = Wire("place", held2nd) /\ held2nd' = {}
  BY DEF Dispatch
<1>2. \A i \in gone : \E w \in wires : w.order.id = i /\ (w.what = "cancel" \/ w.answer = "failed")
  BY DEF Answers
<1>3. \A i \in accepted : \E w \in wires : w.order.id = i /\ w.what = "place" /\ w.answer = "ok"
  BY DEF Answers
<1>4. \A w \in wires : w.what = "place" /\ w.answer = "ok" => w.order.id \in accepted
  BY DEF Answers
<1>5. \A t \in mine : /\ told(t) \in LegRec /\ told(t).id = t.id /\ Drop(told(t)) = Drop(t)
                      /\ t.id \in accepted => told(t).state = "adopted"
                      /\ t.id \notin accepted => told(t) = t
  BY DEF BatchTypes, LegRec, Drop
<1>6. left \subseteq mine /\ \A t \in mine : t.id \notin gone => t \in left
  OBVIOUS
<1>. HIDE DEF gone, accepted, told, left
<1>7. InState("adopted") = {}
  BY <1>1 DEF PhaseOK
<1>8. \A w \in wires : w \in WireRec
  BY DEF BatchTypes
<1>9. \A t \in InState("adopted")' : \E w \in wires :
        w.what = "place" /\ w.answer = "ok" /\ Drop(t) = w.order
  <2>1. SUFFICES ASSUME NEW t \in left, told(t).state = "adopted"
                 PROVE  \E w \in wires : w.what = "place" /\ w.answer = "ok" /\ Drop(told(t)) = w.order
    BY <1>1 DEF InState
  <2>2. t \in mine /\ t.id \in accepted
    BY <1>5, <1>6, <1>7, <2>1 DEF InState
  <2>3. PICK w \in wires : w.order.id = t.id /\ w.what = "place" /\ w.answer = "ok"
    BY <1>3, <2>2
  <2>4. PICK u \in InState("pending") : Drop(u) = w.order
    BY <2>3 DEF IdsOK
  <2>5. u \in mine /\ u.id = t.id
    BY <2>3, <2>4, LegOrder DEF InState
  <2>6. u = t
    BY <2>2, <2>5 DEF IdsOK
  <2>. QED
    BY <1>5, <2>2, <2>3, <2>4, <2>6
<1>10. \A o \in held2nd : \E t \in InState("pending")' : Drop(t) = o
  <2>1. SUFFICES ASSUME NEW o \in held2nd
                 PROVE  \E t \in InState("pending")' : Drop(t) = o
    OBVIOUS
  <2>2. PICK t \in InState("pending") : Drop(t) = o
    BY DEF IdsOK
  <2>3. t \in mine /\ t.state = "pending" /\ t.id = o.id
    BY <2>2, LegOrder DEF InState
  <2>4. t.id \notin gone /\ t.id \notin accepted
    BY <1>2, <1>3, <2>3 DEF IdsOK
  <2>5. t \in mine'
    BY <1>1, <1>5, <1>6, <2>3, <2>4
  <2>. QED
    BY <2>2, <2>3, <2>5 DEF InState
<1>11. \A w \in wires' : w = [what |-> "place", order |-> w.order, answer |-> "none"]
                         /\ w.order \in held2nd
  BY <1>1 DEF Wire
<1>12. BatchTypes'
  <2>1. mine' \in SUBSET LegRec /\ \A t \in mine' : t.id <= 2 * rounds + 2
    BY <1>1, <1>5, <1>6 DEF BatchTypes
  <2>2. wires' \in SUBSET WireRec /\ \A w \in wires' : w.order.id <= 2 * rounds + 2
    BY <1>11 DEF BatchTypes, WireRec
  <2>. QED
    BY <1>1, <2>1, <2>2 DEF BatchTypes
<1>13. IdsOK'
  <2>1. \A t, u \in mine' : t.id = u.id => t = u
    BY <1>1, <1>5, <1>6 DEF IdsOK
  <2>2. \A v, w \in wires' : v.order.id = w.order.id => v = w
    <3>1. \A o, q \in held2nd : o.id = q.id => o = q
      BY LegOrder DEF IdsOK, InState
    <3>. QED
      BY <1>11, <3>1
  <2>. QED
    BY <1>1, <1>10, <1>11, <2>1, <2>2 DEF IdsOK
<1>14. PhaseOK'
  <2>1. held2nd # {} => InState("adopted")' = {}
    BY <1>9 DEF PhaseOK
  <2>. QED
    BY <1>1, <1>11, <2>1 DEF PhaseOK
<1>15. MeetOK'
  <2>1. \A t \in InState("adopted")' : t \in mine'
    BY DEF InState
  <2>2. \A t \in InState("adopted")' : Drop(t).side = t.side /\ Drop(t).price = t.price
    BY <2>1 DEF Drop
  <2>3. NoMeet(InState("adopted")', InState("adopted")')
    BY <1>9, <2>2 DEF MeetOK, NoMeet, WireOrders
  <2>4. WireOrders' \subseteq held2nd
    BY <1>11 DEF WireOrders
  <2>. QED
    BY <1>1, <2>3, <2>4 DEF MeetOK, NoMeet
<1>16. BookOK'
  <2>1. \A w \in wires' : w.answer = "none"
    BY <1>11
  <2>2. Unsure \subseteq Unsure'
    BY <1>1 DEF Unsure
  <2>3. ASSUME NEW o \in onBook, o.id \notin Unsure
        PROVE  \E t \in InState("adopted")' : Drop(t) = o
    <3>1. PICK w \in wires : w.order = o /\ w.what = "place" /\ w.answer = "ok"
      BY <1>1, <1>7, <2>3 DEF BookOK
    <3>2. PICK t \in InState("pending") : Drop(t) = o
      BY <3>1 DEF IdsOK
    <3>3. t \in mine /\ t.id = o.id /\ t.id \in accepted
      BY <1>4, <3>1, <3>2, LegOrder DEF InState
    <3>4. t.id \notin gone
      BY <1>2, <3>1, <3>3 DEF IdsOK
    <3>5. told(t) \in mine' /\ told(t).state = "adopted" /\ Drop(told(t)) = o
      BY <1>1, <1>5, <1>6, <3>2, <3>3, <3>4
    <3>. QED
      BY <3>5 DEF InState
  <2>. QED
    BY <1>1, <2>1, <2>2, <2>3 DEF BookOK
<1>. QED
  BY <1>12, <1>13, <1>14, <1>15, <1>16

(* A leg whose cancel was not confirmed is settled.                          *)
LEMMA LegSettled ==
  ASSUME BatchInv, NEW t \in mine, LegDropped(t) \/ CancelRetried(t)
  PROVE  BatchInv'
<1>. USE DEF BatchInv
<1>1. /\ t.state = "unconfirmed" /\ onBook' \subseteq onBook /\ mine' \in {mine, mine \ {t}}
      /\ wires' = wires /\ held2nd' = held2nd /\ rounds' = rounds /\ doubtful' = doubtful
  BY DEF LegDropped, CancelRetried, InState
<1>2. InState("adopted")' = InState("adopted") /\ InState("pending")' = InState("pending")
  BY <1>1 DEF InState
<1>3. BatchTypes'
  BY <1>1 DEF BatchTypes
<1>4. IdsOK' /\ PhaseOK'
  BY <1>1, <1>2 DEF IdsOK, PhaseOK
<1>5. MeetOK' /\ BookOK'
  BY <1>1, <1>2 DEF MeetOK, WireOrders, BookOK, Unsure
<1>. QED
  BY <1>3, <1>4, <1>5

(* Every step keeps the invariant.                                           *)
LEMMA BatchStep ==
  ASSUME BatchConstants, BatchInv, [BatchNext]_batchState
  PROVE  BatchInv'
<1>1. ASSUME NEW p \in QuotePairs, Replace(p)
      PROVE  BatchInv'
  <2>. DEFINE old == {Drop(t) : t \in InState("adopted")}
  <2>1. wires = {} /\ rounds' = rounds + 1 /\ onBook' = onBook
    BY <1>1 DEF Replace
  <2>2. CASE /\ mine' = Marked /\ doubtful' = doubtful \cup {o.id : o \in old}
             /\ UNCHANGED <<wires, held2nd>>
    BY <2>1, <2>2, PairMarked
  <2>3. ASSUME NEW sides \in SUBSET QuoteSides,
               mine' = Marked \cup {[id |-> o.id, side |-> o.side, price |-> o.price,
                                     state |-> "pending"] : o \in NewLegs(p, sides)},
               IF Meets(NewLegs(p, sides), old)
               THEN wires' = Wire("cancel", old) /\ held2nd' = NewLegs(p, sides)
               ELSE wires' = Wire("cancel", old) \cup Wire("place", NewLegs(p, sides))
                    /\ held2nd' = {},
               UNCHANGED doubtful
        PROVE  BatchInv'
    BY <2>1, <2>3, PairSent
  <2>. QED
    BY <1>1, <2>2, <2>3 DEF Replace
<1>2. ASSUME NEW w \in wires, Taken(w) \/ NotTaken(w)
      PROVE  BatchInv'
  <2>1. CASE Taken(w)
    BY <2>1, WireAnswered DEF Taken
  <2>2. CASE NotTaken(w)
    BY <2>2, WireAnswered DEF NotTaken
  <2>. QED
    BY <1>2, <2>1, <2>2
<1>3. CASE UNCHANGED batchState
  BY <1>3 DEF batchState, BatchInv, BatchTypes, IdsOK, PhaseOK, MeetOK, BookOK, Unsure, InState,
     WireOrders
<1>. QED
  BY <1>1, <1>2, <1>3, LegSettled, BatchDispatched DEF BatchNext

(* The stack's own orders never meet at the venue, in whatever order the     *)
(* requests of a batch arrive there, whatever pairs the price asks for.      *)
THEOREM OwnOrdersDoNotMeet ==
  ASSUME BatchConstants
  PROVE  BatchSpec => []NoOwnCross
BY BatchStart, BatchStep, BatchCross, PTL DEF BatchSpec

-----------------------------------------------------------------------------
(* QuotePause.                                                               *)

(* The two lengths of a pause are counts of seconds, and so is the gap.      *)
PauseConstants == PullSecs \in Nat /\ WindowSecs \in Nat /\ GapSecs \in Nat

Sample == [at : Nat, mid : Mids]
Jobs   == {"pull", "drain", "repeg", "requote"}

(* The types of the variables.                                               *)
PauseTypes ==
  /\ second \in Nat /\ blind \in Nat /\ ticksDue \in Int
  /\ watch \in [samples : Seq(Sample), until : Int, ticked : Int]
  /\ range \in [samples : Seq(Sample), until : Int]
  /\ ordersOn \in BOOLEAN /\ prevOn \in BOOLEAN
  /\ todo \in Seq(Jobs)

(* Nothing but an order whose cancel timed out.                              *)
Dark == job = "idle" /\ resting \in {"none", "uncancelled"}

(* While the breaker for all holds quoting, its pull waits or has been run,  *)
(* and no job has passed the gate since; the stack's own breaker cancels     *)
(* under the mutex; and a stack that has noticed the hold does not quote.    *)
PauseOK ==
  /\ Paused(watch) => Dark \/ Contains(todo, "pull")
  /\ Paused(range) => Dark
  /\ ~prevOn => resting # "quoted"

(* The samples of the breaker for all: none is from before it was blind, and *)
(* there is no gap between two of them.                                      *)
Unbroken(trail) ==
  /\ \A i \in 1 .. Len(trail) - 1 : trail[i + 1].at - trail[i].at <= GapSecs
  /\ \A i \in 1 .. Len(trail) : trail[i].at >= blind
SamplesOK ==
  /\ blind <= second
  /\ Unbroken(watch.samples)

(* The inductive invariant behind PausedIsDark and NoStraddle.               *)
PauseInv == PauseTypes /\ PauseOK /\ SamplesOK

(* A set of numbers that is not empty has a least one.                       *)
LEMMA LeastSecond ==
  ASSUME NEW S \in SUBSET Nat, S # {}
  PROVE  \E n \in S : \A m \in S : n <= m
<1>1. PICK n \in S : \A m \in S : ~ (<<m, n>> \in OpToRel(<, Nat))
  BY NatLessThanWellFounded, WFMin
<1>2. \A m \in S : ~ (m < n)
  BY <1>1, Zenon DEF OpToRel
<1>. QED
  BY <1>2

(* What a sample does to a breaker: the newest is the last, the old ones are *)
(* gone from the front.                                                      *)
LEMMA PushedSamples ==
  ASSUME PauseConstants, PauseTypes, NEW trail \in Seq(Sample), NEW mid \in Mids
  PROVE  LET now  == Append(trail, [at |-> second, mid |-> mid])
             kept == SubSeq(now, Recent(now), Len(now)) IN
         /\ kept \in Seq(Sample)
         /\ (Unbroken(trail) /\ blind <= second /\ (trail # <<>> => second - Last(trail).at <= GapSecs))
              => Unbroken(kept)
<1>. DEFINE now == Append(trail, [at |-> second, mid |-> mid])
            k == Recent(now)
            kept == SubSeq(now, k, Len(now))
<1>1. /\ now \in Seq(Sample) /\ Len(now) = Len(trail) + 1 /\ Len(trail) \in Nat
      /\ now[Len(now)].at = second
      /\ \A i \in 1 .. Len(trail) : now[i] = trail[i]
  BY DEF PauseTypes, Sample
<1>2. \A i \in 1 .. Len(now) : now[i].at \in Nat
  <2>. HIDE DEF now
  <2>1. \A i \in 1 .. Len(now) : now[i] \in Sample
    BY <1>1
  <2>. QED
    BY <2>1 DEF Sample
<1>3. \E i \in 1 .. Len(now) : ~Old(now[i]) /\ \A j \in 1 .. i - 1 : Old(now[j])
  <2>. HIDE DEF now
  <2>1. Len(now) \in 1 .. Len(now) /\ ~Old(now[Len(now)])
    <3>1. Len(now) \in 1 .. Len(now) /\ now[Len(now)].at = second
      BY <1>1
    <3>. QED
      BY <3>1 DEF Old, PauseConstants, PauseTypes
  <2>. DEFINE fresh == {i \in 1 .. Len(now) : ~Old(now[i])}
  <2>2. fresh # {} /\ fresh \in SUBSET Nat
    BY <1>1, <2>1
  <2>3. PICK i \in fresh : \A j \in fresh : i <= j
    BY <2>2, LeastSecond
  <2>. QED
    BY <1>1, <2>3
<1>4. k \in 1 .. Len(now)
  BY <1>3 DEF Recent
<1>. HIDE DEF now, k
<1>5. /\ kept \in Seq(Sample) /\ Len(kept) = Len(now) - k + 1
      /\ \A i \in 1 .. Len(kept) : kept[i] = now[i + k - 1]
  BY <1>1, <1>4
<1>. HIDE DEF kept
<1>6. ASSUME Unbroken(trail), blind <= second, trail # <<>> => second - Last(trail).at <= GapSecs
      PROVE  Unbroken(kept)
  <2>1. ASSUME NEW i \in 1 .. Len(now)
        PROVE  now[i].at >= blind
    <3>1. CASE i = Len(now)
      BY <1>1, <1>6, <3>1
    <3>2. CASE i # Len(now)
      <4>1. i \in 1 .. Len(trail) /\ now[i] = trail[i]
        BY <1>1, <3>2
      <4>. QED
        BY <1>6, <4>1 DEF Unbroken
    <3>. QED
      BY <3>1, <3>2
  <2>2. ASSUME NEW i \in 1 .. Len(now) - 1
        PROVE  now[i + 1].at - now[i].at <= GapSecs
    <3>1. CASE i = Len(trail)
      <4>1. trail # <<>> /\ Last(trail) = now[i]
        BY <1>1, <2>2, <3>1 DEF Last
      <4>. QED
        BY <1>1, <1>6, <3>1, <4>1
    <3>2. CASE i # Len(trail)
      <4>1. i \in 1 .. Len(trail) - 1 /\ i + 1 \in 1 .. Len(trail) /\ i \in 1 .. Len(trail)
        BY <1>1, <2>2, <3>2
      <4>. QED
        BY <1>1, <1>6, <4>1 DEF Unbroken
    <3>. QED
      BY <3>1, <3>2
  <2>3. \A i \in 1 .. Len(kept) - 1 : kept[i + 1].at - kept[i].at <= GapSecs
    <3>1. SUFFICES ASSUME NEW i \in 1 .. Len(kept) - 1
                   PROVE  kept[i + 1].at - kept[i].at <= GapSecs
      OBVIOUS
    <3>. DEFINE j == i + k - 1
    <3>2. j \in 1 .. Len(now) - 1 /\ i \in 1 .. Len(kept) /\ i + 1 \in 1 .. Len(kept)
      BY <1>1, <1>4, <1>5
    <3>3. kept[i] = now[j] /\ kept[i + 1] = now[(i + 1) + k - 1]
      BY <1>5, <3>2
    <3>4. (i + 1) + k - 1 = j + 1
      BY <1>1, <1>4, <1>5
    <3>. QED
      BY <2>2, <3>2, <3>3, <3>4
  <2>4. \A i \in 1 .. Len(kept) : kept[i].at >= blind
    BY <1>1, <1>4, <1>5, <2>1
  <2>. QED
    BY <2>3, <2>4 DEF Unbroken
<1>. QED
  BY <1>5, <1>6 DEF now, k, kept

(* At the start nothing is sampled, queued or resting.                       *)
LEMMA PauseStart ==
  ASSUME PauseConstants, PauseInit
  PROVE  PauseInv
<1>1. PauseTypes
  BY DEF PauseInit, PauseTypes
<1>2. PauseOK
  BY DEF PauseInit, PauseOK, Paused
<1>3. SamplesOK
  BY DEF PauseInit, SamplesOK, Unbroken
<1>. QED
  BY <1>1, <1>2, <1>3 DEF PauseInv

(* A breaker that takes a sample keeps its deadline, one that trips sets it. *)
LEMMA PushedBreaker ==
  ASSUME PauseConstants, PauseTypes, NEW mid \in Mids
  PROVE  /\ /\ PushSample(range, mid) \in [samples : Seq(Sample), until : Int]
            /\ PushSample(range, mid).until = range.until
            /\ Tripped(PushSample(range, mid)) \in [samples : Seq(Sample), until : Int]
            /\ Tripped(range) \in [samples : Seq(Sample), until : Int]
         /\ \A w \in [samples : Seq(Sample), until : Int, ticked : Int] :
              /\ PushSample(w, mid) \in [samples : Seq(Sample), until : Int, ticked : Int]
              /\ PushSample(w, mid).until = w.until
              /\ Tripped(PushSample(w, mid)) \in [samples : Seq(Sample), until : Int, ticked : Int]
              /\ Tripped(PushSample(w, mid)).samples = PushSample(w, mid).samples
              /\ (Unbroken(w.samples) /\ blind <= second
                    /\ (w.samples # <<>> => second - Last(w.samples).at <= GapSecs))
                   => Unbroken(PushSample(w, mid).samples)
<1>. DEFINE kept(trail) == SubSeq(Append(trail, [at |-> second, mid |-> mid]),
                                Recent(Append(trail, [at |-> second, mid |-> mid])),
                                Len(Append(trail, [at |-> second, mid |-> mid])))
<1>1. \A trail \in Seq(Sample) :
        /\ kept(trail) \in Seq(Sample)
        /\ (Unbroken(trail) /\ blind <= second /\ (trail # <<>> => second - Last(trail).at <= GapSecs))
             => Unbroken(kept(trail))
  BY PushedSamples
<1>2. /\ PushSample(range, mid) = [range EXCEPT !.samples = kept(range.samples)]
      /\ \A w : PushSample(w, mid) = [w EXCEPT !.samples = kept(w.samples)]
  BY DEF PushSample
<1>. HIDE DEF kept
<1>3. second \in Nat /\ range \in [samples : Seq(Sample), until : Int]
  BY DEF PauseTypes
<1>4. \A b \in [samples : Seq(Sample), until : Int] :
        Tripped(b) \in [samples : Seq(Sample), until : Int]
  BY <1>3 DEF Tripped, PauseConstants
<1>5. \A b \in [samples : Seq(Sample), until : Int, ticked : Int] :
        /\ Tripped(b) \in [samples : Seq(Sample), until : Int, ticked : Int]
        /\ Tripped(b).samples = b.samples
  BY <1>3, SMTT(30) DEF Tripped, PauseConstants
<1>6. /\ PushSample(range, mid) \in [samples : Seq(Sample), until : Int]
      /\ PushSample(range, mid).until = range.until
  BY <1>1, <1>2, <1>3
<1>7. ASSUME NEW w \in [samples : Seq(Sample), until : Int, ticked : Int]
      PROVE  /\ PushSample(w, mid) \in [samples : Seq(Sample), until : Int, ticked : Int]
             /\ PushSample(w, mid).until = w.until
             /\ PushSample(w, mid).samples = kept(w.samples)
  BY <1>1, <1>2, <1>7
<1>. QED
  BY <1>1, <1>3, <1>4, <1>5, <1>6, <1>7

(* The sample jobs of the breaker for all. A breach queues the pull.         *)
LEMMA SampleStep ==
  ASSUME PauseConstants, PauseInv,
         \/ TickDisabled \/ TickFailsOpen \/ TickInvalid
         \/ \E mid \in Mids : TickSample(mid)
  PROVE  PauseInv' /\ BreachContiguous
<1>. USE DEF PauseInv
<1>. DEFINE Watch == [samples : Seq(Sample), until : Int, ticked : Int]
<1>1. /\ second \in Nat /\ blind \in Nat /\ ticksDue \in Int /\ watch \in Watch
      /\ todo \in Seq(Jobs) /\ blind <= second /\ Unbroken(watch.samples)
  BY DEF PauseTypes, SamplesOK
<1>2. /\ Ticked(watch) \in Watch /\ Ticked(watch).until = watch.until
      /\ Ticked(watch).samples = watch.samples
  BY <1>1 DEF Ticked
<1>0. ASSUME NEW w \in Watch
      PROVE  LET emptied == [w EXCEPT !.samples = <<>>] IN
             emptied \in Watch /\ emptied.until = w.until /\ emptied.samples = <<>>
  <2>1. <<>> \in Seq(Sample)
    OBVIOUS
  <2>. QED
    BY <2>1
<1>3. CASE TickDisabled \/ TickInvalid
  <2>1. /\ watch' = Ticked(watch) /\ ticksDue' = ticksDue - 1
        /\ UNCHANGED <<second, blind, range, ordersOn, prevOn, todo, job, resting>>
    BY <1>3 DEF TickDisabled, TickInvalid, SampleDue
  <2>2. PauseTypes'
    BY <1>1, <1>2, <2>1 DEF PauseTypes
  <2>3. PauseOK' /\ SamplesOK'
    BY <1>1, <1>2, <2>1 DEF PauseOK, SamplesOK, Paused, Dark, Unbroken
  <2>. QED
    BY <1>2, <2>1, <2>2, <2>3 DEF BreachContiguous
<1>4. CASE TickFailsOpen
  <2>1. /\ watch' = [Ticked(watch) EXCEPT !.samples = <<>>] /\ ticksDue' = ticksDue - 1
        /\ blind' = second
        /\ UNCHANGED <<second, range, ordersOn, prevOn, todo, job, resting>>
    BY <1>4 DEF TickFailsOpen, SampleDue
  <2>2. watch' \in Watch /\ watch'.until = watch.until /\ watch'.samples = <<>>
    BY <1>0, <1>2, <2>1
  <2>3. PauseTypes'
    BY <1>1, <2>1, <2>2 DEF PauseTypes
  <2>4. PauseOK' /\ SamplesOK'
    BY <1>1, <2>1, <2>2 DEF PauseOK, SamplesOK, Paused, Dark, Unbroken
  <2>. QED
    BY <2>2, <2>3, <2>4 DEF BreachContiguous
<1>5. ASSUME NEW mid \in Mids, TickSample(mid)
      PROVE  PauseInv' /\ BreachContiguous
  <2>. DEFINE open == Ticked(Window)
              pushed == PushSample(open, mid)
  <2>1. /\ IF Breaches(pushed) THEN watch' = Tripped(pushed) /\ todo' = Append(todo, "pull")
           ELSE watch' = pushed /\ UNCHANGED todo
        /\ ticksDue' = ticksDue - 1
        /\ UNCHANGED <<second, blind, range, ordersOn, prevOn, job, resting>>
    BY <1>5 DEF TickSample, SampleDue, PullQueued
  <2>2. /\ Window \in Watch /\ Window.until = watch.until
        /\ Window.samples \in {watch.samples, <<>>}
        /\ Window.samples # <<>> => ~(second - Last(Window.samples).at > GapSecs)
    BY <1>0, <1>1 DEF Window
  <2>3. open \in Watch /\ open.until = watch.until /\ open.samples = Window.samples
    BY <1>1, <2>2, SMTT(30) DEF Ticked
  <2>4. open.samples # <<>> => second - Last(open.samples).at <= GapSecs
    <3>1. ASSUME open.samples # <<>>
          PROVE  Last(open.samples).at \in Int
      <4>. DEFINE trail == open.samples
      <4>1. trail \in Seq(Sample) /\ trail # <<>>
        BY <2>3, <3>1
      <4>. HIDE DEF trail
      <4>2. Last(trail) \in Sample
        BY <4>1 DEF Last
      <4>3. Last(trail).at \in Int
        BY <4>2 DEF Sample
      <4>. QED
        BY <4>3 DEF trail
    <3>. QED
      BY <1>1, <2>2, <2>3, <3>1 DEF PauseConstants
  <2>5. Unbroken(open.samples)
    <3>1. Unbroken(<<>>)
      BY DEF Unbroken
    <3>. QED
      BY <1>1, <2>2, <2>3, <3>1
  <2>. HIDE DEF open
  <2>6. /\ pushed \in Watch /\ pushed.until = watch.until /\ Unbroken(pushed.samples)
        /\ Tripped(pushed) \in Watch /\ Tripped(pushed).samples = pushed.samples
    BY <1>1, <2>3, <2>4, <2>5, PushedBreaker
  <2>. HIDE DEF pushed
  <2>7. /\ todo' \in Seq(Jobs) /\ watch' \in Watch /\ watch'.samples = pushed.samples
        /\ \/ watch'.until = watch.until /\ todo' = todo
           \/ Contains(todo, "pull")'
    <3>1. CASE Breaches(pushed)
      <4>1. todo' = Append(todo, "pull") /\ watch' = Tripped(pushed)
        BY <2>1, <3>1
      <4>2. todo' \in Seq(Jobs) /\ Len(todo') \in 1 .. Len(todo') /\ todo'[Len(todo')] = "pull"
        BY <1>1, <4>1 DEF Jobs
      <4>. QED
        BY <2>6, <4>1, <4>2 DEF Contains
    <3>. QED
      BY <1>1, <2>1, <2>6, <3>1
  <2>8. PauseTypes'
    BY <1>1, <2>1, <2>7 DEF PauseTypes
  <2>9. PauseOK'
    BY <1>1, <2>1, <2>7 DEF PauseOK, Paused, Dark
  <2>10. Unbroken(watch.samples)'
    BY <2>1, <2>6, <2>7 DEF Unbroken
  <2>. QED
    BY <1>1, <2>1, <2>8, <2>9, <2>10 DEF SamplesOK, BreachContiguous, Unbroken
<1>. QED
  BY <1>3, <1>4, <1>5

(* A pull that waits still waits when the worker takes another job, or when  *)
(* jobs are added behind it.                                                 *)
LEMMA PullWaits ==
  ASSUME NEW trail \in Seq(Jobs), NEW kind \in Jobs
  PROVE  /\ Append(trail, kind) \in Seq(Jobs)
         /\ Contains(trail, "pull") => Contains(Append(trail, kind), "pull")
         /\ trail # <<>> => Tail(trail) \in Seq(Jobs)
         /\ trail # <<>> /\ Head(trail) # "pull" /\ Contains(trail, "pull") => Contains(Tail(trail), "pull")
<1>1. /\ Len(trail) \in Nat /\ Append(trail, kind) \in Seq(Jobs)
      /\ Len(Append(trail, kind)) = Len(trail) + 1
      /\ \A i \in 1 .. Len(trail) : Append(trail, kind)[i] = trail[i]
  OBVIOUS
<1>2. Contains(trail, "pull") => Contains(Append(trail, kind), "pull")
  BY <1>1 DEF Contains
<1>3. ASSUME trail # <<>>
      PROVE  /\ Tail(trail) \in Seq(Jobs) /\ Len(Tail(trail)) = Len(trail) - 1
             /\ \A i \in 1 .. Len(trail) - 1 : Tail(trail)[i] = trail[i + 1]
             /\ Head(trail) = trail[1]
  BY <1>3
<1>4. ASSUME trail # <<>>, Head(trail) # "pull", Contains(trail, "pull")
      PROVE  Contains(Tail(trail), "pull")
  <2>1. PICK i \in 1 .. Len(trail) : trail[i] = "pull"
    BY <1>4 DEF Contains
  <2>2. i - 1 \in 1 .. Len(Tail(trail)) /\ Tail(trail)[i - 1] = "pull"
    BY <1>1, <1>3, <1>4, <2>1
  <2>. QED
    BY <2>2 DEF Contains
<1>. QED
  BY <1>1, <1>2, <1>3, <1>4

(* The steps that touch neither breaker.                                     *)
LEMMA UnwatchedStep ==
  ASSUME PauseInv, watch' = watch, blind' = blind, PauseTypes', second' \in {second, second + 1},
         PauseOK'
  PROVE  PauseInv' /\ BreachContiguous
BY DEF PauseInv, PauseTypes, SamplesOK, Unbroken, BreachContiguous

(* The clock, the configuration, and jobs that are queued.                   *)
LEMMA OutsideStep ==
  ASSUME PauseInv, \/ Second \/ Configure \/ NoticeHold \/ LegTaken
                   \/ \E kind \in {"drain", "repeg", "requote"} : QueueJob(kind)
  PROVE  PauseInv' /\ BreachContiguous
<1>. USE DEF PauseInv
<1>1. CASE Second
  <2>1. PauseTypes'
    BY <1>1 DEF Second, PauseTypes
  <2>2. PauseOK'
    BY <1>1 DEF Second, PauseTypes, PauseOK, Paused, Dark
  <2>. QED
    BY <1>1, <2>1, <2>2, UnwatchedStep DEF Second
<1>2. CASE Configure
  <2>1. PauseTypes' /\ PauseOK'
    BY <1>2 DEF Configure, PauseTypes, PauseOK, Paused, Dark
  <2>. QED
    BY <1>2, <2>1, UnwatchedStep DEF Configure
<1>3. CASE NoticeHold
  <2>1. PauseTypes' /\ PauseOK'
    BY <1>3 DEF NoticeHold, Noticed, PauseTypes, PauseOK, Paused, Dark
  <2>. QED
    BY <1>3, <2>1, UnwatchedStep DEF NoticeHold
<1>4. CASE LegTaken
  <2>1. PauseTypes' /\ PauseOK'
    BY <1>4 DEF LegTaken, PauseTypes, PauseOK, Paused, Dark
  <2>. QED
    BY <1>4, <2>1, UnwatchedStep DEF LegTaken
<1>5. ASSUME NEW kind \in {"drain", "repeg", "requote"}, QueueJob(kind)
      PROVE  PauseInv' /\ BreachContiguous
  <2>1. /\ todo' = Append(todo, kind)
        /\ UNCHANGED <<breaker, second, ticksDue, watch, range, blind, ordersOn, prevOn, job, resting>>
    BY <1>5 DEF QueueJob
  <2>2. todo' \in Seq(Jobs) /\ (Contains(todo, "pull") => Contains(todo', "pull"))
    BY <2>1, PullWaits DEF PauseTypes, Jobs
  <2>3. PauseTypes' /\ PauseOK'
    BY <2>1, <2>2 DEF PauseTypes, PauseOK, Paused, Dark, Contains
  <2>. QED
    BY <2>1, <2>3, UnwatchedStep
<1>. QED
  BY <1>1, <1>2, <1>3, <1>4, <1>5

(* The jobs that run: they place only where a pull still waits, or where     *)
(* nothing holds quoting.                                                    *)
LEMMA JobStep ==
  ASSUME PauseInv, Replaces \/ PlacesLeg \/ GivesUp
  PROVE  PauseInv' /\ BreachContiguous
<1>. USE DEF PauseInv
<1>1. CASE Replaces
  <2>1. PauseTypes' /\ PauseOK'
    BY <1>1 DEF Replaces, Cancelled, PauseTypes, PauseOK, Paused, Dark
  <2>. QED
    BY <1>1, <2>1, UnwatchedStep DEF Replaces
<1>2. CASE PlacesLeg
  <2>1. PauseTypes' /\ PauseOK'
    BY <1>2 DEF PlacesLeg, PauseTypes, PauseOK, Paused, Dark
  <2>. QED
    BY <1>2, <2>1, UnwatchedStep DEF PlacesLeg
<1>3. CASE GivesUp
  <2>1. PauseTypes' /\ PauseOK'
    BY <1>3 DEF GivesUp, PauseTypes, PauseOK, Paused, Dark
  <2>. QED
    BY <1>3, <2>1, UnwatchedStep DEF GivesUp
<1>. QED
  BY <1>1, <1>2, <1>3

(* The worker takes a job: a pull takes what rests, every other job ends or  *)
(* passes the gate, and the stack's own breaker cancels before it holds.     *)
LEMMA WorkerStep ==
  ASSUME PauseConstants, PauseInv,
         \/ Pull
         \/ \E mid \in Mids : CancelFirst(mid) \/ CycleStarts(mid)
         \/ \E kind \in {"repeg", "requote"} : JobStarts(kind)
  PROVE  PauseInv' /\ BreachContiguous
<1>. USE DEF PauseInv
<1>1. ASSUME NEW kind, Next1(kind)
      PROVE  /\ job = "idle" /\ Tail(todo) \in Seq(Jobs)
             /\ kind # "pull" /\ Contains(todo, "pull") => Contains(Tail(todo), "pull")
  BY <1>1, PullWaits DEF Next1, PauseTypes, Jobs
<1>2. CASE Pull
  <2>1. /\ job = "idle" /\ todo' = Tail(todo) /\ todo' \in Seq(Jobs) /\ resting' \in Cancelled(resting)
        /\ UNCHANGED <<breaker, second, ticksDue, watch, range, blind, ordersOn, prevOn, job>>
    BY <1>1, <1>2 DEF Pull, Next1
  <2>2. PauseTypes'
    BY <2>1 DEF PauseTypes
  <2>3. PauseOK'
    BY <2>1 DEF PauseOK, Paused, Dark, Cancelled
  <2>. QED
    BY <2>1, <2>2, <2>3, UnwatchedStep
<1>3. ASSUME NEW mid \in Mids
      PROVE  /\ Sampled(mid) \in [samples : Seq(Sample), until : Int]
             /\ Sampled(mid).until = range.until
             /\ Tripped(Sampled(mid)) \in [samples : Seq(Sample), until : Int]
  BY <1>3, PushedBreaker DEF Sampled, PauseTypes
<1>4. ASSUME NEW mid \in Mids, CancelFirst(mid)
      PROVE  PauseInv' /\ BreachContiguous
  <2>1. /\ Next1("drain") /\ range' = Sampled(mid) /\ resting' \in Cancelled(resting) /\ resting # "none"
        /\ UNCHANGED <<breaker, second, ticksDue, watch, blind, ordersOn, prevOn>>
        /\ \/ todo' = Tail(todo) /\ job' = job
           \/ todo' = Append(Tail(todo), "repeg") /\ job' = job
           \/ todo' = Tail(todo) /\ MayPlace
    <3>1. Next1("drain") /\ Tail(todo) \in Seq(Jobs)
      BY <1>1, <1>4 DEF CancelFirst
    <3>2. Tail(todo) \o <<"repeg">> = Append(Tail(todo), "repeg") /\ Tail(todo) \o <<>> = Tail(todo)
      BY <3>1 DEF Jobs
    <3>. QED
      BY <1>4, <3>1, <3>2 DEF CancelFirst
  <2>2. /\ todo' \in Seq(Jobs) /\ job = "idle"
        /\ Contains(todo, "pull") => Contains(todo', "pull")
    <3>1. /\ job = "idle" /\ Tail(todo) \in Seq(Jobs)
          /\ Contains(todo, "pull") => Contains(Tail(todo), "pull")
      BY <1>1, <2>1
    <3>2. /\ Append(Tail(todo), "repeg") \in Seq(Jobs)
          /\ Contains(Tail(todo), "pull") => Contains(Append(Tail(todo), "repeg"), "pull")
      BY <3>1, PullWaits DEF Jobs
    <3>3. CASE todo' = Tail(todo)
      BY <3>1, <3>3
    <3>4. CASE todo' = Append(Tail(todo), "repeg")
      BY <3>1, <3>2, <3>4
    <3>. QED
      BY <2>1, <3>3, <3>4
  <2>3. PauseTypes'
    BY <1>3, <2>1, <2>2 DEF PauseTypes
  <2>4. Paused(watch)' = Paused(watch) /\ Paused(range)' = Paused(range)
    BY <1>3, <2>1 DEF Paused
  <2>5. PauseOK'
    BY <2>1, <2>2, <2>4 DEF PauseOK, Dark, Cancelled, MayPlace, NotPaused, Contains
  <2>. QED
    BY <2>1, <2>3, <2>5, UnwatchedStep
<1>5. ASSUME NEW mid \in Mids, CycleStarts(mid)
      PROVE  PauseInv' /\ BreachContiguous
  <2>. DEFINE b == Sampled(mid)
              r == Noticed(resting)
  <2>1. /\ Next1("drain") /\ todo' = Tail(todo) /\ prevOn' = ordersOn
        /\ UNCHANGED <<breaker, second, ticksDue, watch, blind, ordersOn>>
        /\ \/ ~ordersOn /\ range' = b /\ resting' = r /\ job' = job
           \/ (Paused(watch) \/ Paused(b)) /\ range' = b /\ resting' = r /\ job' = job
           \/ ordersOn /\ ~Paused(watch) /\ range' = Tripped(b) /\ resting' \in Cancelled(r) /\ job' = job
           \/ ordersOn /\ ~Paused(watch) /\ ~Paused(b) /\ range' = b /\ resting' = r
    BY <1>5 DEF CycleStarts
  <2>2. /\ todo' \in Seq(Jobs) /\ job = "idle"
        /\ Contains(todo, "pull") => Contains(todo', "pull")
    BY <1>1, <2>1
  <2>3. /\ b \in [samples : Seq(Sample), until : Int] /\ b.until = range.until
        /\ Tripped(b) \in [samples : Seq(Sample), until : Int]
    BY <1>3
  <2>. HIDE DEF b
  <2>4. PauseTypes'
    BY <2>1, <2>2, <2>3 DEF PauseTypes
  <2>5. Paused(watch)' = Paused(watch) /\ Paused(b) = Paused(range)
    BY <2>1, <2>3 DEF Paused
  <2>6. range' = b => Paused(range)' = Paused(range)
    BY <2>1, <2>3 DEF Paused
  <2>7. /\ ordersOn => prevOn'
        /\ ~ordersOn => ~prevOn' /\ r # "quoted"
        /\ resting \in {"none", "uncancelled"} => r \in {"none", "uncancelled"}
    BY <2>1 DEF PauseOK, Noticed, PauseTypes
  <2>. HIDE DEF r
  <2>8. PauseOK'
    <3>1. CASE ~ordersOn /\ range' = b /\ resting' = r /\ job' = job
      BY <2>1, <2>2, <2>5, <2>6, <2>7, <3>1 DEF PauseOK, Dark, Contains
    <3>2. CASE (Paused(watch) \/ Paused(b)) /\ range' = b /\ resting' = r /\ job' = job
      BY <2>1, <2>2, <2>5, <2>6, <2>7, <3>2 DEF PauseOK, Dark, Contains
    <3>3. CASE ordersOn /\ ~Paused(watch) /\ range' = Tripped(b) /\ resting' \in Cancelled(r) /\ job' = job
      BY <2>1, <2>2, <2>5, <2>7, <3>3 DEF PauseOK, Dark, Cancelled
    <3>4. CASE ordersOn /\ ~Paused(watch) /\ ~Paused(b) /\ range' = b /\ resting' = r
      BY <2>1, <2>5, <2>6, <2>7, <3>4 DEF PauseOK
    <3>. QED
      BY <2>1, <3>1, <3>2, <3>3, <3>4
  <2>. QED
    BY <2>1, <2>4, <2>8, UnwatchedStep
<1>6. ASSUME NEW kind \in {"repeg", "requote"}, JobStarts(kind)
      PROVE  PauseInv' /\ BreachContiguous
  <2>1. /\ Next1(kind) /\ todo' = Tail(todo) /\ job' = IF MayPlace THEN kind ELSE "idle"
        /\ UNCHANGED <<breaker, second, ticksDue, watch, range, blind, ordersOn, prevOn, resting>>
    BY <1>6 DEF JobStarts
  <2>2. /\ todo' \in Seq(Jobs) /\ job = "idle"
        /\ Contains(todo, "pull") => Contains(todo', "pull")
    BY <1>1, <2>1
  <2>3. PauseTypes'
    BY <2>1, <2>2 DEF PauseTypes
  <2>4. PauseOK'
    BY <2>1, <2>2 DEF PauseOK, Paused, Dark, MayPlace, NotPaused, Contains
  <2>. QED
    BY <2>1, <2>3, <2>4, UnwatchedStep
<1>. QED
  BY <1>2, <1>4, <1>5, <1>6

(* Every step keeps the invariant, and a breach sees unbroken samples.       *)
LEMMA PauseStep ==
  ASSUME PauseConstants, PauseInv, [PauseNext]_pauseState
  PROVE  PauseInv' /\ (BreachContiguous \/ UNCHANGED pauseState)
<1>1. CASE UNCHANGED pauseState
  <2>1. PauseTypes' /\ PauseOK'
    BY <1>1 DEF pauseState, PauseInv, PauseTypes, PauseOK, Paused, Dark
  <2>. QED
    BY <1>1, <2>1, UnwatchedStep DEF pauseState
<1>2. CASE PauseNext
  BY <1>2, SampleStep, OutsideStep, JobStep, WorkerStep DEF PauseNext
<1>. QED
  BY <1>1, <1>2

(* While quoting is paused, or the stack has noticed the hold, nothing of    *)
(* the stack rests once its worker has run the pull, whatever the lengths of *)
(* the windows, and however many jobs wait.                                  *)
THEOREM PausedStaysDark ==
  ASSUME PauseConstants
  PROVE  PauseSpec => []PausedIsDark
<1>1. PauseInv => PausedIsDark
  BY DEF PauseInv, PauseOK, PausedIsDark, Dark, NotPaused
<1>. QED
  BY <1>1, PauseStart, PauseStep, PTL DEF PauseSpec

(* The breaker for all never trips on samples with a gap between them, or    *)
(* from before it was blind.                                                 *)
THEOREM BreachesAreContiguous ==
  ASSUME PauseConstants
  PROVE  PauseSpec => NoStraddle
<1>1. PauseInv /\ [PauseNext]_pauseState => PauseInv' /\ [BreachContiguous]_pauseState
  BY PauseStep
<1>. QED
  BY <1>1, PauseStart, PTL DEF PauseSpec, NoStraddle

-----------------------------------------------------------------------------
(* DeskSeed.                                                                 *)

(* Orders are numbered, and the desk's are the first.                        *)
SeedConstants == MaxGen \in Nat \ {0}

Quotes == {"ADOPTED", "CANCEL"}
Names  == [BookSides -> 0 .. MaxGen]

(* The types of the variables.                                               *)
SeedTypes ==
  /\ at \in [SeedOrders -> {"none", "way", "rest", "gone"}]
  /\ row \in [SeedOrders -> {"none", "live", "done"}]
  /\ held \in [SeedOrders -> {"none", "PLACE"} \cup Quotes]
  /\ tops \in Names /\ named \in Names /\ manual \in Names
  /\ acked \subseteq SeedOrders /\ inWindow \subseteq SeedOrders /\ givenUp \subseteq SeedOrders

(* A side has one leg at most.                                               *)
OneLeg(h) == \A o, k \in SeedOrders : o[1] = k[1] /\ h[o] # "none" /\ h[k] # "none" => o = k

(* An order is on its way just while a leg waits for its answer; a row is    *)
(* final only when the order is gone, or was given up.                       *)
WayOK(o) ==
  /\ at[o] = "way" <=> held[o] = "PLACE"
  /\ held[o] = "PLACE" => row[o] = "live"
  /\ row[o] = "done" => at[o] = "gone" \/ o \in givenUp
(* An order that rests and was not given up is alive as its side's top of    *)
(* book, or is one that the desk placed.                                     *)
RestOK(o) ==
  at[o] = "rest" /\ o \notin givenUp =>
    IF held[o] = "none" THEN o[2] = 1 ELSE tops[o[1]] = o[2] /\ row[o] = "live"

(* The inductive invariant behind AdoptsCurrent.                             *)
SeedInv ==
  /\ SeedTypes /\ OneLeg(held)
  /\ \A o \in SeedOrders : WayOK(o) /\ RestOK(o)

-----------------------------------------------------------------------------
(* With one leg on a side that has an exchange id, that leg is the top.      *)
LEMMA TopOfOne ==
  ASSUME SeedConstants, NEW h, OneLeg(h)
  PROVE  /\ TopsOf(h) \in Names
         /\ \A o \in SeedOrders : h[o] \in Quotes => TopsOf(h)[o[1]] = o[2]
<1>. DEFINE legsOf(s) == {g \in 1 .. MaxGen : h[<<s, g>>] \in Quotes}
            pick(s) == CHOOSE g \in legsOf(s) : \A k \in legsOf(s) : g <= k
<1>1. \A s \in BookSides : TopsOf(h)[s] = IF legsOf(s) = {} THEN 0 ELSE pick(s)
  BY DEF TopsOf, Quotes
<1>2. TopsOf(h) = [s \in BookSides |-> TopsOf(h)[s]]
  BY DEF TopsOf
<1>3. \A s \in BookSides : \A g, k \in legsOf(s) : g = k /\ <<s, g>> \in SeedOrders
  <2>1. SUFFICES ASSUME NEW s \in BookSides, NEW g \in legsOf(s), NEW k \in legsOf(s)
                 PROVE  g = k /\ <<s, g>> \in SeedOrders
    OBVIOUS
  <2>2. <<s, g>> \in SeedOrders /\ <<s, k>> \in SeedOrders
    BY DEF SeedOrders
  <2>3. <<s, g>> = <<s, k>>
    BY <2>2 DEF OneLeg, Quotes
  <2>. QED
    BY <2>2, <2>3
<1>4. \A s \in BookSides : legsOf(s) \subseteq 1 .. MaxGen
  OBVIOUS
<1>5. \A s \in BookSides : legsOf(s) # {} => pick(s) \in legsOf(s)
  <2>1. SUFFICES ASSUME NEW s \in BookSides, legsOf(s) # {}
                 PROVE  \E g \in legsOf(s) : \A k \in legsOf(s) : g <= k
    OBVIOUS
  <2>2. PICK g \in legsOf(s) : TRUE
    BY <2>1
  <2>3. g \in Int /\ g <= g
    BY <1>4, <2>2 DEF SeedConstants
  <2>. QED
    BY <1>3, <2>2, <2>3
<1>6. \A s \in BookSides : legsOf(s) # {} => pick(s) # 0 /\ pick(s) \in 0 .. MaxGen
  <2>1. \A g \in 1 .. MaxGen : g # 0 /\ g \in 0 .. MaxGen
    BY DEF SeedConstants
  <2>. HIDE DEF legsOf, pick
  <2>. QED
    BY <1>4, <1>5, <2>1
<1>7. TopsOf(h) \in Names
  <2>1. 0 \in 0 .. MaxGen
    BY DEF SeedConstants
  <2>2. \A s \in BookSides : TopsOf(h)[s] \in 0 .. MaxGen
    BY <1>1, <1>6, <2>1
  <2>. QED
    BY <1>2, <2>2 DEF Names
<1>8. \A o \in SeedOrders : h[o] \in Quotes => TopsOf(h)[o[1]] = o[2]
  <2>1. SUFFICES ASSUME NEW o \in SeedOrders, h[o] \in Quotes
                 PROVE  TopsOf(h)[o[1]] = o[2]
    OBVIOUS
  <2>2. o[1] \in BookSides /\ o[2] \in 1 .. MaxGen /\ o = <<o[1], o[2]>>
    BY DEF SeedOrders
  <2>3. o[2] \in legsOf(o[1])
    BY <2>1, <2>2
  <2>. HIDE DEF legsOf, pick
  <2>. QED
    BY <1>1, <1>3, <1>5, <2>2, <2>3
<1>. QED
  BY <1>7, <1>8

(* The desk's pair rests and is named.                                       *)
LEMMA SeedStart ==
  ASSUME SeedConstants, SeedInit
  PROVE  SeedInv
<1>1. SeedTypes
  BY DEF SeedInit, SeedTypes, SeedConstants, Names, NoNames
<1>2. OneLeg(held)
  BY DEF SeedInit, OneLeg
<1>3. \A o \in SeedOrders : WayOK(o) /\ RestOK(o)
  BY DEF SeedInit, WayOK, RestOK
<1>. QED
  BY <1>1, <1>2, <1>3 DEF SeedInv

(* Orders, rows and legs that move keep the invariant if those that rest are *)
(* tops, and are alive.                                                      *)
LEMMA SeedMoves ==
  ASSUME SeedConstants, SeedInv, SeedTypes', OneLeg(held'),
         \A o \in SeedOrders : /\ WayOK(o)'
                               /\ at'[o] = "rest" /\ o \notin givenUp' =>
                                    \/ held'[o] = "none" /\ o[2] = 1
                                    \/ held'[o] # "none" /\ row'[o] = "live"
                                       /\ (tops' = TopsOf(held') \/ tops'[o[1]] = o[2])
  PROVE  SeedInv'
<1>1. ASSUME NEW o \in SeedOrders
      PROVE  RestOK(o)'
  <2>1. ASSUME at'[o] = "rest", held'[o] # "none"
        PROVE  held'[o] \in Quotes
    BY <2>1 DEF WayOK, SeedTypes
  <2>. QED
    BY <2>1, TopOfOne DEF RestOK
<1>. QED
  BY <1>1 DEF SeedInv

(* An order is placed, answered, filled or given up.                         *)
LEMMA OrderSteps ==
  ASSUME SeedConstants, SeedInv,
         \/ \E s \in BookSides : PlaceOn(s) \/ SideReset(s)
         \/ \E o \in SeedOrders : AcceptOf(o) \/ AnswerLost(o) \/ FillOf(o)
         \/ WindowEnds \/ FileRead
  PROVE  SeedInv'
<1>. USE DEF SeedInv
<1>1. ASSUME NEW s \in BookSides, PlaceOn(s)
      PROVE  SeedInv'
  <2>1. PICK g \in 1 .. MaxGen :
          /\ at[<<s, g>>] = "none" /\ at' = [at EXCEPT ![<<s, g>>] = "way"]
          /\ row' = [row EXCEPT ![<<s, g>>] = "live"] /\ held' = [held EXCEPT ![<<s, g>>] = "PLACE"]
    BY <1>1 DEF PlaceOn
  <2>. DEFINE o == <<s, g>>
  <2>2. o \in SeedOrders /\ o[1] = s
    BY DEF SeedOrders
  <2>. HIDE DEF o
  <2>3. /\ at' = [at EXCEPT ![o] = "way"] /\ row' = [row EXCEPT ![o] = "live"]
        /\ held' = [held EXCEPT ![o] = "PLACE"] /\ UNCHANGED <<tops, named, manual, acked, inWindow, givenUp>>
    BY <1>1, <2>1 DEF o, PlaceOn
  <2>4. \A k \in SeedOrders : k[1] = s => held[k] = "none"
    BY <1>1 DEF PlaceOn, LegsOn, SeedTypes, Quotes
  <2>5. SeedTypes'
    BY <2>3 DEF SeedTypes
  <2>6. /\ at'[o] = "way" /\ row'[o] = "live" /\ held'[o] = "PLACE"
        /\ \A k \in SeedOrders \ {o} : at'[k] = at[k] /\ row'[k] = row[k] /\ held'[k] = held[k]
    BY <2>2, <2>3 DEF SeedTypes
  <2>7. OneLeg(held')
    BY <2>2, <2>4, <2>6 DEF OneLeg
  <2>8. \A k \in SeedOrders : WayOK(k)' /\ RestOK(k)'
    BY <2>3, <2>6 DEF WayOK, RestOK
  <2>. QED
    BY <2>5, <2>7, <2>8
<1>2. ASSUME NEW s \in BookSides, SideReset(s)
      PROVE  SeedInv'
  <2>1. /\ tops' = [tops EXCEPT ![s] = 0] /\ UNCHANGED <<at, row, held, named, manual, acked, inWindow>>
        /\ givenUp' = givenUp \cup {o \in LegsOn(s, {"ADOPTED", "CANCEL"}) : at[o] = "rest"}
    BY <1>2 DEF SideReset
  <2>2. /\ tops' \in Names /\ tops'[s] = 0 /\ \A t \in BookSides \ {s} : tops'[t] = tops[t]
    BY <2>1 DEF SeedTypes, Names, SeedConstants
  <2>3. SeedTypes'
    BY <2>1, <2>2 DEF SeedTypes, LegsOn
  <2>4. OneLeg(held')
    BY <2>1, <2>2 DEF OneLeg
  <2>5. \A k \in SeedOrders : WayOK(k)'
    BY <2>1 DEF WayOK
  <2>6. ASSUME NEW k \in SeedOrders
        PROVE  RestOK(k)'
    <3>1. k[1] \in BookSides
      BY DEF SeedOrders
    <3>2. CASE k[1] # s
      BY <2>1, <2>2, <3>1, <3>2 DEF RestOK
    <3>3. CASE k[1] = s
      <4>1. held[k] \in Quotes /\ at[k] = "rest" => k \in givenUp'
        BY <2>1, <3>3 DEF LegsOn, Quotes
      <4>2. at[k] = "rest" => held[k] = "none" \/ held[k] \in Quotes
        BY DEF WayOK, SeedTypes
      <4>. QED
        BY <2>1, <4>1, <4>2 DEF RestOK
    <3>. QED
      BY <3>2, <3>3
  <2>. QED
    BY <2>3, <2>4, <2>5, <2>6
<1>3. ASSUME NEW o \in SeedOrders, AcceptOf(o)
      PROVE  SeedInv'
  <2>1. /\ at[o] = "way" /\ held[o] = "PLACE" /\ at' = [at EXCEPT ![o] = "rest"]
        /\ held' = [held EXCEPT ![o] = "ADOPTED"] /\ tops' = TopsOf(held')
        /\ UNCHANGED <<row, manual, acked, inWindow, givenUp>> /\ named' \in {tops', named}
    BY <1>3 DEF AcceptOf
  <2>2. /\ at'[o] = "rest" /\ held'[o] = "ADOPTED"
        /\ \A k \in SeedOrders \ {o} : at'[k] = at[k] /\ held'[k] = held[k]
    BY <2>1 DEF SeedTypes
  <2>3. OneLeg(held')
    BY <2>1, <2>2 DEF OneLeg
  <2>4. SeedTypes'
    <3>1. tops' \in Names
      BY <2>1, <2>3, TopOfOne
    <3>. QED
      BY <2>1, <3>1 DEF SeedTypes, Quotes
  <2>5. row[o] = "live" /\ \A k \in SeedOrders : WayOK(k)'
    BY <2>1, <2>2 DEF WayOK
  <2>. QED
    BY <2>1, <2>2, <2>3, <2>4, <2>5, SeedMoves, ZenonT(30) DEF RestOK
<1>4. ASSUME NEW o \in SeedOrders, AnswerLost(o)
      PROVE  SeedInv'
  <2>1. /\ at[o] = "way" /\ held[o] = "PLACE" /\ at' = [at EXCEPT ![o] = "rest"]
        /\ row' = [row EXCEPT ![o] = "done"] /\ held' = [held EXCEPT ![o] = "none"]
        /\ givenUp' = givenUp \cup {o} /\ UNCHANGED <<tops, named, manual, acked, inWindow>>
    BY <1>4 DEF AnswerLost
  <2>2. /\ at'[o] = "rest" /\ held'[o] = "none" /\ row'[o] = "done"
        /\ \A k \in SeedOrders \ {o} : at'[k] = at[k] /\ held'[k] = held[k] /\ row'[k] = row[k]
    BY <2>1 DEF SeedTypes
  <2>3. OneLeg(held')
    BY <2>1, <2>2 DEF OneLeg
  <2>4. SeedTypes'
    BY <2>1 DEF SeedTypes
  <2>5. \A k \in SeedOrders : WayOK(k)' /\ RestOK(k)'
    BY <2>1, <2>2 DEF WayOK, RestOK
  <2>. QED
    BY <2>3, <2>4, <2>5
<1>5. ASSUME NEW o \in SeedOrders, FillOf(o)
      PROVE  SeedInv'
  <2>1. /\ at[o] = "rest" /\ at' = [at EXCEPT ![o] = "gone"]
        /\ UNCHANGED <<row, held, tops, named, manual, acked, inWindow, givenUp>>
    BY <1>5 DEF FillOf
  <2>2. at'[o] = "gone" /\ \A k \in SeedOrders \ {o} : at'[k] = at[k]
    BY <2>1 DEF SeedTypes
  <2>3. SeedTypes' /\ OneLeg(held')
    BY <2>1 DEF SeedTypes, OneLeg
  <2>4. \A k \in SeedOrders : WayOK(k)' /\ RestOK(k)'
    BY <2>1, <2>2 DEF WayOK, RestOK
  <2>. QED
    BY <2>3, <2>4
<1>6. CASE WindowEnds \/ FileRead
  <2>1. /\ UNCHANGED <<at, row, held, tops, named, acked, givenUp>> /\ manual' \in {manual, named}
        /\ inWindow' \in {inWindow, {}}
    BY <1>6 DEF WindowEnds, FileRead
  <2>2. SeedTypes' /\ OneLeg(held')
    BY <2>1 DEF SeedTypes, OneLeg
  <2>3. \A k \in SeedOrders : WayOK(k)' /\ RestOK(k)'
    BY <2>1 DEF WayOK, RestOK
  <2>. QED
    BY <2>2, <2>3
<1>. QED
  BY <1>1, <1>2, <1>3, <1>4, <1>5, <1>6

(* The stack hears of a fill or of a cancel's answer, moves its quotes, or   *)
(* forgets its legs.                                                         *)
LEMMA StackSteps ==
  ASSUME SeedConstants, SeedInv,
         \/ \E o \in SeedOrders : FillHeard(o) \/ CancelAnswered(o) \/ CancelNoted(o)
         \/ MoveBegins \/ RecoverLegs
  PROVE  SeedInv'
<1>. USE DEF SeedInv
<1>1. ASSUME NEW o \in SeedOrders, FillHeard(o)
      PROVE  SeedInv'
  <2>1. /\ at[o] = "gone" /\ row' = [row EXCEPT ![o] = "done"] /\ tops' = TopsOf(held')
        /\ UNCHANGED <<at, named, manual, acked, inWindow, givenUp>>
    BY <1>1 DEF FillHeard
  <2>2. /\ held' \in [SeedOrders -> {"none", "PLACE"} \cup Quotes]
        /\ \A k \in SeedOrders : \/ held'[k] = held[k]
                                 \/ k = o /\ held'[k] = "none"
                                 \/ held[k] = "ADOPTED" /\ held'[k] = "CANCEL"
    <3>1. CASE held[o] = "none"
      BY <1>1, <3>1 DEF FillHeard, SeedTypes
    <3>2. CASE held[o] # "none"
      <4>. DEFINE opp == LegsOn(Other(o[1]), {"ADOPTED"})
      <4>1. held' = [k \in SeedOrders |-> IF k = o THEN "none" ELSE IF k \in opp THEN "CANCEL" ELSE held[k]]
        BY <1>1, <3>2 DEF FillHeard
      <4>2. \A k \in opp : held[k] = "ADOPTED"
        BY DEF LegsOn
      <4>. HIDE DEF opp
      <4>. QED
        BY <4>1, <4>2 DEF SeedTypes, Quotes
    <3>. QED
      BY <3>1, <3>2
  <2>3. row'[o] = "done" /\ \A k \in SeedOrders \ {o} : row'[k] = row[k]
    BY <2>1 DEF SeedTypes
  <2>4. OneLeg(held')
    BY <2>2 DEF OneLeg
  <2>5. tops' \in Names
    BY <2>1, <2>4, TopOfOne
  <2>6. SeedTypes'
    BY <2>1, <2>2, <2>5 DEF SeedTypes
  <2>7. \A k \in SeedOrders : WayOK(k)'
    BY <2>1, <2>2, <2>3 DEF WayOK
  <2>8. \A k \in SeedOrders :
          at'[k] = "rest" /\ k \notin givenUp' => \/ held'[k] = "none" /\ k[2] = 1
                                                  \/ held'[k] # "none" /\ row'[k] = "live"
    BY <2>1, <2>2, <2>3 DEF RestOK
  <2>. QED
    BY <2>1, <2>4, <2>6, <2>7, <2>8, SeedMoves
<1>2. ASSUME NEW o \in SeedOrders, CancelAnswered(o)
      PROVE  SeedInv'
  <2>1. /\ at[o] = "rest" /\ at' = [at EXCEPT ![o] = "gone"] /\ row' = [row EXCEPT ![o] = "done"]
        /\ held' = [held EXCEPT ![o] = "none"] /\ acked' = acked \cup {o}
        /\ UNCHANGED <<tops, named, manual, inWindow, givenUp>>
    BY <1>2 DEF CancelAnswered
  <2>2. /\ at'[o] = "gone" /\ held'[o] = "none" /\ row'[o] = "done"
        /\ \A k \in SeedOrders \ {o} : at'[k] = at[k] /\ held'[k] = held[k] /\ row'[k] = row[k]
    BY <2>1 DEF SeedTypes
  <2>3. SeedTypes' /\ OneLeg(held')
    BY <2>1, <2>2 DEF SeedTypes, OneLeg
  <2>4. \A k \in SeedOrders : WayOK(k)' /\ RestOK(k)'
    BY <2>1, <2>2 DEF WayOK, RestOK
  <2>. QED
    BY <2>3, <2>4
<1>5. ASSUME NEW o \in SeedOrders, CancelNoted(o)
      PROVE  SeedInv'
  <2>1. /\ UNCHANGED <<at, row, held, named, manual, givenUp>> /\ tops' = TopsOf(held')
        /\ acked' \subseteq acked /\ inWindow' = inWindow \cup {o}
    BY <1>5 DEF CancelNoted
  <2>2. OneLeg(held')
    BY <2>1 DEF OneLeg
  <2>3. SeedTypes'
    <3>1. tops' \in Names
      BY <2>1, <2>2, TopOfOne
    <3>. QED
      BY <2>1, <3>1 DEF SeedTypes
  <2>4. \A k \in SeedOrders : WayOK(k)'
    BY <2>1 DEF WayOK
  <2>5. \A k \in SeedOrders :
          at'[k] = "rest" /\ k \notin givenUp' => \/ held'[k] = "none" /\ k[2] = 1
                                                  \/ held'[k] # "none" /\ row'[k] = "live"
    BY <2>1 DEF RestOK
  <2>. QED
    BY <2>1, <2>2, <2>3, <2>4, <2>5, SeedMoves
<1>3. CASE MoveBegins
  <2>1. /\ held' = [o \in SeedOrders |-> IF held[o] = "ADOPTED" THEN "CANCEL" ELSE held[o]]
        /\ UNCHANGED <<at, row, tops, named, manual, acked, inWindow, givenUp>>
    BY <1>3 DEF MoveBegins
  <2>2. held' \in [SeedOrders -> {"none", "PLACE"} \cup Quotes]
    BY <2>1 DEF SeedTypes, Quotes
  <2>3. \A o \in SeedOrders : /\ held'[o] = "none" <=> held[o] = "none"
                              /\ held'[o] = "PLACE" <=> held[o] = "PLACE"
                              /\ held[o] \in Quotes => held'[o] \in Quotes
    BY <2>1 DEF Quotes
  <2>4. SeedTypes'
    BY <2>1, <2>2 DEF SeedTypes
  <2>5. OneLeg(held')
    BY <2>1, <2>3 DEF OneLeg
  <2>6. \A k \in SeedOrders : WayOK(k)' /\ RestOK(k)'
    BY <2>1, <2>3 DEF WayOK, RestOK
  <2>. QED
    BY <2>4, <2>5, <2>6
<1>4. CASE RecoverLegs
  <2>1. /\ tops = NoNames /\ held' = [o \in SeedOrders |-> "none"]
        /\ \A o \in SeedOrders : held[o] # "PLACE"
        /\ UNCHANGED <<at, row, tops, named, manual, acked, inWindow, givenUp>>
    BY <1>4 DEF RecoverLegs
  <2>2. SeedTypes' /\ OneLeg(held')
    BY <2>1 DEF SeedTypes, OneLeg
  <2>3. ASSUME NEW o \in SeedOrders
        PROVE  WayOK(o)' /\ RestOK(o)'
    <3>1. o[1] \in BookSides /\ o[2] # 0
      BY DEF SeedOrders, SeedConstants
    <3>2. tops[o[1]] # o[2]
      BY <2>1, <3>1 DEF NoNames
    <3>. QED
      BY <2>1, <3>2 DEF WayOK, RestOK
  <2>. QED
    BY <2>2, <2>3
<1>. QED
  BY <1>1, <1>2, <1>3, <1>4, <1>5

(* No order of the stack is newer than its adoption and still its own.       *)
LEMMA AdoptedNewest ==
  ASSUME SeedConstants, SeedInv, MayReseed
  PROVE  /\ \A o \in SeedOrders : at[o] # "way"
         /\ \A o \in SeedOrders : at[o] = "rest" /\ o \notin givenUp => held[o] = "none" /\ o[2] = 1
<1>. USE DEF SeedInv
<1>1. \A o \in SeedOrders : held[o] \notin {"PLACE", "CANCEL"}
  BY DEF MayReseed, Churn
<1>2. ASSUME NEW o \in SeedOrders, at[o] = "rest", o \notin givenUp
      PROVE  held[o] = "none" /\ o[2] = 1
  <2>1. o[1] \in BookSides /\ o[2] \in 1 .. MaxGen /\ o = <<o[1], o[2]>>
    BY DEF SeedOrders
  <2>2. ~ TopIsLive(o[1]) /\ o[2] # 0
    BY <2>1 DEF MayReseed, SeedConstants
  <2>. QED
    BY <1>2, <2>1, <2>2 DEF RestOK, TopIsLive
<1>. QED
  BY <1>1, <1>2 DEF WayOK

(* The stack adopts the orders that the file names.                          *)
LEMMA AdoptStep ==
  ASSUME SeedConstants, SeedInv, Adopt
  PROVE  SeedInv' /\ AdoptionCurrent
<1>. USE DEF SeedInv
<1>. DEFINE detached == {<<s, tops[s]>> : s \in {t \in BookSides : tops[t] # 0}}
            taken    == {<<s, manual[s]>> : s \in {t \in BookSides : manual[t] # 0}}
<1>1. /\ MayReseed /\ UNCHANGED <<at, named, manual, acked, inWindow, givenUp>> /\ tops' = manual
      /\ row' = [o \in SeedOrders |-> IF o \in taken /\ (row[o] = "none" \/ o \in detached) THEN "live"
                                      ELSE IF o \in detached THEN "none" ELSE row[o]]
      /\ held' = [o \in SeedOrders |-> IF o \in taken THEN "ADOPTED" ELSE "none"]
  BY DEF Adopt, Reseed
<1>2. \A o \in taken : o \in SeedOrders /\ manual[o[1]] = o[2] /\ o[1] \in BookSides
  BY DEF SeedTypes, SeedOrders, Names, SeedConstants
<1>4. \A o \in taken : o = <<o[1], o[2]>>
  OBVIOUS
<1>. HIDE DEF detached, taken
<1>5. SeedTypes'
  BY <1>1 DEF SeedTypes, Quotes
<1>6. OneLeg(held')
  BY <1>1, <1>2, <1>4 DEF OneLeg
<1>8. /\ \A o \in SeedOrders : at[o] # "way"
      /\ \A o \in SeedOrders : at[o] = "rest" /\ o \notin givenUp => held[o] = "none" /\ o[2] = 1
  BY <1>1, AdoptedNewest
<1>9. ASSUME NEW o \in SeedOrders
      PROVE  WayOK(o)' /\ RestOK(o)'
  <2>1. row'[o] = "done" => row[o] = "done"
    BY <1>1
  <2>2. WayOK(o)'
    BY <1>1, <1>8, <2>1 DEF WayOK
  <2>3. o \in taken /\ at[o] = "rest" /\ o \notin givenUp => row'[o] = "live"
    <3>1. at[o] = "rest" /\ o \notin givenUp => row[o] # "done"
      BY DEF WayOK
    <3>. QED
      BY <1>1, <3>1 DEF SeedTypes
  <2>4. RestOK(o)'
    BY <1>1, <1>2, <1>8, <2>3 DEF RestOK
  <2>. QED
    BY <2>2, <2>4
<1>10. SeedInv'
  BY <1>5, <1>6, <1>9
<1>11. ASSUME NEW o \in SeedOrders
       PROVE  ~ Superseded(o)
  <2>1. inWindow = {}
    BY <1>1 DEF MayReseed
  <2>2. \A k \in SeedOrders : at[k] \in {"way", "rest"} /\ k \notin givenUp => ~ (k[2] > o[2])
    <3>1. o[2] \in 1 .. MaxGen
      BY DEF SeedOrders
    <3>2. ~ (1 > o[2])
      BY <3>1 DEF SeedConstants
    <3>. QED
      BY <1>8, <3>2
  <2>. QED
    BY <2>1, <2>2 DEF Superseded
<1>. QED
  BY <1>10, <1>11 DEF AdoptionCurrent

(* Every step keeps the invariant, and adopts what is current.               *)
LEMMA SeedStep ==
  ASSUME SeedConstants, SeedInv, [SeedNext]_seedState
  PROVE  SeedInv' /\ AdoptionCurrent
<1>1. CASE UNCHANGED seedState
  <2>1. UNCHANGED <<at, row, held, tops, named, manual, acked, inWindow, givenUp>>
    BY <1>1 DEF seedState
  <2>2. SeedTypes' /\ OneLeg(held') /\ \A o \in SeedOrders : WayOK(o)' /\ RestOK(o)'
    BY <2>1 DEF SeedInv, SeedTypes, OneLeg, WayOK, RestOK
  <2>. QED
    BY <2>1, <2>2 DEF SeedInv, AdoptionCurrent
<1>2. CASE MainAdopts \/ FeedAdopts \/ CycleAdopts
  BY <1>2, AdoptStep DEF MainAdopts, FeedAdopts, CycleAdopts
<1>3. CASE \/ \E s \in BookSides : PlaceOn(s) \/ SideReset(s)
           \/ \E o \in SeedOrders : AcceptOf(o) \/ AnswerLost(o) \/ FillOf(o)
           \/ WindowEnds \/ FileRead
  <2>1. SeedInv'
    BY <1>3, OrderSteps
  <2>2. AdoptionCurrent
    BY <1>3 DEF PlaceOn, SideReset, AcceptOf, AnswerLost, FillOf, WindowEnds, FileRead, AdoptionCurrent,
       SeedInv, SeedTypes
  <2>. QED
    BY <2>1, <2>2
<1>4. CASE \/ \E o \in SeedOrders : FillHeard(o) \/ CancelAnswered(o) \/ CancelNoted(o)
           \/ MoveBegins \/ RecoverLegs
  <2>1. SeedInv'
    BY <1>4, StackSteps
  <2>2. AdoptionCurrent
    <3>1. \A o \in SeedOrders : held[o] = "none" => held'[o] # "ADOPTED"
      BY <1>4 DEF FillHeard, CancelAnswered, CancelNoted, MoveBegins, RecoverLegs, LegsOn, SeedInv, SeedTypes
    <3>. QED
      BY <3>1 DEF AdoptionCurrent
  <2>. QED
    BY <2>1, <2>2
<1>. QED
  BY <1>1, <1>2, <1>3, <1>4 DEF SeedNext

(* However the file lags behind the stack, and whoever reads it, the stack   *)
(* takes over no order that a newer one of its own has replaced, and none    *)
(* whose cancel was noted a moment ago.                                      *)
THEOREM AdoptionIsCurrent ==
  ASSUME SeedConstants
  PROVE  SeedSpec => AdoptsCurrent
<1>1. SeedInv /\ [SeedNext]_seedState => [AdoptionCurrent]_seedState
  BY SeedStep
<1>2. SeedInv /\ [SeedNext]_seedState => SeedInv'
  BY SeedStep
<1>. QED
  BY <1>1, <1>2, SeedStart, PTL DEF SeedSpec, AdoptsCurrent

-----------------------------------------------------------------------------
(* Requote.                                                                  *)

(* Prices and positions are integers, the grid and the pricer's snapshot are *)
(* positive, and a move that asks for new quotes is one tick at least.       *)
QuoteConstants ==
  /\ Theos \subseteq Int /\ NoNews \notin Theos /\ Positions \subseteq Int
  /\ UnitsPerTick \in Nat \ {0} /\ PricerSnap \in Nat \ {0} /\ AdjustPo \in Nat \ {0}
  /\ WidthBps \in Int /\ Resting \in Int /\ QuoteSnap \in Int /\ AdjustTicks \in Int
  /\ PositionCap \in Int /\ MinDrift \in Nat \ {0}

Reasons == {NoReason, "theo_move", "post_cycle_recheck", "timer_one_leg", "timer_repeg_one_leg"}
Phases  == {"leg", "place", "answer", "recheck"}
Working == [at : Phases, side : PairSides, base : Theos, on : Positions, moved : BOOLEAN,
            refused : SUBSET PairSides, do : SUBSET PairSides, refreshed : BOOLEAN]
Cycles  == {Nothing} \cup [at : {"compute"}, base : Theos, reason : Reasons]
           \cup Working \cup [at : {"end"}, base : Theos]
QuoteLeg  == [state : {NoReason}] \cup [state : {"live", "cancelling", "pending"}, price : Int]

(* The types of the variables.                                               *)
QuoteTypes ==
  /\ theo \in Theos /\ lastTheo \in Theos /\ news \in Theos \cup {NoNews}
  /\ asked \in Reasons /\ net \in Positions /\ overtaken \in BOOLEAN /\ cycle \in Cycles
  /\ leg \in [PairSides -> QuoteLeg]

(* Only the leg the cycle works on is between two states.                    *)
LegOfCycle ==
  /\ \A d \in PairSides :
        /\ leg[d].state = "cancelling" => cycle.at = "leg" /\ d = cycle.side
        /\ leg[d].state = "pending" =>
              cycle.at = "answer" /\ d = cycle.side /\ leg[d].price = NewPrice(d)
  /\ cycle.at = "place" => leg[cycle.side].state = NoReason
  /\ cycle.at = "recheck" => leg[cycle.side].state = "live" /\ leg[cycle.side].price = NewPrice(cycle.side)

(* The theo is the price t, or a newer one is about to be handled.           *)
Fresh(t) == news = NoNews => theo = t
(* A full pair rests where the price handled last would put it.              *)
Near == Live = PairSides =>
          \A d \in PairSides : Distance(leg[d].price, Pair(lastTheo, net)[d]) < MinDrift

(* While nothing has overtaken the pair: what was handled last is the theo,  *)
(* the pair is near it unless a move has already asked for a cycle, and the  *)
(* legs a running cycle is done with are where it wants them.                *)
Following ==
  /\ news # NoNews => theo = news
  /\ ~overtaken =>
       /\ cycle.at = "idle" => Fresh(lastTheo) /\ (asked # "theo_move" => Near)
       /\ cycle.at = "compute" /\ cycle.reason # "theo_move" => Fresh(lastTheo) /\ Near
       /\ cycle.at \in Phases =>
            /\ net = cycle.on /\ Fresh(cycle.base)
            /\ cycle.side = "SELL" /\ leg["BUY"].state = "live" => leg["BUY"].price = NewPrice("BUY")
       /\ cycle.at = "end" =>
            /\ Fresh(cycle.base)
            /\ \A d \in Live : leg[d].price = Pair(cycle.base, net)[d]

(* The bid goes first, and until the first cancel is done no leg the market  *)
(* check has refused is still to be placed.                                  *)
GatesOK ==
  /\ cycle.at = "leg" /\ ~cycle.refreshed => cycle.do \cap cycle.refused = {}
  /\ cycle.at = "leg" /\ cycle.side = "BUY" => ~cycle.refreshed
  /\ cycle.at \in Phases \ {"leg"} => cycle.refreshed
  /\ cycle.at = "place" /\ cycle.side = "BUY" => "BUY" \notin cycle.refused

QuoteInv == QuoteTypes /\ LegOfCycle /\ Following /\ GatesOK

(* The pair to quote is a pair of integers.                                  *)
LEMMA PairTyped ==
  ASSUME QuoteConstants, NEW t \in Theos, NEW n \in Positions
  PROVE  /\ Pair(t, n) \in [PairSides -> Int]
         /\ Pair(t, n)["BUY"] \in Int /\ Pair(t, n)["SELL"] \in Int
<1>1. Unit \in Nat \ {0}
  <2>1. UnitsPerTick * PricerSnap \in Nat \ {0}
    BY DEF QuoteConstants
  <2>. QED BY <2>1 DEF Unit
<1>2. t \in Int /\ n \in Int
  BY DEF QuoteConstants
<1>3. Skew(n) \in Int
  <2>1. AbsOf(n) \in Int
    BY <1>2 DEF AbsOf
  <2>2. AbsOf(n) \div AdjustPo \in Int
    BY <2>1 DEF QuoteConstants
  <2>. QED BY <1>2, <2>1, <2>2 DEF Skew, QuoteConstants
<1>4. RawBid(t, n) \in Int /\ RawAsk(t, n) \in Int
  <2>1. Adjusted(t) \in Int
    BY <1>2 DEF Adjusted, QuoteConstants
  <2>2. Adjusted(t) * (10000 - WidthBps) \in Int /\ Adjusted(t) * (10000 + WidthBps) \in Int
    BY <2>1 DEF QuoteConstants
  <2>3. (Skew(n) + Resting) * Unit \in Int /\ (Skew(n) - Resting) * Unit \in Int
    BY <1>1, <1>3 DEF QuoteConstants
  <2>. QED BY <2>2, <2>3 DEF RawBid, RawAsk
<1>5. RawBid(t, n) \div Unit \in Int /\ (RawAsk(t, n) - RawBid(t, n)) \div Unit \in Int
  BY <1>1, <1>4
<1>6. FullWidth(t, n) \in Int
  BY <1>5 DEF FullWidth, AtLeast
<1>. QED BY <1>5, <1>6 DEF Pair, PairSides

(* A price is no distance away from itself, and distances are integers.      *)
LEMMA DistanceFacts ==
  ASSUME NEW p \in Int, NEW q \in Int
  PROVE  Distance(p, q) \in Int /\ Distance(p, p) = 0
BY DEF Distance, AbsOf

(* At the start a pair rests at the theo.                                    *)
LEMMA QuoteStart ==
  ASSUME QuoteConstants, QuoteInit
  PROVE  QuoteInv
<1>1. /\ Pair(theo, net) \in [PairSides -> Int]
      /\ \A d \in PairSides : Pair(theo, net)[d] \in Int
      /\ \A d \in PairSides : leg[d].state = "live" /\ leg[d].price = Pair(theo, net)[d]
  BY PairTyped DEF QuoteInit, PairSides
<1>2. QuoteTypes
  BY <1>1 DEF QuoteTypes, QuoteInit, QuoteConstants, QuoteLeg, Cycles, Nothing, Reasons, NoReason, NoNews
<1>3. LegOfCycle
  BY <1>1 DEF LegOfCycle, QuoteInit, Nothing
<1>4. Near
  <2>1. \A d \in PairSides : Distance(leg[d].price, Pair(lastTheo, net)[d]) = 0
    BY <1>1, DistanceFacts DEF QuoteInit
  <2>. QED BY <2>1 DEF Near, QuoteConstants
<1>5. Following
  BY <1>4 DEF Following, QuoteInit, Nothing, Fresh, Phases
<1>6. GatesOK
  BY DEF GatesOK, QuoteInit, Nothing, Phases
<1>. QED BY <1>2, <1>3, <1>5, <1>6 DEF QuoteInv

(* The feed thread, the timer and another stack's fills.                     *)
LEMMA OutsideSteps ==
  ASSUME QuoteConstants, QuoteInv,
         \/ \E t \in Theos : PublishTheo(t)
         \/ Unchanged \/ Compare \/ SkipComparison \/ Timer
         \/ \E n \in Positions : PositionMoves(n)
  PROVE  QuoteInv'
<1>. USE DEF QuoteInv
<1>1. CASE \E t \in Theos : PublishTheo(t)
  BY <1>1 DEF PublishTheo, QuoteTypes, QuoteConstants, LegOfCycle, NewPrice, Following, Fresh, Near, Live,
     GatesOK
<1>2. CASE Unchanged
  <2>1. QuoteTypes' /\ LegOfCycle' /\ GatesOK' /\ (Near => Near')
    BY <1>2 DEF Unchanged, QuoteTypes, LegOfCycle, NewPrice, GatesOK, Near, Live
  <2>2. CASE cycle = Nothing
    <3>1. cycle.at = "idle"
      BY <2>2 DEF Nothing
    <3>2. overtaken' = overtaken /\ theo = lastTheo
      BY <1>2, <2>2 DEF Unchanged, Following, QuoteTypes
    <3>. QED BY <1>2, <2>1, <3>1, <3>2 DEF Unchanged, Following, Fresh, Phases
  <2>3. CASE cycle # Nothing
    <3>1. overtaken'
      BY <1>2, <2>3 DEF Unchanged
    <3>. QED BY <1>2, <2>1, <3>1 DEF Unchanged, Following
  <2>. QED BY <2>2, <2>3
<1>3. CASE Compare
  <2>1. QuoteTypes' /\ LegOfCycle' /\ GatesOK'
    BY <1>3 DEF Compare, Ask, QuoteTypes, LegOfCycle, NewPrice, GatesOK, Reasons
  <2>2. cycle.at = "idle" /\ asked' # "theo_move" => Near'
    <3>. SUFFICES ASSUME asked' # "theo_move", Live = PairSides, NEW d \in PairSides
                  PROVE  Distance(leg[d].price, Pair(news, net)[d]) < MinDrift
      BY <1>3 DEF Compare, Near, Live
    <3>1. ~Gate(news) /\ d \in Live
      BY <1>3 DEF Compare, Ask, PairSides
    <3>2. ~(Distance(leg[d].price, Pair(news, net)[d]) >= Drift(news))
      BY <3>1 DEF Gate
    <3>3. news \in Theos /\ leg[d].price \in Int
      BY <1>3, <3>1 DEF Compare, QuoteTypes, Live, QuoteLeg, NoReason
    <3>4. Distance(leg[d].price, Pair(news, net)[d]) \in Int
      BY <3>3, PairTyped, DistanceFacts DEF QuoteTypes, PairSides
    <3>5. Drift(news) \in Int /\ Drift(news) <= MinDrift
      BY DEF Drift, QuoteConstants
    <3>. QED BY <3>2, <3>4, <3>5 DEF QuoteConstants
  <2>3. cycle # Nothing => overtaken'
    BY <1>3 DEF Compare
  <2>4. cycle = Nothing => cycle.at = "idle"
    BY DEF Nothing
  <2>. QED BY <1>3, <2>1, <2>2, <2>3, <2>4 DEF Compare, Following, Fresh, Phases
<1>4. CASE SkipComparison
  BY <1>4 DEF SkipComparison, QuoteTypes, LegOfCycle, NewPrice, Following, GatesOK
<1>5. CASE Timer
  <2>1. asked' \in Reasons \ {NoReason, "theo_move"}
    BY <1>5 DEF Timer, Ask, TimerReason, Reasons, NoReason
  <2>2. asked = "theo_move" => overtaken'
    BY <1>5 DEF Timer, NoReason
  <2>. QED BY <1>5, <2>1, <2>2 DEF Timer, QuoteTypes, LegOfCycle, NewPrice, Following, Fresh, Near, Live,
             GatesOK
<1>6. CASE \E n \in Positions : PositionMoves(n)
  BY <1>6 DEF PositionMoves, QuoteTypes, LegOfCycle, NewPrice, Following, GatesOK
<1>. QED BY <1>1, <1>2, <1>3, <1>4, <1>5, <1>6

(* A cycle begins, and computes its pair or has nothing to do.               *)
LEMMA ComputeSteps ==
  ASSUME QuoteConstants, QuoteInv,
         Begin \/ SkipTwoSided \/ Coalesce \/ \E looks : Compute(looks)
  PROVE  QuoteInv'
<1>. USE DEF QuoteInv
<1>1. CASE Begin
  BY <1>1 DEF Begin, QuoteTypes, Cycles, LegOfCycle, NewPrice, Following, Fresh, Near, Live, GatesOK, Phases,
     Reasons, NoReason
<1>2. CASE SkipTwoSided
  BY <1>2 DEF SkipTwoSided, TwoSided, QuoteTypes, Cycles, LegOfCycle, NewPrice, Following, Fresh, Near, Live,
     GatesOK, Phases, Nothing
<1>3. CASE Coalesce
  <2>1. cycle.base \in Theos
    BY <1>3 DEF Coalesce, QuoteTypes, Cycles, Working, Phases, Nothing
  <2>2. \A d \in PairSides : Distance(leg[d].price, Pair(cycle.base, net)[d]) = 0
    BY <1>3, <2>1, PairTyped, DistanceFacts DEF Coalesce, Coalesced, QuoteTypes, PairSides
  <2>3. Near'
    BY <1>3, <2>2 DEF Coalesce, Near, Live, QuoteConstants
  <2>. QED BY <1>3, <2>1, <2>3 DEF Coalesce, QuoteTypes, Cycles, LegOfCycle, Following, Fresh, GatesOK, Phases,
             Nothing
<1>4. CASE \E looks : Compute(looks)
  <2>. PICK looks : Compute(looks)
    BY <1>4
  <2>1. cycle.base \in Theos
    BY DEF Compute, QuoteTypes, Cycles, Working, Phases, Nothing
  <2>. DEFINE want    == {d \in PairSides : MayQuote(d, net)}
              refused == {d \in PairSides : Refused(d, Pair(cycle.base, net)[d], looks)}
  <2>2. cycle' = [at |-> "leg", side |-> "BUY", base |-> cycle.base, on |-> net,
                  moved |-> cycle.reason = "theo_move",
                  refused |-> refused, do |-> want \ refused, refreshed |-> FALSE]
    BY DEF Compute, Checked
  <2>3. want \ refused \in SUBSET PairSides /\ refused \in SUBSET PairSides /\ (want \ refused) \cap refused = {}
    OBVIOUS
  <2>. HIDE DEF want, refused
  <2>4. /\ cycle'.at = "leg" /\ cycle'.side = "BUY" /\ cycle'.base = cycle.base /\ cycle'.on = net
        /\ cycle'.refused = refused /\ cycle'.do = want \ refused /\ cycle'.refreshed = FALSE
    BY <2>2
  <2>5. cycle' \in Working
    BY <2>1, <2>2, <2>3 DEF Working, Phases, PairSides, QuoteTypes
  <2>6. leg' \in [PairSides -> QuoteLeg]
    BY DEF Compute, QuoteTypes, QuoteLeg
  <2>7. \A d \in PairSides : leg'[d].state \notin {"cancelling", "pending"}
    BY DEF Compute, QuoteTypes, LegOfCycle, NoReason
  <2>8. QuoteTypes'
    BY <2>5, <2>6 DEF Compute, QuoteTypes, Cycles
  <2>9. LegOfCycle'
    BY <2>4, <2>7 DEF LegOfCycle
  <2>10. Following'
    BY <2>4 DEF Compute, Following, Fresh, Phases
  <2>11. GatesOK'
    BY <2>3, <2>4 DEF GatesOK, Phases
  <2>. QED BY <2>8, <2>9, <2>10, <2>11
<1>. QED BY <1>1, <1>2, <1>3, <1>4

(* After a leg comes the other one, or the end.                              *)
LEMMA AfterFacts ==
  ASSUME cycle \in Working
  PROVE  /\ cycle.side = "BUY" => /\ AfterLeg \in Working
                                  /\ AfterLeg.at = "leg" /\ AfterLeg.side = "SELL"
                                  /\ AfterLeg.base = cycle.base /\ AfterLeg.on = cycle.on
                                  /\ AfterLeg.do = cycle.do /\ AfterLeg.refused = cycle.refused
                                  /\ AfterLeg.refreshed = cycle.refreshed
         /\ cycle.side # "BUY" => /\ AfterLeg \in [at : {"end"}, base : Theos]
                                  /\ AfterLeg.at = "end" /\ AfterLeg.base = cycle.base
BY DEF Working, AfterLeg, PairSides, Phases

(* A cycle goes on to the next leg when the side is one of nobody's business *)
(* any more: its leg is gone, or is where the cycle wants it, or the pair is *)
(* marked as overtaken.                                                      *)
LEMMA LegEnds ==
  ASSUME QuoteConstants, QuoteInv, cycle.at \in Phases, cycle' = AfterLeg,
         UNCHANGED <<theo, news, net>>, QuoteTypes',
         overtaken \/ ~Fresh(cycle.base) => overtaken',
         \A d \in PairSides : d # cycle.side => leg'[d] = leg[d],
         leg'[cycle.side].state \in {"live", NoReason},
         ~overtaken' /\ leg'[cycle.side].state = "live" =>
             leg'[cycle.side].price = NewPrice(cycle.side),
         cycle.at = "leg" \/ cycle.refreshed
  PROVE  QuoteInv'
<1>1. cycle \in Working
  BY DEF QuoteInv, QuoteTypes, Cycles, Phases, Nothing
<1>. DEFINE after == AfterLeg
<1>2. /\ cycle.side \in PairSides /\ cycle.base \in Theos
      /\ cycle.side = "BUY" => /\ after.at = "leg" /\ after.side = "SELL"
                               /\ after.base = cycle.base /\ after.on = cycle.on
                               /\ after.do = cycle.do /\ after.refused = cycle.refused
                               /\ after.refreshed = cycle.refreshed
      /\ cycle.side # "BUY" => after.at = "end" /\ after.base = cycle.base
  BY <1>1, AfterFacts DEF Working
<1>3. cycle' = after
  OBVIOUS
<1>. HIDE DEF after
<1>4. \A d \in PairSides : leg'[d].state \notin {"cancelling", "pending"}
  BY DEF QuoteInv, LegOfCycle, NoReason
<1>5. LegOfCycle'
  BY <1>2, <1>3, <1>4 DEF LegOfCycle
<1>6. Following'
  <2>1. (news # NoNews => theo = news)'
    BY DEF QuoteInv, Following
  <2>2. CASE overtaken'
    BY <2>1, <2>2 DEF Following
  <2>3. CASE ~overtaken'
    <3>1. /\ ~overtaken /\ net = cycle.on /\ Fresh(cycle.base)
          /\ cycle.side = "SELL" /\ leg["BUY"].state = "live" => leg["BUY"].price = NewPrice("BUY")
      BY <2>3 DEF QuoteInv, Following, Phases
    <3>2. CASE cycle.side = "BUY"
      <4>1. NewPrice("BUY")' = NewPrice("BUY")
        BY <1>2, <1>3, <3>2 DEF NewPrice
      <4>. QED BY <1>2, <1>3, <2>1, <2>3, <3>1, <3>2, <4>1 DEF Following, Fresh, Phases
    <3>3. CASE cycle.side # "BUY"
      <4>1. cycle.side = "SELL"
        BY <1>2, <3>3 DEF PairSides
      <4>2. \A d \in Live' : leg'[d].price = Pair(cycle.base, net)[d]
        BY <2>3, <3>1, <4>1 DEF Live, NewPrice, PairSides
      <4>. QED BY <1>2, <1>3, <2>1, <2>3, <3>1, <3>3, <4>2 DEF Following, Fresh, Phases
    <3>. QED BY <3>2, <3>3
  <2>. QED BY <2>2, <2>3 DEF QuoteInv, QuoteTypes
<1>7. GatesOK'
  BY <1>2, <1>3 DEF QuoteInv, GatesOK, Phases
<1>. QED BY <1>5, <1>6, <1>7 DEF QuoteInv

(* The steps after which the cycle is done with a leg.                       *)
LEMMA LegEndSteps ==
  ASSUME QuoteConstants, QuoteInv,
         NextLeg \/ CancelFails \/ SubmitRefused \/ PlaceFails \/ RecheckMarket
  PROVE  QuoteInv'
<1>1. cycle.at \in Phases
  BY DEF NextLeg, CancelFails, SubmitRefused, PlaceFails, RecheckMarket, Phases
<1>2. cycle \in Working
  BY <1>1 DEF QuoteInv, QuoteTypes, Cycles, Phases, Nothing
<1>3. cycle.side \in PairSides /\ cycle' = AfterLeg /\ AfterLeg \in Cycles
  <2>1. AfterLeg \in Cycles
    BY <1>2, AfterFacts DEF Cycles
  <2>. QED BY <1>2, <2>1 DEF NextLeg, CancelFails, SubmitRefused, PlaceFails, RecheckMarket, Working
<1>4. leg[cycle.side] \in QuoteLeg
  BY <1>3 DEF QuoteInv, QuoteTypes
<1>5. cycle.at = "leg" \/ cycle.refreshed
  BY <1>1 DEF QuoteInv, GatesOK
<1>6. ~overtaken => Fresh(cycle.base)
  BY <1>1 DEF QuoteInv, Following
<1>7. CASE NextLeg
  <2>1. QuoteTypes'
    BY <1>3, <1>7 DEF QuoteInv, QuoteTypes, NextLeg
  <2>2. leg[cycle.side].state \in {"live", NoReason}
    BY <1>3, <1>4, <1>7 DEF NextLeg, InFlight, QuoteLeg
  <2>3. ~overtaken' /\ leg'[cycle.side].state = "live" => leg'[cycle.side].price = NewPrice(cycle.side)
    BY <1>3, <1>7 DEF NextLeg, Kept, Live
  <2>. QED BY <1>1, <1>5, <1>6, <1>7, <2>1, <2>2, <2>3, LegEnds DEF NextLeg
<1>8. CASE CancelFails
  <2>1. leg' = [leg EXCEPT ![cycle.side] = [leg[cycle.side] EXCEPT !.state = "live"]]
    BY <1>8 DEF CancelFails
  <2>2. [leg[cycle.side] EXCEPT !.state = "live"] \in QuoteLeg
    BY <1>4, <1>8 DEF CancelFails, QuoteLeg, NoReason
  <2>3. /\ leg' \in [PairSides -> QuoteLeg]
        /\ leg'[cycle.side] = [leg[cycle.side] EXCEPT !.state = "live"]
        /\ \A d \in PairSides : d # cycle.side => leg'[d] = leg[d]
    BY <1>3, <2>1, <2>2 DEF QuoteInv, QuoteTypes
  <2>4. QuoteTypes'
    BY <1>3, <1>8, <2>3 DEF QuoteInv, QuoteTypes, CancelFails
  <2>5. leg'[cycle.side].state = "live"
    BY <1>4, <2>3 DEF QuoteLeg
  <2>. QED BY <1>1, <1>5, <1>6, <1>8, <2>3, <2>4, <2>5, LegEnds DEF CancelFails
<1>9. CASE SubmitRefused
  <2>1. QuoteTypes'
    BY <1>3, <1>9 DEF QuoteInv, QuoteTypes, SubmitRefused
  <2>2. leg[cycle.side].state = NoReason
    BY <1>9 DEF SubmitRefused, QuoteInv, LegOfCycle
  <2>. QED BY <1>1, <1>3, <1>5, <1>6, <1>9, <2>1, <2>2, LegEnds DEF SubmitRefused, NoReason
<1>10. CASE PlaceFails
  <2>1. /\ leg' \in [PairSides -> QuoteLeg]
        /\ leg'[cycle.side] = [state |-> NoReason]
        /\ \A d \in PairSides : d # cycle.side => leg'[d] = leg[d]
    BY <1>3, <1>10 DEF PlaceFails, QuoteInv, QuoteTypes, QuoteLeg
  <2>2. QuoteTypes'
    BY <1>3, <1>10, <2>1 DEF QuoteInv, QuoteTypes, PlaceFails
  <2>3. leg'[cycle.side].state = NoReason
    BY <2>1
  <2>. QED BY <1>1, <1>3, <1>5, <1>6, <1>10, <2>1, <2>2, <2>3, LegEnds DEF PlaceFails, NoReason
<1>11. CASE RecheckMarket
  <2>1. QuoteTypes'
    BY <1>3, <1>11 DEF QuoteInv, QuoteTypes, RecheckMarket, Ask, Reasons
  <2>2. leg[cycle.side].state = "live" /\ leg[cycle.side].price = NewPrice(cycle.side)
    BY <1>11 DEF RecheckMarket, QuoteInv, LegOfCycle
  <2>3. overtaken => overtaken'
    BY <1>11 DEF RecheckMarket
  <2>. QED BY <1>1, <1>3, <1>5, <1>6, <1>11, <2>1, <2>2, <2>3, LegEnds DEF RecheckMarket, NewPrice
<1>. QED BY <1>7, <1>8, <1>9, <1>10, <1>11

(* The steps on one leg: cancel the old one, place the new one.              *)
LEMMA LegSteps ==
  ASSUME QuoteConstants, QuoteInv, CancelOld \/ CancelDone \/ Reserve \/ Accept
  PROVE  QuoteInv'
<1>1. cycle.at \in Phases
  BY DEF CancelOld, CancelDone, Reserve, Accept, Phases
<1>2. cycle \in Working /\ cycle.side \in PairSides
  BY <1>1 DEF QuoteInv, QuoteTypes, Cycles, Phases, Nothing, Working
<1>3. /\ leg[cycle.side] \in QuoteLeg /\ NewPrice(cycle.side) \in Int
      /\ cycle.base \in Theos /\ cycle.on \in Positions
  BY <1>2, PairTyped DEF QuoteInv, QuoteTypes, Working, NewPrice, PairSides
<1>. DEFINE side == cycle.side
<1>4. ASSUME NEW new \in QuoteLeg, leg' = [leg EXCEPT ![cycle.side] = new]
      PROVE  /\ leg' \in [PairSides -> QuoteLeg] /\ leg'[cycle.side] = new
             /\ \A d \in PairSides : d # cycle.side => leg'[d] = leg[d]
  BY <1>2, <1>4 DEF QuoteInv, QuoteTypes
<1>5. \A d \in PairSides : d # cycle.side => leg[d].state \notin {"cancelling", "pending"}
  BY DEF QuoteInv, LegOfCycle
<1>6. CASE CancelOld
  <2>. DEFINE new == [leg[cycle.side] EXCEPT !.state = "cancelling"]
  <2>1. new \in QuoteLeg /\ new.state = "cancelling"
    BY <1>3, <1>6 DEF CancelOld, QuoteLeg, NoReason
  <2>2. leg' = [leg EXCEPT ![cycle.side] = new]
    BY <1>6 DEF CancelOld
  <2>. HIDE DEF new
  <2>3. /\ leg' \in [PairSides -> QuoteLeg] /\ leg'[cycle.side] = new
        /\ \A d \in PairSides : d # cycle.side => leg'[d] = leg[d]
    BY <1>4, <2>1, <2>2
  <2>4. QuoteTypes'
    BY <1>6, <2>3 DEF CancelOld, QuoteInv, QuoteTypes
  <2>5. LegOfCycle'
    BY <1>5, <1>6, <2>1, <2>3 DEF CancelOld, LegOfCycle, NewPrice
  <2>6. Following'
    BY <1>2, <1>6, <2>3 DEF CancelOld, QuoteInv, Following, Fresh, NewPrice, Phases, PairSides
  <2>7. GatesOK'
    BY <1>6 DEF CancelOld, QuoteInv, GatesOK
  <2>. QED BY <2>4, <2>5, <2>6, <2>7 DEF QuoteInv
<1>7. CASE CancelDone
  <2>. DEFINE new == [state |-> NoReason]
              may == {e \in PairSides : MayQuote(e, net)}
  <2>1. new \in QuoteLeg /\ new.state = NoReason
    BY DEF QuoteLeg
  <2>2. leg' = [leg EXCEPT ![cycle.side] = new]
    BY <1>7 DEF CancelDone
  <2>3. cycle' = [cycle EXCEPT !.at = "place", !.do = may, !.refreshed = TRUE] /\ may \in SUBSET PairSides
    BY <1>7 DEF CancelDone, Refresh
  <2>. HIDE DEF new, may
  <2>4. /\ leg' \in [PairSides -> QuoteLeg] /\ leg'[cycle.side] = new
        /\ \A d \in PairSides : d # cycle.side => leg'[d] = leg[d]
    BY <1>4, <2>1, <2>2
  <2>5. /\ cycle' \in Working /\ cycle'.at = "place" /\ cycle'.side = cycle.side
        /\ cycle'.base = cycle.base /\ cycle'.on = cycle.on /\ cycle'.refused = cycle.refused
        /\ cycle'.refreshed = TRUE
    BY <1>2, <2>3 DEF Working, Phases
  <2>6. QuoteTypes'
    BY <1>7, <2>4, <2>5 DEF CancelDone, QuoteInv, QuoteTypes, Cycles
  <2>7. LegOfCycle'
    BY <1>5, <2>1, <2>4, <2>5 DEF LegOfCycle, NoReason
  <2>8. Following'
    BY <1>2, <1>7, <2>4, <2>5 DEF CancelDone, QuoteInv, Following, Fresh, NewPrice, Phases, PairSides
  <2>9. GatesOK'
    BY <1>7, <2>5 DEF CancelDone, QuoteInv, GatesOK, Phases
  <2>. QED BY <2>6, <2>7, <2>8, <2>9 DEF QuoteInv
<1>8. CASE Reserve
  <2>. DEFINE new == [state |-> "pending", price |-> NewPrice(cycle.side)]
  <2>1. new \in QuoteLeg /\ new.state = "pending" /\ new.price = NewPrice(cycle.side)
    BY <1>3 DEF QuoteLeg
  <2>2. leg' = [leg EXCEPT ![cycle.side] = new] /\ cycle' = [cycle EXCEPT !.at = "answer"]
    BY <1>8 DEF Reserve
  <2>. HIDE DEF new
  <2>3. /\ leg' \in [PairSides -> QuoteLeg] /\ leg'[cycle.side] = new
        /\ \A d \in PairSides : d # cycle.side => leg'[d] = leg[d]
    BY <1>4, <2>1, <2>2
  <2>4. /\ cycle' \in Working /\ cycle'.at = "answer" /\ cycle'.side = cycle.side
        /\ cycle'.base = cycle.base /\ cycle'.on = cycle.on /\ cycle'.refreshed = cycle.refreshed
    BY <1>2, <2>2 DEF Working, Phases
  <2>5. QuoteTypes'
    BY <1>8, <2>3, <2>4 DEF Reserve, QuoteInv, QuoteTypes, Cycles
  <2>6. LegOfCycle'
    BY <1>5, <2>1, <2>3, <2>4 DEF LegOfCycle, NewPrice
  <2>7. Following'
    BY <1>2, <1>8, <2>1, <2>3, <2>4 DEF Reserve, QuoteInv, Following, Fresh, NewPrice, Phases, PairSides
  <2>8. GatesOK'
    BY <1>8, <2>4 DEF Reserve, QuoteInv, GatesOK, Phases
  <2>. QED BY <2>5, <2>6, <2>7, <2>8 DEF QuoteInv
<1>9. CASE Accept
  <2>. DEFINE new == [leg[cycle.side] EXCEPT !.state = "live"]
  <2>1. new \in QuoteLeg /\ new.state = "live" /\ new.price = NewPrice(cycle.side)
    BY <1>2, <1>3, <1>9 DEF Accept, QuoteLeg, NoReason, QuoteInv, LegOfCycle
  <2>2. leg' = [leg EXCEPT ![cycle.side] = new] /\ cycle' = [cycle EXCEPT !.at = "recheck"]
    BY <1>9 DEF Accept
  <2>. HIDE DEF new
  <2>3. /\ leg' \in [PairSides -> QuoteLeg] /\ leg'[cycle.side] = new
        /\ \A d \in PairSides : d # cycle.side => leg'[d] = leg[d]
    BY <1>4, <2>1, <2>2
  <2>4. /\ cycle' \in Working /\ cycle'.at = "recheck" /\ cycle'.side = cycle.side
        /\ cycle'.base = cycle.base /\ cycle'.on = cycle.on /\ cycle'.refreshed = cycle.refreshed
    BY <1>2, <2>2 DEF Working, Phases
  <2>5. QuoteTypes'
    BY <1>9, <2>3, <2>4 DEF Accept, QuoteInv, QuoteTypes, Cycles
  <2>6. LegOfCycle'
    BY <1>5, <2>1, <2>3, <2>4 DEF LegOfCycle, NewPrice
  <2>7. Following'
    BY <1>2, <1>9, <2>1, <2>3, <2>4 DEF Accept, QuoteInv, Following, Fresh, NewPrice, Phases, PairSides
  <2>8. GatesOK'
    BY <1>9, <2>4 DEF Accept, QuoteInv, GatesOK, Phases
  <2>. QED BY <2>5, <2>6, <2>7, <2>8 DEF QuoteInv
<1>. QED BY <1>6, <1>7, <1>8, <1>9

(* The end of a cycle: the pair rests at the price it was computed from.     *)
LEMMA EndStep ==
  ASSUME QuoteConstants, QuoteInv, End
  PROVE  QuoteInv'
<1>1. cycle \in [at : {"end"}, base : Theos]
  BY DEF End, QuoteInv, QuoteTypes, Cycles, Working, Phases, Nothing
<1>2. QuoteTypes' /\ LegOfCycle' /\ GatesOK'
  BY <1>1 DEF End, QuoteInv, QuoteTypes, Cycles, LegOfCycle, GatesOK, Phases, Nothing
<1>3. ~overtaken => Near'
  <2>. SUFFICES ASSUME ~overtaken, Live = PairSides, NEW d \in PairSides
                PROVE  Distance(leg[d].price, Pair(cycle.base, net)[d]) < MinDrift
    BY DEF End, Near, Live
  <2>1. leg[d].price = Pair(cycle.base, net)[d]
    BY DEF End, QuoteInv, Following
  <2>2. Pair(cycle.base, net)[d] \in Int
    BY <1>1, PairTyped DEF QuoteInv, QuoteTypes, PairSides
  <2>3. Distance(Pair(cycle.base, net)[d], Pair(cycle.base, net)[d]) = 0
    BY <2>2, DistanceFacts
  <2>. QED BY <2>1, <2>3 DEF QuoteConstants
<1>4. Following'
  BY <1>3 DEF End, QuoteInv, Following, Fresh, Nothing, Phases
<1>. QED BY <1>2, <1>4 DEF QuoteInv

(* Every step keeps the invariant.                                           *)
LEMMA QuoteStep ==
  ASSUME QuoteConstants, QuoteInv, [QuoteNext]_quoteState
  PROVE  QuoteInv'
<1>1. CASE UNCHANGED quoteState
  BY <1>1 DEF quoteState, QuoteInv, QuoteTypes, LegOfCycle, NewPrice, Following, Fresh, Near, Live, GatesOK
<1>2. CASE QuoteNext
  BY <1>2, OutsideSteps, ComputeSteps, LegEndSteps, LegSteps, EndStep DEF QuoteNext
<1>. QED BY <1>1, <1>2

(* When the feed is quiet and no cycle is asked for, each leg of a resting   *)
(* pair is less than the required move away from what would be quoted at the *)
(* theo now, unless the pair was overtaken - for any prices, positions,      *)
(* widths and grid.                                                          *)
THEOREM QuotesFollowTheo ==
  ASSUME QuoteConstants
  PROVE  QuoteSpec => []QuoteFollows
<1>1. QuoteInv => QuoteFollows
  <2>. SUFFICES ASSUME QuoteInv, Quiet, ~overtaken, Live = PairSides
                PROVE  \A d \in PairSides : Distance(leg[d].price, Pair(theo, net)[d]) < MinDrift
    BY DEF QuoteFollows
  <2>1. cycle.at = "idle" /\ asked # "theo_move" /\ news = NoNews
    BY DEF Quiet, Nothing, NoReason
  <2>2. Fresh(lastTheo) /\ Near
    BY <2>1 DEF QuoteInv, Following
  <2>. QED BY <2>1, <2>2 DEF Fresh, Near
<1>. QED BY <1>1, QuoteStart, QuoteStep, PTL DEF QuoteSpec

(* Only a cycle's reservation makes a leg pending.                           *)
LEMMA PlacedFits ==
  ASSUME QuoteInv, [QuoteNext]_quoteState
  PROVE  RefusedNotPlaced
<1>. SUFFICES ASSUME NEW d \in PairSides, leg[d].state # "pending", leg'[d].state = "pending",
                     d \in cycle.refused
              PROVE  d = "SELL" /\ cycle.refreshed
  BY DEF RefusedNotPlaced
<1>1. leg[d] \in QuoteLeg /\ leg \in [PairSides -> QuoteLeg]
  BY DEF QuoteInv, QuoteTypes
<1>2. CASE Reserve
  <2>1. cycle \in Working
    BY <1>2 DEF Reserve, QuoteInv, QuoteTypes, Cycles, Phases, Nothing
  <2>2. d = cycle.side
    BY <1>1, <1>2 DEF Reserve
  <2>. QED BY <1>2, <2>1, <2>2 DEF Reserve, QuoteInv, GatesOK, Phases, PairSides
<1>3. CASE Compute({}) \/ \E m \in Markets : Compute({m})
  <2>1. PICK looks : Compute(looks)
    BY <1>3
  <2>2. leg'[d] = leg[d] \/ leg'[d] = [state |-> NoReason]
    BY <2>1 DEF Compute
  <2>. QED BY <2>2 DEF NoReason
<1>4. CASE CancelOld \/ CancelFails \/ Accept
  BY <1>1, <1>4 DEF CancelOld, CancelFails, Accept, QuoteLeg
<1>5. CASE CancelDone \/ PlaceFails
  BY <1>1, <1>5 DEF CancelDone, PlaceFails, NoReason
<1>6. CASE UNCHANGED leg
  BY <1>6
<1>7. UNCHANGED leg \/ Reserve \/ Compute({}) \/ (\E m \in Markets : Compute({m})) \/ CancelOld
      \/ CancelFails \/ Accept \/ CancelDone \/ PlaceFails
  BY DEF QuoteNext, quoteState, PublishTheo, Unchanged, Compare, SkipComparison, Timer, PositionMoves,
     Begin, SkipTwoSided, Coalesce, NextLeg, SubmitRefused, RecheckMarket, End
<1>. QED BY <1>2, <1>3, <1>4, <1>5, <1>6, <1>7

(* A leg that the market check of its cycle has refused is not placed,       *)
(* except the offer once the cancel of the old bid has renewed both gates.   *)
THEOREM RefusalIsHeeded ==
  ASSUME QuoteConstants
  PROVE  QuoteSpec => MarketChecked
<1>. QED BY QuoteStart, QuoteStep, PlacedFits, PTL DEF QuoteSpec, MarketChecked
=============================================================================

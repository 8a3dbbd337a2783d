------------------------ MODULE OrderGateway_proofs ------------------------
(***************************************************************************)
(* OrderGateway for every set of orders and threads and every size: types,  *)
(* the count of active orders, the finality of FILLED and REJECTED, and     *)
(* what the reconcile pass cancels.                                         *)
(***************************************************************************)
EXTENDS OrderGateway, FiniteSetTheorems, TLAPS

(* A place call is waited for by one thread, and its order is PENDING.       *)
PlaceOK ==
  \A t \in Threads, o \in Orders :
    Waits(t, "place", o) =>
      /\ status[o] = "pending"
      /\ \A u \in Threads : Waits(u, "place", o) => u = t

(* The venue has nothing of an order that was not stored, and takes a place  *)
(* request once.                                                             *)
SentOK ==
  \A o \in Orders :
    /\ status[o] = "none" => o \notin places /\ venue[o] = "none"
    /\ o \in places => venue[o] = "none"

(* An exchange id is stored with the accept.                                 *)
IdOK == \A o \in Orders : status[o] \in {"none", "pending", "rejected"} => oid[o] = "none"

(* No more is executed than ordered, no more is applied than executed, and a *)
(* FILLED order has everything.                                              *)
FillsOK ==
  \A o \in Orders :
    /\ venue[o] = "none" => vfill[o] = 0
    /\ venue[o] = "open" => vfill[o] < Qty
    /\ vfill[o] <= Qty
    /\ filled[o] + missed[o] <= vfill[o]
    /\ status[o] = "filled" => filled[o] >= Qty

(* The inductive invariant.                                                  *)
TableInv ==
  /\ TypeOK
  /\ PlaceOK
  /\ SentOK
  /\ IdOK
  /\ FillsOK
  /\ ActiveExact
-----------------------------------------------------------------------------
(* The steps that type correctness has to look at one by one.                *)
LEMMA TypeStep ==
  ASSUME TypeOK, [Next]_vars
  PROVE  TypeOK'
<1>. USE OrderGatewayAssumption
<1>1. ASSUME NEW t \in Threads, NEW o \in Orders, Strategy(t, o)
      PROVE  TypeOK'
  <2>1. CASE Submit(t, o)
    BY <2>1 DEF Submit, Idle, WaitFor, TypeOK, told, Statuses, book, ghosts
  <2>2. CASE SubmitTooSmall(t, o)
    BY <2>2 DEF SubmitTooSmall, TypeOK, told, Statuses, book, network, ghosts
  <2>3. CASE PlaceAccepted(t, o)
    BY <2>3 DEF PlaceAccepted, OnOrderAccepted, Return, NoCall, TypeOK, told, Statuses, book, network, ghosts
  <2>4. CASE PlaceFailed(t, o)
    BY <2>4 DEF PlaceFailed, OnOrderRejected, OneLess, Return, NoCall, TypeOK, told, Statuses, book, network, ghosts
  <2>5. CASE CancelAtVenue(t, o)
    BY <2>5 DEF CancelAtVenue, SendCancel, WaitFor, TypeOK, told, table, book, ghosts
  <2>6. CASE CancelAgain(t, o)
    BY <2>6 DEF CancelAgain, SendCancel, WaitFor, TypeOK, told, table, book, ghosts
  <2>7. CASE CancelFailed(t, o)
    BY <2>7 DEF CancelFailed, Return, NoCall, TypeOK, told, table, book, network, ghosts
  <2>8. CASE CancelConfirmed(t, o)
    BY <2>8 DEF CancelConfirmed, CancelLocally, Cancelled, OneLess, SendCancel, WaitFor, Return, NoCall, TypeOK, told, Statuses, table, book
  <2>9. CASE CancelBenign(t, o)
    BY <2>9 DEF CancelBenign, CancelLocally, Cancelled, OneLess, SendCancel, WaitFor, Return, NoCall, TypeOK, told, Statuses, table, book, ghosts
  <2>10. CASE CancelDirect(t, o)
    BY <2>10 DEF CancelDirect, CancelLocally, Cancelled, OneLess, SendCancel, WaitFor, Return, NoCall, TypeOK, told, Statuses, table, book, ghosts
  <2>11. CASE EchoAnswered(t, o)
    BY <2>11 DEF EchoAnswered, Return, NoCall, TypeOK, told, table, book, network, ghosts
  <2>. QED
    BY <1>1, <2>1, <2>2, <2>3, <2>4, <2>5, <2>6, <2>7, <2>8, <2>9, <2>10, <2>11 DEF Strategy
<1>2. ASSUME NEW o \in Orders, Venue(o)
      PROVE  TypeOK'
  BY <1>2 DEF Venue, VenueTake, VenueCancel, Lose, Execute, Age, TypeOK, told, table, book, network, ghosts
<1>3. ASSUME MainLoop
      PROVE  TypeOK'
  <2>1. ASSUME NEW o \in Orders, ReadFill(o)
        PROVE  TypeOK'
    <3>1. filled[o] + 1 \in Nat /\ missed[o] + 1 \in Nat /\ booked[o] + (filled[o] + 1) \in Nat
      BY DEF TypeOK
    <3>2. CASE oid[o] = "right"
      <4>1. OnOrderFilled(o)
        BY <2>1, <3>2 DEF ReadFill
      <4>2. booked' \in [Orders -> Nat] /\ partials' \in SUBSET (Orders \X Nat)
        BY <3>1, <4>1 DEF OnOrderFilled, PublishFill, Book, TypeOK
      <4>3. /\ filled' \in [Orders -> Nat] /\ status' \in [Orders -> Statuses]
            /\ active' \in Nat
        BY <3>1, <4>1 DEF OnOrderFilled, OneLess, TypeOK, Statuses
      <4>4. revived' \in SUBSET Orders /\ UNCHANGED <<oid, missed, book, network, call, recon, confirmed>>
        BY <2>1, <3>2, <4>1 DEF ReadFill, OnOrderFilled, TypeOK
      <4>. QED
        BY <4>2, <4>3, <4>4 DEF TypeOK, book, network
    <3>3. CASE oid[o] # "right"
      BY <2>1, <3>1, <3>3 DEF ReadFill, TypeOK, told, Statuses, book, network
    <3>. QED
      BY <3>2, <3>3
  <2>2. ASSUME NEW o \in Orders, ReconSync(o)
        PROVE  TypeOK'
    BY <2>2 DEF ReconSync, Cancelled, OneLess, TypeOK, told, Statuses, table, book, network, ghosts
  <2>3. ASSUME NEW o \in Orders, ReconOrphan(o)
        PROVE  TypeOK'
    BY <2>3 DEF ReconOrphan, TypeOK, told, table, book, ghosts
  <2>4. CASE ReconCollect \/ ReconList \/ ReconSkip \/ ReconTurn \/ ReconDone
    <3>1. UNCHANGED <<table, book, network, call, ghosts>>
      BY <2>4 DEF ReconCollect, ReconList, ReconSkip, ReconTurn, ReconDone
    <3>2. recon' \in [phase : {"idle", "asked", "listed", "orphans"},
                      candidates : SUBSET Orders, rows : SUBSET Orders, young : SUBSET Orders]
      <4>1. CASE ReconCollect
        <5>. DEFINE C == {o \in Orders : Candidate(o)}
        <5>1. C \subseteq Orders
          OBVIOUS
        <5>2. recon' = [phase |-> "asked", candidates |-> C, rows |-> {}, young |-> {}]
          BY <4>1 DEF ReconCollect, NoRecon
        <5>. HIDE DEF C
        <5>. QED
          BY <5>1, <5>2
      <4>2. CASE ReconList
        <5>. DEFINE Y == Open \ aged
        <5>1. Open \subseteq Orders
          BY DEF Open
        <5>2. PICK R \in SUBSET Open :
                recon' = [recon EXCEPT !.phase = "listed", !.rows = R, !.young = Y]
          BY <4>2 DEF ReconList, Listings
        <5>3. Y \subseteq Orders /\ R \subseteq Orders
          BY <5>1, <5>2
        <5>. HIDE DEF Y
        <5>. QED
          BY <5>2, <5>3 DEF TypeOK, told
      <4>3. CASE ReconTurn
        <5>1. recon' = NoRecon \/ recon' = [recon EXCEPT !.phase = "orphans", !.candidates = {}, !.young = {}]
          BY <4>3 DEF ReconTurn
        <5>2. CASE recon' = NoRecon
          BY <5>2 DEF NoRecon
        <5>3. CASE recon' = [recon EXCEPT !.phase = "orphans", !.candidates = {}, !.young = {}]
          BY <5>3 DEF TypeOK, told
        <5>. QED
          BY <5>1, <5>2, <5>3
      <4>4. CASE ReconSkip \/ ReconDone
        BY <4>4 DEF ReconSkip, ReconDone, NoRecon
      <4>. QED
        BY <2>4, <4>1, <4>2, <4>3, <4>4
    <3>. QED
      BY <3>1, <3>2 DEF TypeOK, told, table, book, network, ghosts
  <2>. QED
    BY <1>3, <2>1, <2>2, <2>3, <2>4 DEF MainLoop
<1>4. ASSUME EventWorker
      PROVE  TypeOK'
  <2>1. PICK o \in Orders, n \in Nat : HandlePartial(o, n)
    BY <1>4 DEF EventWorker, TypeOK
  <2>. QED
    BY <2>1 DEF HandlePartial, Book, TypeOK, book, network, ghosts
<1>5. CASE UNCHANGED vars
  BY <1>5 DEF vars, table, book, network, ghosts, TypeOK, told
<1>. QED
  BY <1>1, <1>2, <1>3, <1>4, <1>5 DEF Next

(* The initial state.                                                        *)
LEMMA InitTable == Init => TableInv
<1>. SUFFICES ASSUME Init PROVE TableInv
  OBVIOUS
<1>. USE OrderGatewayAssumption
<1>1. TypeOK
  BY DEF Init, TypeOK, Statuses, NoRecon, NoCall
<1>2. PlaceOK /\ SentOK /\ IdOK /\ FillsOK
  BY DEF Init, PlaceOK, Waits, NoCall, SentOK, IdOK, FillsOK
<1>3. Counted = {}
  BY DEF Init, Counted, IsActive
<1>4. ActiveExact
  BY <1>3, FS_EmptySet DEF Init, ActiveExact
<1>. QED
  BY <1>1, <1>2, <1>4 DEF TableInv

(* Every variable has its type, for every set of orders and threads.         *)
THEOREM TypeCorrect == Spec => []TypeOK
<1>1. Init => TypeOK
  BY InitTable DEF TableInv
<1>2. TypeOK /\ [Next]_vars => TypeOK'
  BY TypeStep
<1>. QED
  BY <1>1, <1>2, PTL DEF Spec
-----------------------------------------------------------------------------
(* An event worker only tells of fills.                                      *)
LEMMA WorkerTells ==
  ASSUME EventWorker
  PROVE  UNCHANGED <<status, oid, filled, active, missed, book, network, call, recon, ghosts>>
BY DEF EventWorker, HandlePartial

(* What the table's own operations do to the count. An order that leaves the *)
(* counted ones takes one off.                                               *)
LEMMA CountLeaves ==
  ASSUME TypeOK, ActiveExact, NEW o \in Counted, NEW x,
         x \notin {"pending", "accepted", "partial"},
         status' = [status EXCEPT ![o] = x], active' = OneLess(active),
         revived \subseteq revived'
  PROVE  ActiveExact'
<1>. USE OrderGatewayAssumption
<1>1. Counted' = Counted \ {o}
  BY DEF Counted, IsActive, TypeOK
<1>2. IsFiniteSet(Counted)
  BY FS_Subset DEF Counted
<1>3. Cardinality(Counted') = Cardinality(Counted) - 1
  BY <1>1, <1>2, FS_RemoveElement
<1>4. Cardinality(Counted) # 0 /\ Cardinality(Counted) \in Nat
  BY <1>2, FS_EmptySet, FS_CardinalityType
<1>. QED
  BY <1>3, <1>4 DEF ActiveExact, OneLess, TypeOK

(* A step that neither counts an order nor stops counting one.               *)
LEMMA CountStays ==
  ASSUME ActiveExact, Counted' = Counted, active' = active, revived \subseteq revived'
  PROVE  ActiveExact'
BY DEF ActiveExact

(* cancelOrder and onOrderCancelled.                                         *)
LEMMA CancelledCounts ==
  ASSUME TypeOK, ActiveExact, NEW o \in Orders, Cancelled(o), revived \subseteq revived'
  PROVE  ActiveExact'
<1>1. CASE IsActive(o)
  <2>1. o \in Counted
    BY <1>1 DEF Counted
  <2>2. status' = [status EXCEPT ![o] = "cancelled"] /\ active' = OneLess(active)
    BY <1>1 DEF Cancelled
  <2>. QED
    BY <2>1, <2>2, CountLeaves
<1>2. CASE ~IsActive(o)
  <2>1. status' = status /\ active' = active
    BY <1>2 DEF Cancelled, table
  <2>. QED
    BY <2>1, CountStays DEF Counted, IsActive
<1>. QED
  BY <1>1, <1>2

(* Every step keeps the count exact.                                         *)
LEMMA CountStep ==
  ASSUME TableInv, [Next]_vars
  PROVE  ActiveExact'
<1>. USE OrderGatewayAssumption DEF TableInv
<1>1. ASSUME NEW t \in Threads, NEW o \in Orders, Strategy(t, o)
      PROVE  ActiveExact'
  <2>1. CASE Submit(t, o)
    <3>1. Counted' = Counted \cup {o} /\ o \notin Counted
      BY <2>1 DEF Submit, Counted, IsActive, TypeOK
    <3>2. IsFiniteSet(Counted)
      BY FS_Subset DEF Counted
    <3>3. Cardinality(Counted') = Cardinality(Counted) + 1
      BY <3>1, <3>2, FS_AddElement
    <3>. QED
      BY <2>1, <3>3 DEF Submit, ActiveExact, ghosts
  <2>2. CASE SubmitTooSmall(t, o)
    <3>1. Counted' = Counted
      BY <2>2 DEF SubmitTooSmall, Counted, IsActive, TypeOK
    <3>. QED
      BY <2>2, <3>1, CountStays DEF SubmitTooSmall, ghosts
  <2>3. CASE PlaceAccepted(t, o)
    <3>1. status[o] = "pending"
      BY <2>3 DEF PlaceAccepted, PlaceOK
    <3>2. Counted' = Counted
      BY <2>3, <3>1 DEF PlaceAccepted, OnOrderAccepted, Counted, IsActive, TypeOK
    <3>. QED
      BY <2>3, <3>2, CountStays DEF PlaceAccepted, OnOrderAccepted, ghosts
  <2>4. CASE PlaceFailed(t, o)
    <3>1. o \in Counted
      BY <2>4 DEF PlaceFailed, PlaceOK, Counted
    <3>2. status' = [status EXCEPT ![o] = "rejected"] /\ active' = OneLess(active)
      BY <2>4 DEF PlaceFailed, OnOrderRejected
    <3>. QED
      BY <2>4, <3>1, <3>2, CountLeaves DEF PlaceFailed, ghosts
  <2>5. CASE CancelConfirmed(t, o) \/ CancelBenign(t, o) \/ CancelDirect(t, o)
    BY <2>5, CancelledCounts
       DEF CancelConfirmed, CancelBenign, CancelDirect, CancelLocally, ghosts
  <2>6. CASE CancelAtVenue(t, o) \/ CancelAgain(t, o) \/ CancelFailed(t, o) \/ EchoAnswered(t, o)
    <3>1. UNCHANGED <<table, ghosts>>
      BY <2>6 DEF CancelAtVenue, CancelAgain, CancelFailed, EchoAnswered
    <3>. QED
      BY <3>1, CountStays DEF Counted, IsActive, table, ghosts
  <2>. QED
    BY <1>1, <2>1, <2>2, <2>3, <2>4, <2>5, <2>6 DEF Strategy
<1>2. ASSUME NEW o \in Orders, Venue(o)
      PROVE  ActiveExact'
  <2>1. UNCHANGED <<table, ghosts>>
    BY <1>2 DEF Venue, VenueTake, VenueCancel, Lose, Execute, Age
  <2>. QED
    BY <2>1, CountStays DEF Counted, IsActive, table, ghosts
<1>3. ASSUME MainLoop
      PROVE  ActiveExact'
  <2>1. ASSUME NEW o \in Orders, ReadFill(o)
        PROVE  ActiveExact'
    <3>1. CASE oid[o] # "right"
      BY <2>1, <3>1, CountStays DEF ReadFill, Counted, IsActive
    <3>2. CASE oid[o] = "right" /\ status[o] = "cancelled"
      <4>1. revived' # {}
        BY <2>1, <3>2 DEF ReadFill
      <4>. QED
        BY <4>1 DEF ActiveExact
    <3>3. CASE oid[o] = "right" /\ status[o] # "cancelled"
      <4>1. OnOrderFilled(o) /\ revived' = revived
        BY <2>1, <3>3 DEF ReadFill
      <4>2. status[o] # "filled"
        BY <2>1, <3>3 DEF ReadFill, Unread, FillsOK, TypeOK
      <4>3. IsActive(o)
        BY <3>3, <4>2 DEF IdOK, IsActive, TypeOK, Statuses
      <4>4. CASE filled[o] + 1 >= Qty
        <5>1. status' = [status EXCEPT ![o] = "filled"] /\ active' = OneLess(active)
          BY <4>1, <4>3, <4>4 DEF OnOrderFilled
        <5>2. o \in Counted
          BY <4>3 DEF Counted
        <5>. QED
          BY <4>1, <5>1, <5>2, CountLeaves
      <4>5. CASE ~(filled[o] + 1 >= Qty)
        <5>1. status' = [status EXCEPT ![o] = "partial"] /\ active' = active
          BY <4>1, <4>5 DEF OnOrderFilled
        <5>2. Counted' = Counted
          BY <4>3, <5>1 DEF Counted, IsActive, TypeOK
        <5>. QED
          BY <4>1, <5>1, <5>2, CountStays
      <4>. QED
        BY <4>4, <4>5
    <3>. QED
      BY <3>1, <3>2, <3>3
  <2>2. ASSUME NEW o \in Orders, ReconSync(o)
        PROVE  ActiveExact'
    BY <2>2, CancelledCounts DEF ReconSync, ghosts
  <2>3. ASSUME NEW o \in Orders, ReconOrphan(o)
        PROVE  ActiveExact'
    BY <2>3, CountStays DEF ReconOrphan, Counted, IsActive, table, ghosts
  <2>4. CASE ReconCollect \/ ReconList \/ ReconSkip \/ ReconTurn \/ ReconDone
    <3>1. UNCHANGED <<table, ghosts>>
      BY <2>4 DEF ReconCollect, ReconList, ReconSkip, ReconTurn, ReconDone
    <3>. QED
      BY <3>1, CountStays DEF Counted, IsActive, table, ghosts
  <2>. QED
    BY <1>3, <2>1, <2>2, <2>3, <2>4 DEF MainLoop
<1>4. ASSUME EventWorker
      PROVE  ActiveExact'
  BY <1>4, WorkerTells, CountStays DEF Counted, IsActive, ghosts
<1>5. CASE UNCHANGED vars
  BY <1>5, CountStays DEF vars, Counted, IsActive, table, ghosts
<1>. QED
  BY <1>1, <1>2, <1>3, <1>4, <1>5 DEF Next

(* Every step keeps the rest of the invariant.                               *)
LEMMA OrderStep ==
  ASSUME TableInv, [Next]_vars
  PROVE  PlaceOK' /\ SentOK' /\ IdOK' /\ FillsOK'
<1>. USE OrderGatewayAssumption DEF TableInv
<1>1. ASSUME NEW t \in Threads, NEW o \in Orders, Strategy(t, o)
      PROVE  PlaceOK' /\ SentOK' /\ IdOK' /\ FillsOK'
  <2>1. CASE Submit(t, o)
    BY <2>1 DEF Submit, Idle, WaitFor, NoCall, book, ghosts, Waits, TypeOK, PlaceOK, SentOK, IdOK, FillsOK
  <2>2. CASE SubmitTooSmall(t, o)
    BY <2>2 DEF SubmitTooSmall, book, network, ghosts, Waits, TypeOK, PlaceOK, SentOK, IdOK, FillsOK
  <2>3. CASE PlaceAccepted(t, o)
    BY <2>3 DEF PlaceAccepted, OnOrderAccepted, Return, NoCall, book, network, Waits, TypeOK, PlaceOK, SentOK, IdOK, FillsOK
  <2>4. CASE PlaceFailed(t, o)
    BY <2>4 DEF PlaceFailed, OnOrderRejected, Return, NoCall, book, network, Waits, TypeOK, PlaceOK, SentOK, IdOK, FillsOK
  <2>5. CASE CancelAtVenue(t, o)
    BY <2>5 DEF CancelAtVenue, WaitFor, table, book, Waits, TypeOK, PlaceOK, SentOK, IdOK, FillsOK
  <2>6. CASE CancelAgain(t, o)
    BY <2>6 DEF CancelAgain, WaitFor, table, book, Waits, TypeOK, PlaceOK, SentOK, IdOK, FillsOK
  <2>7. CASE CancelFailed(t, o)
    BY <2>7 DEF CancelFailed, Return, NoCall, table, book, network, Waits, TypeOK, PlaceOK, SentOK, IdOK, FillsOK
  <2>8. CASE CancelConfirmed(t, o)
    <3>1. CASE IsActive(o)
      <4>1. status' = [status EXCEPT ![o] = "cancelled"] /\ UNCHANGED <<oid, filled, missed, book, places>>
        BY <2>8, <3>1 DEF CancelConfirmed, CancelLocally, Cancelled
      <4>2. WaitFor(t, "echo", o) /\ ~Waits(t, "place", o) /\ status[o] # "none"
        BY <2>8, <3>1 DEF CancelConfirmed, CancelLocally, Waits, Idle, NoCall, IsActive
      <4>3. PlaceOK'
        BY <3>1, <4>1, <4>2 DEF PlaceOK, WaitFor, Waits, TypeOK, IsActive
      <4>4. SentOK' /\ IdOK' /\ FillsOK'
        BY <4>1, <4>2 DEF book, TypeOK, SentOK, IdOK, FillsOK
      <4>. QED
        BY <4>3, <4>4
    <3>2. CASE ~IsActive(o)
      <4>1. UNCHANGED <<table, book, places>> /\ Return(t)
        BY <2>8, <3>2 DEF CancelConfirmed, CancelLocally, Cancelled
      <4>. QED
        BY <4>1 DEF Return, NoCall, table, book, Waits, TypeOK, PlaceOK, SentOK, IdOK, FillsOK
    <3>. QED
      BY <3>1, <3>2
  <2>9. CASE CancelBenign(t, o)
    <3>1. CASE IsActive(o)
      <4>1. status' = [status EXCEPT ![o] = "cancelled"] /\ UNCHANGED <<oid, filled, missed, book, places>>
        BY <2>9, <3>1 DEF CancelBenign, CancelLocally, Cancelled
      <4>2. WaitFor(t, "echo", o) /\ ~Waits(t, "place", o) /\ status[o] # "none"
        BY <2>9, <3>1 DEF CancelBenign, CancelLocally, Waits, Idle, NoCall, IsActive
      <4>3. PlaceOK'
        BY <3>1, <4>1, <4>2 DEF PlaceOK, WaitFor, Waits, TypeOK, IsActive
      <4>4. SentOK' /\ IdOK' /\ FillsOK'
        BY <4>1, <4>2 DEF book, TypeOK, SentOK, IdOK, FillsOK
      <4>. QED
        BY <4>3, <4>4
    <3>2. CASE ~IsActive(o)
      <4>1. UNCHANGED <<table, book, places>> /\ Return(t)
        BY <2>9, <3>2 DEF CancelBenign, CancelLocally, Cancelled
      <4>. QED
        BY <4>1 DEF Return, NoCall, table, book, Waits, TypeOK, PlaceOK, SentOK, IdOK, FillsOK
    <3>. QED
      BY <3>1, <3>2
  <2>10. CASE CancelDirect(t, o)
    <3>1. CASE IsActive(o)
      <4>1. status' = [status EXCEPT ![o] = "cancelled"] /\ UNCHANGED <<oid, filled, missed, book, places>>
        BY <2>10, <3>1 DEF CancelDirect, CancelLocally, Cancelled
      <4>2. WaitFor(t, "echo", o) /\ ~Waits(t, "place", o) /\ status[o] # "none"
        BY <2>10, <3>1 DEF CancelDirect, CancelLocally, Waits, Idle, NoCall, IsActive
      <4>3. PlaceOK'
        BY <3>1, <4>1, <4>2 DEF PlaceOK, WaitFor, Waits, TypeOK, IsActive
      <4>4. SentOK' /\ IdOK' /\ FillsOK'
        BY <4>1, <4>2 DEF book, TypeOK, SentOK, IdOK, FillsOK
      <4>. QED
        BY <4>3, <4>4
    <3>2. CASE ~IsActive(o)
      <4>1. UNCHANGED <<table, book, places>> /\ Return(t)
        BY <2>10, <3>2 DEF CancelDirect, CancelLocally, Cancelled
      <4>. QED
        BY <4>1 DEF Return, NoCall, table, book, Waits, TypeOK, PlaceOK, SentOK, IdOK, FillsOK
    <3>. QED
      BY <3>1, <3>2
  <2>11. CASE EchoAnswered(t, o)
    BY <2>11 DEF EchoAnswered, Return, NoCall, table, book, network, Waits, TypeOK, PlaceOK, SentOK, IdOK, FillsOK
  <2>. QED
    BY <1>1, <2>1, <2>2, <2>3, <2>4, <2>5, <2>6, <2>7, <2>8, <2>9, <2>10, <2>11 DEF Strategy
<1>2. ASSUME NEW o \in Orders, Venue(o)
      PROVE  PlaceOK' /\ SentOK' /\ IdOK' /\ FillsOK'
  <2>1. CASE VenueTake(o)
    BY <2>1 DEF VenueTake, table, Waits, TypeOK, PlaceOK, SentOK, IdOK, FillsOK
  <2>2. CASE VenueCancel(o)
    BY <2>2 DEF VenueCancel, table, Waits, TypeOK, PlaceOK, SentOK, IdOK, FillsOK
  <2>3. CASE Lose(o)
    BY <2>3 DEF Lose, table, book, Waits, TypeOK, PlaceOK, SentOK, IdOK, FillsOK
  <2>4. CASE Execute(o)
    BY <2>4 DEF Execute, table, network, Waits, TypeOK, PlaceOK, SentOK, IdOK, FillsOK
  <2>5. CASE Age(o)
    BY <2>5 DEF Age, table, network, Waits, TypeOK, PlaceOK, SentOK, IdOK, FillsOK
  <2>. QED
    BY <1>2, <2>1, <2>2, <2>3, <2>4, <2>5 DEF Venue
<1>3. ASSUME MainLoop
      PROVE  PlaceOK' /\ SentOK' /\ IdOK' /\ FillsOK'
  <2>1. ASSUME NEW o \in Orders, ReadFill(o)
        PROVE  PlaceOK' /\ SentOK' /\ IdOK' /\ FillsOK'
    <3>1. UNCHANGED <<oid, venue, vfill, places, call>> /\ vfill[o] - filled[o] - missed[o] > 0
      BY <2>1 DEF ReadFill, OnOrderFilled, Unread, book, network
    <3>2. CASE oid[o] = "right"
      <4>1. /\ filled' = [filled EXCEPT ![o] = @ + 1] /\ missed' = missed
            /\ status' = [status EXCEPT ![o] = IF filled[o] + 1 >= Qty THEN "filled" ELSE "partial"]
        BY <2>1, <3>2 DEF ReadFill, OnOrderFilled
      <4>2. status[o] \notin {"none", "pending", "rejected"}
        BY <3>2 DEF IdOK
      <4>3. PlaceOK' /\ SentOK' /\ IdOK'
        BY <3>1, <4>1, <4>2 DEF Waits, TypeOK, PlaceOK, SentOK, IdOK
      <4>4. FillsOK'
        BY <3>1, <4>1 DEF TypeOK, FillsOK
      <4>. QED
        BY <4>3, <4>4
    <3>3. CASE oid[o] # "right"
      BY <2>1, <3>1, <3>3 DEF ReadFill, Waits, TypeOK, PlaceOK, SentOK, IdOK, FillsOK
    <3>. QED
      BY <3>2, <3>3
  <2>2. ASSUME NEW o \in Orders, ReconSync(o)
        PROVE  PlaceOK' /\ SentOK' /\ IdOK' /\ FillsOK'
    BY <2>2 DEF ReconSync, Cancelled, IsActive, table, book, network, Waits, TypeOK, PlaceOK, SentOK, IdOK, FillsOK
  <2>3. ASSUME NEW o \in Orders, ReconOrphan(o)
        PROVE  PlaceOK' /\ SentOK' /\ IdOK' /\ FillsOK'
    BY <2>3 DEF ReconOrphan, table, book, Waits, TypeOK, PlaceOK, SentOK, IdOK, FillsOK
  <2>4. CASE ReconCollect \/ ReconList \/ ReconSkip \/ ReconTurn \/ ReconDone
    <3>1. UNCHANGED <<table, book, network, call>>
      BY <2>4 DEF ReconCollect, ReconList, ReconSkip, ReconTurn, ReconDone
    <3>. QED
      BY <3>1 DEF table, book, network, Waits, PlaceOK, SentOK, IdOK, FillsOK
  <2>. QED
    BY <1>3, <2>1, <2>2, <2>3, <2>4 DEF MainLoop
<1>4. ASSUME EventWorker
      PROVE  PlaceOK' /\ SentOK' /\ IdOK' /\ FillsOK'
  BY <1>4, WorkerTells DEF book, network, Waits, PlaceOK, SentOK, IdOK, FillsOK
<1>5. CASE UNCHANGED vars
  BY <1>5 DEF vars, table, book, network, Waits, PlaceOK, SentOK, IdOK, FillsOK
<1>. QED
  BY <1>1, <1>2, <1>3, <1>4, <1>5 DEF Next

(* The invariant holds in every reachable state.                             *)
LEMMA TableInvariant == Spec => []TableInv
<1>1. TableInv /\ [Next]_vars => TableInv'
  BY TypeStep, CountStep, OrderStep DEF TableInv
<1>. QED
  BY InitTable, <1>1, PTL DEF Spec

(* stats_.active_orders is exact for every set of orders and threads, unless  *)
(* an order was filled after its cancel.                                     *)
THEOREM ActiveCount == Spec => []ActiveExact
<1>1. TableInv => ActiveExact
  BY DEF TableInv
<1>. QED
  BY TableInvariant, <1>1, PTL

(* No step moves an order out of FILLED or REJECTED.                         *)
LEMMA FinalStep ==
  ASSUME TableInv, [Next]_vars, NEW p \in Orders, status[p] \in {"filled", "rejected"}
  PROVE  status'[p] = status[p]
<1>. USE OrderGatewayAssumption DEF TableInv
<1>1. ASSUME NEW t \in Threads, NEW o \in Orders, Strategy(t, o)
      PROVE  status'[p] = status[p]
  <2>1. CASE Submit(t, o) \/ SubmitTooSmall(t, o)
    BY <2>1 DEF Submit, SubmitTooSmall, TypeOK
  <2>2. CASE PlaceAccepted(t, o) \/ PlaceFailed(t, o)
    <3>1. status[o] = "pending"
      BY <2>2 DEF PlaceAccepted, PlaceFailed, PlaceOK
    <3>. QED
      BY <2>2, <3>1 DEF PlaceAccepted, PlaceFailed, OnOrderAccepted, OnOrderRejected, TypeOK
  <2>3. CASE CancelConfirmed(t, o) \/ CancelBenign(t, o) \/ CancelDirect(t, o)
    BY <2>3 DEF CancelConfirmed, CancelBenign, CancelDirect, CancelLocally, Cancelled, IsActive, table, TypeOK
  <2>4. CASE CancelAtVenue(t, o) \/ CancelAgain(t, o) \/ CancelFailed(t, o) \/ EchoAnswered(t, o)
    BY <2>4 DEF CancelAtVenue, CancelAgain, CancelFailed, EchoAnswered, table
  <2>. QED
    BY <1>1, <2>1, <2>2, <2>3, <2>4 DEF Strategy
<1>2. ASSUME NEW o \in Orders, Venue(o)
      PROVE  status'[p] = status[p]
  BY <1>2 DEF Venue, VenueTake, VenueCancel, Lose, Execute, Age, table
<1>3. ASSUME MainLoop
      PROVE  status'[p] = status[p]
  <2>1. ASSUME NEW o \in Orders, ReadFill(o)
        PROVE  status'[p] = status[p]
    <3>1. CASE oid[o] = "right"
      <4>1. status[o] # "filled"
        BY <2>1 DEF ReadFill, Unread, FillsOK, TypeOK
      <4>2. status[o] # "rejected"
        BY <3>1 DEF IdOK
      <4>. QED
        BY <2>1, <3>1, <4>1, <4>2 DEF ReadFill, OnOrderFilled, TypeOK
    <3>2. CASE oid[o] # "right"
      BY <2>1, <3>2 DEF ReadFill
    <3>. QED
      BY <3>1, <3>2
  <2>2. ASSUME NEW o \in Orders, ReconSync(o)
        PROVE  status'[p] = status[p]
    BY <2>2 DEF ReconSync, Cancelled, IsActive, table, TypeOK
  <2>3. ASSUME NEW o \in Orders, ReconOrphan(o)
        PROVE  status'[p] = status[p]
    BY <2>3 DEF ReconOrphan, table
  <2>4. CASE ReconCollect \/ ReconList \/ ReconSkip \/ ReconTurn \/ ReconDone
    BY <2>4 DEF ReconCollect, ReconList, ReconSkip, ReconTurn, ReconDone, table
  <2>. QED
    BY <1>3, <2>1, <2>2, <2>3, <2>4 DEF MainLoop
<1>4. ASSUME EventWorker
      PROVE  status'[p] = status[p]
  BY <1>4, WorkerTells
<1>5. CASE UNCHANGED vars
  BY <1>5 DEF vars, table
<1>. QED
  BY <1>1, <1>2, <1>3, <1>4, <1>5 DEF Next

(* FILLED and REJECTED are final for every set of orders and threads, although *)
(* neither onOrderAccepted nor onOrderFilled looks at the status.            *)
THEOREM FinalStaysFinal == Spec => TerminalSticky
<1>1. TableInv /\ [Next]_vars => [\A o \in Orders : status[o] \in {"filled", "rejected"} => status'[o] = status[o]]_vars
  BY FinalStep
<1>. QED
  BY TableInvariant, <1>1, PTL DEF Spec, TerminalSticky
-----------------------------------------------------------------------------
(* An accept is an answer of the venue, which has taken the order by then.   *)
AnswerOK == \A o \in Orders : oid[o] = "right" => venue[o] # "none"

(* An order is old only while it is open, and after its place call has ended.*)
AgedOK == \A o \in aged : venue[o] = "open" /\ ~Placing(o)

(* What the pass has collected was accepted before; what the listing does not *)
(* show of it is not open any more, or was too young to be shown.            *)
ReconOK ==
  /\ recon.phase \in {"asked", "listed"} =>
       \A o \in recon.candidates : status[o] \notin {"none", "pending"}
  /\ recon.phase = "listed" =>
       \A o \in recon.candidates \ recon.rows :
         oid[o] = "right" => venue[o] # "open" \/ o \in recon.young

(* The inductive invariant behind SyncSound and OrphanSound.                 *)
ReconInv == AnswerOK /\ AgedOK /\ ReconOK

(* A step that leaves the pass alone keeps the invariant, if it takes back no *)
(* accept, reopens no order and makes no order old too early.                *)
LEMMA ReconFrame ==
  ASSUME TypeOK, ReconInv, recon' = recon,
         \A o \in Orders : status[o] \notin {"none", "pending"} =>
            status'[o] \notin {"none", "pending"} /\ oid'[o] = oid[o],
         \A o \in Orders : venue'[o] = "open" => venue[o] \in {"none", "open"},
         \A o \in Orders : oid'[o] = "right" => venue'[o] # "none",
         \A o \in aged' : venue'[o] = "open" /\ ~Placing(o)'
  PROVE  ReconInv'
<1>1. AnswerOK' /\ AgedOK'
  BY DEF AnswerOK, AgedOK
<1>2. ReconOK'
  <2>1. recon.candidates \subseteq Orders
    BY DEF TypeOK
  <2>2. ASSUME recon.phase = "listed", NEW o \in recon.candidates \ recon.rows,
               oid'[o] = "right", o \notin recon.young
        PROVE  venue'[o] # "open"
    <3>1. oid[o] = "right"
      BY <2>1, <2>2 DEF ReconInv, ReconOK
    <3>2. venue[o] # "open" /\ venue[o] # "none"
      BY <2>1, <2>2, <3>1 DEF ReconInv, ReconOK, AnswerOK
    <3>. QED
      BY <2>1, <3>2
  <2>. QED
    BY <2>1, <2>2 DEF ReconInv, ReconOK
<1>. QED
  BY <1>1, <1>2 DEF ReconInv

(* A thread's step other than a submission does not start a place call.      *)
LEMMA PlacingEnds ==
  ASSUME TypeOK, NEW t \in Threads, NEW o \in Orders, Strategy(t, o), ~Submit(t, o),
         NEW p \in Orders, Placing(p)'
  PROVE  Placing(p)
<1>. USE DEF Placing, NoCall, WaitFor, Return, TypeOK
<1>1. CASE SubmitTooSmall(t, o)
  BY <1>1 DEF SubmitTooSmall
<1>2. CASE PlaceAccepted(t, o) \/ PlaceFailed(t, o) \/ CancelFailed(t, o) \/ EchoAnswered(t, o)
  BY <1>2 DEF PlaceAccepted, PlaceFailed, CancelFailed, EchoAnswered
<1>3. CASE CancelAtVenue(t, o) \/ CancelAgain(t, o)
  BY <1>3 DEF CancelAtVenue, CancelAgain
<1>4. CASE CancelConfirmed(t, o) \/ CancelBenign(t, o) \/ CancelDirect(t, o)
  BY <1>4 DEF CancelConfirmed, CancelBenign, CancelDirect, CancelLocally
<1>. QED
  BY <1>1, <1>2, <1>3, <1>4 DEF Strategy

(* What a step of a thread does to status, exchange id and the venue's book. *)
LEMMA StrategyTable ==
  ASSUME TableInv, NEW t \in Threads, NEW o \in Orders, Strategy(t, o)
  PROVE  /\ UNCHANGED <<book, recon>>
         /\ \A p \in Orders : status[p] \notin {"none", "pending"} =>
               status'[p] \notin {"none", "pending"} /\ oid'[p] = oid[p]
         /\ \A p \in Orders : oid'[p] = "right" => oid[p] = "right" \/ venue[p] # "none"
<1>. USE DEF TableInv, TypeOK
<1>1. CASE Submit(t, o) \/ SubmitTooSmall(t, o)
  BY <1>1 DEF Submit, SubmitTooSmall
<1>2. CASE PlaceAccepted(t, o) \/ PlaceFailed(t, o)
  <2>1. status[o] = "pending"
    BY <1>2 DEF PlaceAccepted, PlaceFailed, PlaceOK
  <2>. QED
    BY <1>2, <2>1 DEF PlaceAccepted, PlaceFailed, OnOrderAccepted, OnOrderRejected, book
<1>3. CASE CancelAtVenue(t, o) \/ CancelAgain(t, o) \/ CancelFailed(t, o) \/ EchoAnswered(t, o)
  BY <1>3 DEF CancelAtVenue, CancelAgain, CancelFailed, EchoAnswered, table
<1>4. CASE CancelConfirmed(t, o) \/ CancelBenign(t, o) \/ CancelDirect(t, o)
  <2>1. Cancelled(o) /\ UNCHANGED <<book, recon>>
    BY <1>4 DEF CancelConfirmed, CancelBenign, CancelDirect, CancelLocally
  <2>. QED
    BY <2>1 DEF Cancelled, IsActive, table
<1>. QED
  BY <1>1, <1>2, <1>3, <1>4 DEF Strategy

(* Every step keeps the reconcile pass right about the venue.                *)
LEMMA ReconStep ==
  ASSUME TableInv, ReconInv, [Next]_vars
  PROVE  ReconInv'
<1>. TypeOK /\ SentOK /\ IdOK /\ AnswerOK /\ AgedOK /\ ReconOK
  BY DEF TableInv, ReconInv
<1>1. ASSUME NEW t \in Threads, NEW o \in Orders, Strategy(t, o)
      PROVE  ReconInv'
  <2>1. \A p \in aged : ~Placing(p)'
    <3>1. CASE Submit(t, o)
      <4>1. o \notin aged
        BY <3>1 DEF Submit, SentOK, AgedOK
      <4>. QED
        BY <3>1, <4>1 DEF Submit, WaitFor, Placing, AgedOK, TypeOK
    <3>2. CASE ~Submit(t, o)
      BY <1>1, <3>2, PlacingEnds DEF AgedOK, TypeOK
    <3>. QED
      BY <3>1, <3>2
  <2>. QED
    BY <1>1, <2>1, StrategyTable, ReconFrame DEF book, AnswerOK, AgedOK
<1>2. ASSUME NEW o \in Orders, Venue(o)
      PROVE  ReconInv'
  <2>1. UNCHANGED <<table, call, recon>>
    BY <1>2 DEF Venue, VenueTake, VenueCancel, Lose, Execute, Age
  <2>2. CASE VenueTake(o)
    <3>1. venue[o] = "none"
      BY <2>2 DEF VenueTake, SentOK
    <3>2. oid[o] # "right"
      BY <3>1 DEF AnswerOK
    <3>3. ReconInv'
      <4>1. AnswerOK' /\ AgedOK'
        BY <2>1, <2>2 DEF VenueTake, AnswerOK, AgedOK, Placing, table, TypeOK
      <4>2. ReconOK'
        BY <2>1, <2>2, <3>2 DEF VenueTake, ReconOK, table, TypeOK
      <4>. QED
        BY <4>1, <4>2 DEF ReconInv
    <3>. QED
      BY <3>3
  <2>3. CASE VenueCancel(o) \/ Lose(o) \/ Execute(o) \/ Age(o)
    <3>1. \A p \in Orders : /\ venue'[p] = "open" => venue[p] = "open"
                            /\ venue[p] = "none" <=> venue'[p] = "none"
      BY <2>3 DEF VenueCancel, Lose, Execute, Age, book, TypeOK
    <3>2. \A p \in aged' : venue'[p] = "open" /\ ~Placing(p)'
      BY <2>1, <2>3 DEF VenueCancel, Lose, Execute, Age, book, Placing, AgedOK, TypeOK
    <3>. QED
      BY <2>1, <3>1, <3>2, ReconFrame DEF table, AnswerOK
  <2>. QED
    BY <1>2, <2>2, <2>3 DEF Venue
<1>3. ASSUME MainLoop
      PROVE  ReconInv'
  <2>1. ASSUME NEW o \in Orders, ReadFill(o)
        PROVE  ReconInv'
    <3>1. UNCHANGED <<oid, book, call, recon>>
      BY <2>1 DEF ReadFill, OnOrderFilled
    <3>2. \A p \in Orders : status[p] \notin {"none", "pending"} => status'[p] \notin {"none", "pending"}
      BY <2>1 DEF ReadFill, OnOrderFilled, TypeOK
    <3>. QED
      BY <3>1, <3>2, ReconFrame DEF book, Placing, AnswerOK, AgedOK
  <2>2. ASSUME NEW o \in Orders, ReconSync(o)
        PROVE  ReconInv'
    <3>1. Cancelled(o) /\ UNCHANGED <<book, call>>
      BY <2>2 DEF ReconSync
    <3>2. UNCHANGED oid /\ \A p \in Orders : status[p] \notin {"none", "pending"} =>
                                              status'[p] \notin {"none", "pending"}
      BY <3>1 DEF Cancelled, IsActive, table, TypeOK
    <3>3. /\ recon'.phase = recon.phase /\ recon'.rows = recon.rows
          /\ recon'.young = recon.young
          /\ recon'.candidates \subseteq recon.candidates
      BY <2>2 DEF ReconSync, TypeOK
    <3>4. ReconOK'
      BY <3>1, <3>2, <3>3 DEF ReconOK, book, TypeOK
    <3>5. AnswerOK' /\ AgedOK'
      BY <3>1, <3>2 DEF AnswerOK, AgedOK, Placing, book
    <3>. QED
      BY <3>4, <3>5 DEF ReconInv
  <2>3. ASSUME UNCHANGED <<table, book, call>>, ReconOK'
        PROVE  ReconInv'
    BY <2>3 DEF ReconInv, AnswerOK, AgedOK, Placing, table, book
  <2>4. ASSUME NEW o \in Orders, ReconOrphan(o)
        PROVE  ReconInv'
    <3>1. recon'.phase = "orphans"
      BY <2>4 DEF ReconOrphan, TypeOK
    <3>. QED
      BY <2>3, <2>4, <3>1 DEF ReconOrphan, ReconOK
  <2>5. CASE ReconCollect
    <3>1. recon'.phase = "asked" /\ recon'.candidates = {o \in Orders : Candidate(o)}
      BY <2>5 DEF ReconCollect, NoRecon
    <3>. QED
      BY <2>3, <2>5, <3>1 DEF ReconCollect, ReconOK, Candidate, IsActive, table
  <2>6. CASE ReconList
    <3>1. /\ recon'.candidates = recon.candidates /\ recon.phase = "asked"
          /\ \A o \in Open \ recon'.rows : o \in recon'.young
      BY <2>6 DEF ReconList, Listings, TypeOK
    <3>. QED
      BY <2>3, <2>6, <3>1 DEF ReconList, ReconOK, Open, table, book, TypeOK
  <2>7. CASE ReconSkip \/ ReconDone
    BY <2>3, <2>7 DEF ReconSkip, ReconDone, NoRecon, ReconOK
  <2>8. CASE ReconTurn
    <3>1. recon'.phase \in {"idle", "orphans"}
      <4>1. recon' = NoRecon \/ recon' = [recon EXCEPT !.phase = "orphans", !.candidates = {}, !.young = {}]
        BY <2>8 DEF ReconTurn
      <4>2. CASE recon' = NoRecon
        BY <4>2 DEF NoRecon
      <4>3. CASE recon' = [recon EXCEPT !.phase = "orphans", !.candidates = {}, !.young = {}]
        BY <4>3 DEF TypeOK
      <4>. QED
        BY <4>1, <4>2, <4>3
    <3>. QED
      BY <2>3, <2>8, <3>1 DEF ReconTurn, ReconOK
  <2>. QED
    BY <1>3, <2>1, <2>2, <2>4, <2>5, <2>6, <2>7, <2>8 DEF MainLoop
<1>4. ASSUME EventWorker
      PROVE  ReconInv'
  BY <1>4, WorkerTells, ReconFrame DEF book, Placing, AnswerOK, AgedOK
<1>5. CASE UNCHANGED vars
  BY <1>5, ReconFrame DEF vars, table, book, Placing, AnswerOK, AgedOK
<1>. QED
  BY <1>1, <1>2, <1>3, <1>4, <1>5 DEF Next

(* The reconcile invariant holds always.                                     *)
LEMMA ReconInvariant == Spec => []ReconInv
<1>1. Init => ReconInv
  BY DEF Init, ReconInv, AnswerOK, AgedOK, ReconOK, NoRecon
<1>2. TableInv /\ ReconInv /\ [Next]_vars => ReconInv'
  BY ReconStep
<1>. QED
  BY <1>1, <1>2, TableInvariant, PTL DEF Spec

(* For any set of orders and threads, whether the listing lags or not: the    *)
(* reconcile pass marks CANCELLED only orders that are not open any more, or *)
(* were too young for the listing. What it compares was accepted before it   *)
(* asked, what is old enough is listed, and nothing reopens.                 *)
THEOREM SyncIsSound == Spec => SyncSound
<1>1. ReconInv /\ [Next]_vars =>
        [\A o \in Orders : ReconSync(o) /\ status'[o] # status[o] /\ oid[o] = "right" =>
                            venue[o] # "open" \/ o \in recon.young]_vars
  BY DEF ReconSync, ReconInv, ReconOK, ToCompare, Shown
<1>. QED
  BY <1>1, ReconInvariant, PTL DEF Spec, SyncSound

(* If the clocks agree, the orphan pass never cancels an order that is still  *)
(* being placed, for any set of orders and threads: an order outlives its     *)
(* grace only after its place call has ended.                                *)
THEOREM OrphanIsSound ==
  ASSUME ~ClockAhead
  PROVE  Spec => OrphanSound
<1>1. ReconInv /\ [Next]_vars =>
        [\A o \in Orders : ReconOrphan(o) /\ cancels' # cancels => ~Placing(o)]_vars
  BY DEF ReconOrphan, Young, ReconInv, AgedOK
<1>. QED
  BY <1>1, ReconInvariant, PTL DEF Spec, OrphanSound
=============================================================================

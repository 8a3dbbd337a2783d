------------------------ MODULE FillPipeline_proofs ------------------------
(***************************************************************************)
(* FillPipeline for every set of trades, overlap, look-back, skew, page and *)
(* queue bound: types, the gap-freedom of the cursor and its monotonicity.  *)
(* NetPosition for every cap, any legs and any number of fills: the book    *)
(* that the fills are added to, and what may rest at the cap.               *)
(***************************************************************************)
EXTENDS FillPipeline, NetPosition, FiniteSetTheorems, NaturalsInduction, WellFoundedInduction, TLAPS

-----------------------------------------------------------------------------
(* FillPipeline.                                                             *)

(* The part of a fetch or a body that does not depend on the answer: it      *)
(* starts early enough for any cursor the body may move, and not after the   *)
(* cursor once there is one.                                                 *)
StartOK(start) ==
  /\ start = 0 \/ start + Overlap <= now
  /\ floor # NoFloor => start <= cursor

(* A whole answer misses, of the executions since its start, only applied    *)
(* ones and those too recent to be behind a cursor it may move in time.      *)
Accounts(b) ==
  /\ b.at <= now
  /\ b.whole => \A t \in Trades :
       t \in Executed /\ ts[t] >= b.start =>
         t \in b.page \/ t \in Ever \/ ts[t] + Skew >= b.at

BodyOK(b) == StartOK(b.start) /\ Accounts(b)

CursorOK ==
  /\ now >= Lookback
  /\ cursor = 0 \/ cursor + Overlap <= now
  /\ floor # NoFloor => cursor > 0
  /\ floor # NoFloor /\ ~lossy => Skew <= Overlap

FetchOK ==
  /\ fetch.phase # "idle" => StartOK(fetch.start)
  /\ fetch.phase = "served" => Accounts(fetch)

QueueOK == \A i \in 1..Len(queue) : BodyOK(queue[i])
LocalOK == \A i \in 1..Len(local) : BodyOK(local[i])

(* The inductive invariant behind NoFillSkipped.                             *)
GapInv ==
  /\ TypeOK
  /\ CursorOK
  /\ FetchOK
  /\ QueueOK
  /\ LocalOK
  /\ processed \subseteq Ever
  /\ NoFillSkipped
-----------------------------------------------------------------------------
(* Appending a body to a queue of bodies.                                    *)
LEMMA AppendBodies ==
  ASSUME NEW q \in Seq(Item), NEW b \in Item
  PROVE  /\ Append(q, b) \in Seq(Item)
         /\ \A i \in 1..Len(Append(q, b)) :
              \/ Append(q, b)[i] = b
              \/ i \in 1..Len(q) /\ Append(q, b)[i] = q[i]
OBVIOUS

(* The tail of a queue of bodies holds bodies of the queue.                  *)
LEMMA TailBodies ==
  ASSUME NEW q \in Seq(Item), q # <<>>
  PROVE  /\ Tail(q) \in Seq(Item)
         /\ Head(q) \in Item
         /\ Head(q) = q[1]
         /\ \A i \in 1..Len(Tail(q)) : i + 1 \in 1..Len(q) /\ Tail(q)[i] = q[i + 1]
OBVIOUS

(* Replacing the first body.                                                 *)
LEMMA ReplaceFirst ==
  ASSUME NEW q \in Seq(Item), q # <<>>, NEW r \in Item
  PROVE  \A i \in 1..Len([q EXCEPT ![1] = r]) :
           \/ [q EXCEPT ![1] = r][i] = r
           \/ i \in 1..Len(q) /\ [q EXCEPT ![1] = r][i] = q[i]
<1>1. Len([q EXCEPT ![1] = r]) = Len(q)
  OBVIOUS
<1> QED BY <1>1

(* A push leaves a queue of bodies: each is the new one or was there before. *)
LEMMA PushedBodies ==
  ASSUME NEW q \in Seq(Item), NEW b \in Item
  PROVE  /\ Pushed(q, b) \in Seq(Item)
         /\ \A i \in 1..Len(Pushed(q, b)) :
              \/ Pushed(q, b)[i] = b
              \/ \E j \in 1..Len(q) : Pushed(q, b)[i] = q[j]
<1>1. CASE Len(q) < QueueCap
  <2>1. Pushed(q, b) = Append(q, b)
    BY <1>1 DEF Pushed
  <2> QED BY <2>1, AppendBodies
<1>2. CASE ~(Len(q) < QueueCap)
  <2>1. q # <<>>
    BY <1>2, FillPipelineAssumption
  <2> DEFINE r == Tail(q)
  <2>2. Pushed(q, b) = Append(r, b)
    BY <1>2 DEF Pushed
  <2>3. /\ r \in Seq(Item)
        /\ \A i \in 1..Len(r) : i + 1 \in 1..Len(q) /\ r[i] = q[i + 1]
    BY <2>1, TailBodies
  <2> HIDE DEF r
  <2>4. /\ Append(r, b) \in Seq(Item)
        /\ \A i \in 1..Len(Append(r, b)) :
              \/ Append(r, b)[i] = b
              \/ i \in 1..Len(r) /\ Append(r, b)[i] = r[i]
    BY <2>3, AppendBodies
  <2> QED BY <2>2, <2>3, <2>4
<1> QED BY <1>1, <1>2

(* The start of a poll is a time.                                            *)
LEMMA StartIsTime ==
  ASSUME TypeOK
  PROVE  StartFromCursor \in Nat
BY FillPipelineAssumption DEF TypeOK, StartFromCursor
-----------------------------------------------------------------------------
(* The initial values have the declared types.                               *)
LEMMA TypeInit == FillInit => TypeOK
<1> SUFFICES ASSUME FillInit PROVE TypeOK
  OBVIOUS
<1>1. queue \in Seq(Item) /\ local \in Seq(Item)
  BY DEF FillInit
<1>2. fetch \in [phase : {"idle", "sent", "served"}, start : Nat, at : Nat,
                page : SUBSET Trades, whole : BOOLEAN]
  BY DEF FillInit, NoFetch
<1>3. now \in Nat /\ pollerUp \in BOOLEAN
  BY FillPipelineAssumption DEF FillInit
<1> QED BY <1>1, <1>2, <1>3 DEF FillInit, TypeOK, NoFloor, NotYet

(* Every step keeps the types.                                               *)
LEMMA TypeStep == TypeOK /\ [FillNext]_fillVars => TypeOK'
<1> SUFFICES ASSUME TypeOK, [FillNext]_fillVars PROVE TypeOK'
  OBVIOUS
<1> USE DEF executions, handoff, applied, mark, process
<1>1. CASE ClockTick
  BY <1>1 DEF TypeOK, ClockTick
<1>2. ASSUME NEW t \in Trades, Execute(t) PROVE TypeOK'
  BY <1>2, FillPipelineAssumption DEF TypeOK, Execute, NotYet
<1>3. CASE VenueServe
  <2> PICK P \in Pages(fetch.start) :
        fetch' = [fetch EXCEPT !.phase = "served", !.at = now, !.page = P,
                               !.whole = (P = Since(fetch.start))]
    BY <1>3 DEF VenueServe
  <2>1. P \in SUBSET Trades
    BY DEF Pages, Since, Executed
  <2> QED BY <1>3, <2>1 DEF TypeOK, VenueServe
<1>4. CASE FetchSend
  BY <1>4, StartIsTime DEF TypeOK, FetchSend, NoFetch
<1>5. CASE FetchFail
  BY <1>5 DEF TypeOK, FetchFail, NoFetch
<1>6. CASE PollerPush
  <2>1. Body \in Item
    BY DEF TypeOK, Body, Item
  <2> QED BY <1>6, <2>1, PushedBodies DEF TypeOK, PollerPush, NoFetch
<1>7. CASE FallBack
  BY <1>7 DEF TypeOK, FallBack, NoFetch
<1>8. CASE InlineReturn
  <2>1. <<Body>> \in Seq(Item)
    BY DEF TypeOK, Body, Item
  <2> QED BY <1>8, <2>1 DEF TypeOK, InlineReturn, NoFetch
<1>9. CASE DrainSwap
  BY <1>9 DEF TypeOK, DrainSwap
<1>10. ASSUME NEW t \in Trades, ApplyRow(t) PROVE TypeOK'
  <2> DEFINE rest == [local[1] EXCEPT !.page = @ \ {t}]
  <2>1. local' \in Seq(Item)
    <3>1. local \in Seq(Item) /\ local # <<>> /\ local[1] \in Item
      BY <1>10 DEF TypeOK, ApplyRow
    <3>2. rest \in Item
      BY <3>1 DEF Item
    <3>3. local' = [local EXCEPT ![1] = rest]
      BY <1>10 DEF ApplyRow
    <3> HIDE DEF rest
    <3> QED BY <3>1, <3>2, <3>3
  <2>2. processed' \in SUBSET Trades
    BY <1>10 DEF TypeOK, ApplyRow, Remember
  <2>3. count' \in [Trades -> Nat]
    <3>1. count \in [Trades -> Nat] /\ count[t] + 1 \in Nat
      BY DEF TypeOK
    <3>2. count' = count \/ count' = [count EXCEPT ![t] = count[t] + 1]
      BY <1>10 DEF ApplyRow
    <3> QED BY <3>1, <3>2
  <2>4. clears' \in Nat
    BY <1>10 DEF TypeOK, ApplyRow
  <2> QED BY <1>10, <2>1, <2>2, <2>3, <2>4 DEF TypeOK, ApplyRow
<1>11. CASE FinishBody
  <2>1. Tail(local) \in Seq(Item) /\ Head(local).start \in Nat
    BY <1>11, TailBodies DEF TypeOK, FinishBody, Item
  <2>2. cursor' \in Nat
    BY <1>11, <2>1, FillPipelineAssumption DEF TypeOK, FinishBody, CursorAfter
  <2>3. lossy' \in BOOLEAN /\ floor' \in Nat \cup {NoFloor}
    BY <1>11, <2>1 DEF TypeOK, FinishBody
  <2> QED BY <1>11, <2>1, <2>2, <2>3 DEF TypeOK, FinishBody
<1>12. CASE AbandonBody
  BY <1>12, TailBodies DEF TypeOK, AbandonBody
<1>13. CASE LeaveLoop
  BY <1>13 DEF TypeOK, LeaveLoop
<1>14. CASE Stop
  <2>1. Ever \in SUBSET Trades
    BY DEF TypeOK, Ever
  <2>2. queue' \in Seq(Item) /\ local' \in Seq(Item)
    BY <1>14 DEF Stop, Lost
  <2> QED BY <1>14, <2>1, <2>2 DEF TypeOK, Stop, Lost, NoFetch
<1>15. CASE Crash
  <2>1. Ever \in SUBSET Trades
    BY DEF TypeOK, Ever
  <2>2. queue' \in Seq(Item) /\ local' \in Seq(Item)
    BY <1>15 DEF Crash, Lost
  <2> QED BY <1>15, <2>1, <2>2 DEF TypeOK, Crash, Lost, NoFetch
<1>16. CASE Restart
  BY <1>16, FillPipelineAssumption DEF TypeOK, Restart
<1>17. CASE UNCHANGED fillVars
  BY <1>17 DEF TypeOK, fillVars
<1> QED
  BY <1>1, <1>2, <1>3, <1>4, <1>5, <1>6, <1>7, <1>8, <1>9, <1>10, <1>11,
     <1>12, <1>13, <1>14, <1>15, <1>16, <1>17 DEF FillNext, Venue, Fetcher, Main

(* Type correctness: in particular no negative time is ever put into a query *)
(* (fillsStartTsNsFromCursor) and the cursor is a time.                      *)
THEOREM TypeCorrect == FillSpec => []TypeOK
BY TypeInit, TypeStep, PTL DEF FillSpec
-----------------------------------------------------------------------------
(* What every step leaves intact of the grounds on which a body was trusted. *)
Keeps ==
  /\ now <= now'
  /\ Ever \subseteq Ever'
  /\ \A t \in Trades : t \in Executed' =>
       \/ t \in Executed /\ ts'[t] = ts[t]
       \/ ts'[t] + Skew >= now
  /\ floor' # NoFloor =>
       \/ floor # NoFloor /\ cursor <= cursor'
       \/ cursor' + Overlap >= now'

(* The new cursor is at least the present less the overlap, and no later     *)
(* than that unless the body started there.                                  *)
LEMMA CursorAfterBounds ==
  ASSUME TypeOK, NEW start \in Nat
  PROVE  /\ CursorAfter(start) >= start
         /\ CursorAfter(start) + Overlap >= now
         /\ CursorAfter(start) = start \/ CursorAfter(start) + Overlap = now
BY FillPipelineAssumption DEF TypeOK, CursorAfter

(* What no step ever undoes: time, stamps, the cursor and what was applied.  *)
LEMMA KeepsStep == TypeOK /\ [FillNext]_fillVars => Keeps
<1> SUFFICES ASSUME TypeOK, [FillNext]_fillVars PROVE Keeps
  OBVIOUS
<1> USE DEF executions, handoff, applied, mark, process
<1>1. ASSUME NEW t \in Trades, Execute(t) PROVE Keeps
  BY <1>1, FillPipelineAssumption
     DEF TypeOK, Execute, Keeps, Executed, Ever, NotYet
<1>2. ASSUME NEW t \in Trades, ApplyRow(t) PROVE Keeps
  <2>1. count' = count \/ count' = [count EXCEPT ![t] = count[t] + 1]
    BY <1>2 DEF ApplyRow
  <2>2. Ever \subseteq Ever'
    <3>1. before' = before /\ count \in [Trades -> Nat]
      BY <1>2 DEF TypeOK, ApplyRow
    <3>2. \A u \in Trades : count[u] > 0 => count'[u] > 0
      BY <2>1, <3>1
    <3> QED BY <3>1, <3>2 DEF Ever
  <2> QED BY <1>2, <2>2, FillPipelineAssumption, SMTT(30)
          DEF TypeOK, ApplyRow, Keeps, Executed, NotYet
<1>3. CASE FinishBody
  <2>1. Head(local).start \in Nat
    BY <1>3, TailBodies DEF TypeOK, FinishBody, Item
  <2>2. cursor' + Overlap >= now
    BY <1>3, <2>1, CursorAfterBounds DEF FinishBody
  <2> QED BY <1>3, <2>2 DEF TypeOK, FinishBody, Keeps, Executed, Ever
<1>4. CASE Stop \/ Crash
  <2>1. Ever' = Ever
    BY <1>4 DEF TypeOK, Stop, Crash, Lost, Ever
  <2> QED BY <1>4, <2>1 DEF TypeOK, Stop, Crash, Lost, Keeps, Executed
<1>5. CASE ClockTick
  BY <1>5 DEF TypeOK, ClockTick, Keeps, Executed, Ever
<1>6. CASE UNCHANGED <<executions, applied, mark>>
  BY <1>6 DEF TypeOK, Keeps, Executed, Ever
<1>7. CASE VenueServe \/ Fetcher \/ DrainSwap \/ InlineReturn \/ AbandonBody
           \/ LeaveLoop \/ Restart \/ UNCHANGED fillVars
  BY <1>6, <1>7 DEF VenueServe, Fetcher, FetchSend, FetchFail, PollerPush,
     FallBack, DrainSwap, InlineReturn, AbandonBody, LeaveLoop, Restart, fillVars
<1> QED BY <1>1, <1>2, <1>3, <1>4, <1>5, <1>7 DEF FillNext, Venue, Main

(* Two times at distance o from a third.                                     *)
LEMMA Shift ==
  ASSUME NEW s \in Nat, NEW c \in Nat, NEW n \in Nat, NEW o \in Nat,
         s = 0 \/ s + o <= n, n <= c + o
  PROVE  s <= c
OBVIOUS

(* A start that is early enough stays so, and stays behind the cursor.       *)
LEMMA StartKept ==
  ASSUME TypeOK, TypeOK', Keeps, NEW s \in Nat, StartOK(s)
  PROVE  StartOK(s)'
<1>1. /\ now \in Nat /\ now' \in Nat /\ now <= now'
      /\ cursor \in Nat /\ cursor' \in Nat /\ Overlap \in Nat
  BY FillPipelineAssumption DEF TypeOK, Keeps
<1>2. s = 0 \/ s + Overlap <= now'
  BY <1>1 DEF StartOK
<1>3. ASSUME floor' # NoFloor PROVE s <= cursor'
  <2>1. CASE floor # NoFloor /\ cursor <= cursor'
    BY <1>1, <2>1 DEF StartOK
  <2>2. CASE cursor' + Overlap >= now'
    BY <1>1, <1>2, <2>2, Shift
  <2> QED BY <1>3, <2>1, <2>2 DEF Keeps
<1> QED BY <1>2, <1>3 DEF StartOK

(* A body that could be trusted still can be.                                *)
LEMMA BodyKept ==
  ASSUME TypeOK, TypeOK', Keeps, NEW b \in Item, BodyOK(b)
  PROVE  BodyOK(b)'
<1>0. /\ b.start \in Nat /\ b.at \in Nat
      /\ now \in Nat /\ now' \in Nat /\ now <= now'
      /\ cursor \in Nat /\ cursor' \in Nat
      /\ ts' \in [Trades -> Nat \cup {NotYet}]
      /\ Overlap \in Nat /\ Skew \in Nat
  BY FillPipelineAssumption DEF TypeOK, Keeps, Item
<1>1. StartOK(b.start)'
  BY <1>0, StartKept DEF BodyOK
<1>2. Accounts(b)'
  <2>1. b.at <= now'
    BY <1>0 DEF BodyOK, Accounts
  <2>2. ASSUME b.whole, NEW t \in Trades, t \in Executed', ts'[t] >= b.start
        PROVE  t \in b.page \/ t \in Ever' \/ ts'[t] + Skew >= b.at
    <3>1. CASE t \in Executed /\ ts'[t] = ts[t]
      BY <2>2, <3>1 DEF BodyOK, Accounts, Keeps
    <3>2. CASE ts'[t] + Skew >= now
      <4>1. ts'[t] \in Nat
        BY <1>0, <2>2 DEF Executed
      <4> QED BY <1>0, <3>2, <4>1 DEF BodyOK, Accounts
    <3> QED BY <2>2, <3>1, <3>2 DEF Keeps
  <2> QED BY <2>1, <2>2 DEF Accounts
<1> QED BY <1>1, <1>2 DEF BodyOK
-----------------------------------------------------------------------------
(* The inductive invariant holds at the start.                               *)
LEMMA GapInit == FillInit => GapInv
<1> SUFFICES ASSUME FillInit PROVE GapInv
  OBVIOUS
<1>1. TypeOK
  BY TypeInit
<1>2. CursorOK
  BY FillPipelineAssumption DEF FillInit, CursorOK
<1>3. FetchOK
  BY DEF FillInit, FetchOK, NoFetch
<1>4. Len(queue) = 0 /\ Len(local) = 0
  BY DEF FillInit
<1> QED BY <1>1, <1>2, <1>3, <1>4 
       DEF FillInit, GapInv, QueueOK, LocalOK, NoFillSkipped, FillsBehindCursor

(* The clock and the cursor: only FinishBody moves the cursor, to a point at *)
(* least Overlap in the past.                                                *)
LEMMA CursorStep ==
  ASSUME GapInv, TypeOK', [FillNext]_fillVars
  PROVE  CursorOK'
<1> USE DEF executions, handoff, applied, mark, process
<1>0. TypeOK /\ CursorOK
  BY DEF GapInv
<1>1. CASE FinishBody
  <2> DEFINE h == Head(local)
  <2>1. h \in Item /\ h = local[1] /\ 1 \in 1..Len(local)
    BY <1>0, <1>1, TailBodies DEF TypeOK, FinishBody
  <2>2. BodyOK(h)
    BY <2>1 DEF GapInv, LocalOK
  <2>3. h.start \in Nat /\ h.at \in Nat
    BY <2>1 DEF Item
  <2>4. cursor' = CursorAfter(h.start) /\ now' = now
    BY <1>1 DEF FinishBody
  <2>5. now > Overlap /\ now \in Nat
    BY <1>0, FillPipelineAssumption DEF CursorOK, TypeOK
  <2>6. cursor' + Overlap <= now
    BY <2>2, <2>3, <2>4, <2>5, FillPipelineAssumption
       DEF BodyOK, StartOK, CursorAfter
  <2>7. cursor' + Overlap >= now /\ cursor' \in Nat
    BY <1>0, <2>3, <2>4, CursorAfterBounds DEF TypeOK
  <2>8. floor' # NoFloor /\ ~lossy' => Skew <= Overlap
    <3>1. ~lossy' => ~lossy /\ now + Skew <= h.at + Overlap
      BY <1>1 DEF FinishBody, Covers
    <3>2. h.at <= now
      BY <2>2 DEF BodyOK, Accounts
    <3> QED BY <3>1, <3>2, <2>3, <2>5, FillPipelineAssumption
  <2> QED BY <1>0, <2>4, <2>5, <2>6, <2>7, <2>8, FillPipelineAssumption DEF CursorOK
<1>2. CASE ClockTick
  BY <1>0, <1>2, FillPipelineAssumption DEF ClockTick, CursorOK, TypeOK
<1>3. CASE UNCHANGED <<now, mark>>
  BY <1>0, <1>3 DEF CursorOK
<1>4. ASSUME NEW t \in Trades, Execute(t) \/ ApplyRow(t) PROVE CursorOK'
  BY <1>3, <1>4 DEF Execute, ApplyRow
<1>5. CASE VenueServe \/ Fetcher \/ DrainSwap \/ InlineReturn \/ AbandonBody
           \/ LeaveLoop \/ Stop \/ Crash \/ Restart \/ UNCHANGED fillVars
  BY <1>3, <1>5 DEF VenueServe, Fetcher, FetchSend, FetchFail, PollerPush,
     FallBack, DrainSwap, InlineReturn, AbandonBody, LeaveLoop, Stop, Crash, Lost,
     Restart, fillVars
<1> QED BY <1>1, <1>2, <1>4, <1>5 DEF FillNext, Venue, Main

(* The fetch in flight: a new one starts at the cursor, or far enough in the *)
(* past; the answer holds what the venue has so far.                         *)
LEMMA FetchStep ==
  ASSUME GapInv, TypeOK', Keeps, [FillNext]_fillVars
  PROVE  FetchOK'
<1> USE DEF executions, handoff, applied, mark, process
<1>0. TypeOK /\ CursorOK /\ FetchOK
  BY DEF GapInv
<1>1. CASE FetchSend
  <2>1. /\ fetch'.phase = "sent" /\ fetch'.start = StartFromCursor
        /\ now' = now /\ cursor' = cursor /\ floor' = floor
    BY <1>1 DEF FetchSend, NoFetch
  <2>2. StartFromCursor = 0 \/ StartFromCursor + Overlap <= now
    BY <1>0, FillPipelineAssumption DEF TypeOK, CursorOK, StartFromCursor
  <2>3. floor # NoFloor => StartFromCursor <= cursor
    BY <1>0 DEF TypeOK, CursorOK, StartFromCursor
  <2> QED BY <2>1, <2>2, <2>3 DEF FetchOK, StartOK
<1>2. CASE VenueServe
  <2> PICK P \in Pages(fetch.start) :
        fetch' = [fetch EXCEPT !.phase = "served", !.at = now, !.page = P,
                               !.whole = (P = Since(fetch.start))]
    BY <1>2 DEF VenueServe
  <2>1. /\ fetch'.start = fetch.start /\ fetch'.at = now
        /\ fetch'.page = P /\ fetch'.whole = (P = Since(fetch.start))
    BY <1>0 DEF TypeOK
  <2>2. /\ now' = now /\ ts' = ts /\ cursor' = cursor /\ floor' = floor
        /\ fetch.phase = "sent"
    BY <1>2 DEF VenueServe
  <2>3. StartOK(fetch.start)'
    BY <1>0, <2>1, <2>2 DEF FetchOK, StartOK
  <2>4. Accounts(fetch)'
    <3>1. fetch'.at <= now'
      BY <1>0, <2>1, <2>2 DEF TypeOK
    <3>2. ASSUME fetch'.whole, NEW t \in Trades, t \in Executed', ts'[t] >= fetch'.start
          PROVE  t \in fetch'.page
      BY <2>1, <2>2, <3>2 DEF Since, Executed
    <3> QED BY <3>1, <3>2 DEF Accounts
  <2> QED BY <2>3, <2>4 DEF FetchOK
<1>3. CASE UNCHANGED fetch
  <2>2. StartOK(fetch.start)' \/ fetch.phase = "idle"
    <3> SUFFICES ASSUME fetch.phase # "idle" PROVE StartOK(fetch.start)'
      OBVIOUS
    <3>1. PICK n \in Nat : n = fetch.start
      BY <1>0 DEF TypeOK
    <3>2. StartOK(n)'
      BY <1>0, <3>1, StartKept DEF FetchOK
    <3> QED BY <1>3, <3>1, <3>2 DEF StartOK
  <2>3. Accounts(fetch)' \/ fetch.phase # "served"
    <3> SUFFICES ASSUME fetch.phase = "served" PROVE Accounts(fetch)'
      OBVIOUS
    <3>1. PICK b \in Item : b = Body
      BY <1>0 DEF TypeOK, Body, Item
    <3>2. BodyOK(b)
      BY <1>0, <3>1 DEF FetchOK, BodyOK, Accounts, StartOK, Body
    <3>3. BodyOK(b)'
      BY <1>0, <3>2, BodyKept
    <3>4. /\ b.at = fetch'.at /\ b.page = fetch'.page /\ b.whole = fetch'.whole
          /\ b.start = fetch'.start
      BY <1>3, <3>1 DEF Body
    <3> QED BY <3>3, <3>4 DEF BodyOK, Accounts
  <2> QED BY <1>3, <2>2, <2>3 DEF FetchOK
<1>4. CASE FetchFail \/ PollerPush \/ InlineReturn \/ FallBack \/ Stop \/ Crash
  <2>1. fetch'.phase = "idle"
    BY <1>4 DEF FetchFail, PollerPush, InlineReturn, FallBack, Stop, Crash, Lost, NoFetch
  <2> QED BY <2>1 DEF FetchOK
<1>5. ASSUME NEW t \in Trades, Execute(t) \/ ApplyRow(t) PROVE FetchOK'
  BY <1>3, <1>5 DEF Execute, ApplyRow
<1>6. CASE ClockTick \/ DrainSwap \/ FinishBody \/ AbandonBody \/ LeaveLoop \/ Restart
           \/ UNCHANGED fillVars
  BY <1>3, <1>6 DEF ClockTick, DrainSwap, FinishBody, AbandonBody, LeaveLoop, Restart, fillVars
<1> QED BY <1>1, <1>2, <1>4, <1>5, <1>6 DEF FillNext, Venue, Fetcher, Main

(* An answered fetch is a body that can be trusted.                          *)
LEMMA AnswerOK ==
  ASSUME GapInv, fetch.phase = "served"
  PROVE  Body \in Item /\ BodyOK(Body)
BY DEF GapInv, TypeOK, FetchOK, BodyOK, StartOK, Accounts, Body, Item

(* The hand-over queue and the bodies being applied.                         *)
LEMMA QueueStep ==
  ASSUME GapInv, TypeOK', Keeps, [FillNext]_fillVars
  PROVE  QueueOK'
<1> USE DEF executions, handoff, applied, mark, process
<1>0. TypeOK /\ QueueOK /\ queue \in Seq(Item)
  BY DEF GapInv, TypeOK
<1>1. SUFFICES \A i \in 1..Len(queue') : \E b \in Item : queue'[i] = b /\ BodyOK(b)
  <2> SUFFICES ASSUME NEW i \in 1..Len(queue') PROVE BodyOK(queue[i])'
    BY DEF QueueOK
  <2>1. PICK b \in Item : queue'[i] = b /\ BodyOK(b)
    BY <1>1
  <2>2. BodyOK(b)'
    BY <1>0, <2>1, BodyKept
  <2> QED BY <2>1, <2>2 DEF BodyOK, StartOK, Accounts
<1>2. CASE UNCHANGED queue
  BY <1>0, <1>2 DEF QueueOK
<1>3. CASE queue' = <<>>
  BY <1>3
<1>4. CASE PollerPush
  <2>1. /\ queue' = Pushed(queue, Body)
        /\ Body \in Item /\ BodyOK(Body)
    BY <1>4, AnswerOK DEF PollerPush
  <2>2. \A i \in 1..Len(queue') :
           \/ queue'[i] = Body
           \/ \E j \in 1..Len(queue) : queue'[i] = queue[j]
    BY <1>0, <2>1, PushedBodies
  <2>3. \A j \in 1..Len(queue) : queue[j] \in Item /\ BodyOK(queue[j])
    BY <1>0 DEF QueueOK
  <2> QED BY <2>1, <2>2, <2>3
<1>5. ASSUME NEW t \in Trades, Execute(t) \/ ApplyRow(t)
      PROVE  UNCHANGED queue
  BY <1>5 DEF Execute, ApplyRow
<1>6. CASE ClockTick \/ VenueServe \/ FetchSend \/ FetchFail \/ FallBack \/ InlineReturn
           \/ FinishBody \/ AbandonBody \/ LeaveLoop \/ Restart \/ UNCHANGED fillVars
  BY <1>2, <1>6 DEF ClockTick, VenueServe, FetchSend, FetchFail, FallBack, InlineReturn,
     FinishBody, AbandonBody, LeaveLoop, Restart, fillVars
<1>7. CASE DrainSwap \/ Stop \/ Crash
  BY <1>3, <1>7 DEF DrainSwap, Stop, Crash, Lost
<1> QED BY <1>2, <1>4, <1>5, <1>6, <1>7 DEF FillNext, Venue, Fetcher, Main

(* Applying a row of the first body shrinks it by a trade that has now been  *)
(* applied.                                                                  *)
LEMMA ApplyRowStep ==
  ASSUME GapInv, TypeOK', Keeps, NEW t \in Trades, ApplyRow(t)
  PROVE  LocalOK' /\ t \in Ever' /\ processed' \subseteq Ever'
<1>0. /\ TypeOK /\ LocalOK /\ processed \subseteq Ever
      /\ local \in Seq(Item) /\ local # <<>> /\ local[1] \in Item
  BY SMTT(30) DEF GapInv, TypeOK, ApplyRow
<1>1. t \in Ever'
  <2>1. CASE t \in processed
    BY <1>0, <2>1 DEF Keeps
  <2>2. CASE t \notin processed
    <3>1. count' = [count EXCEPT ![t] = count[t] + 1] /\ count \in [Trades -> Nat]
      BY <1>0, <2>2 DEF ApplyRow, TypeOK
    <3>2. count'[t] > 0
      BY <3>1
    <3> QED BY <3>2 DEF Ever
  <2> QED BY <2>1, <2>2
<1>2. processed' \subseteq processed \cup {t}
  BY DEF ApplyRow, Remember
<1>3. processed' \subseteq Ever'
  BY <1>0, <1>1, <1>2 DEF Keeps
<1>4. LocalOK'
  <2> DEFINE rest == [local[1] EXCEPT !.page = @ \ {t}]
  <2>1. local' = [local EXCEPT ![1] = rest]
    BY DEF ApplyRow
  <2>2. /\ rest \in Item /\ rest.start = local[1].start /\ rest.at = local[1].at
        /\ rest.whole = local[1].whole /\ rest.page = local[1].page \ {t}
    BY <1>0 DEF Item
  <2>3. PICK r \in Item : r = rest
    BY <2>2
  <2>4. BodyOK(r)'
    <3>1. PICK b \in Item : b = local[1]
      BY <1>0
    <3>2. BodyOK(b)
      BY <1>0, <3>1 DEF LocalOK
    <3>3. BodyOK(b)'
      BY <1>0, <3>2, BodyKept
    <3> QED BY <3>1, <3>3, <2>2, <2>3, <1>1 DEF BodyOK, StartOK, Accounts
  <2> HIDE DEF rest
  <2>5. \A i \in 1..Len(local') :
           local'[i] = r \/ (i \in 1..Len(local) /\ local'[i] = local[i])
    <3> DEFINE new == [local EXCEPT ![1] = r]
    <3>1. local' = new
      BY <2>1, <2>3
    <3>2. \A i \in 1..Len(new) :
             \/ new[i] = r
             \/ i \in 1..Len(local) /\ new[i] = local[i]
      BY <1>0, ReplaceFirst
    <3> HIDE DEF new
    <3> QED BY <3>1, <3>2
  <2> SUFFICES ASSUME NEW i \in 1..Len(local') PROVE BodyOK(local[i])'
    BY DEF LocalOK
  <2>6. CASE local'[i] = r
    BY <2>4, <2>6 DEF BodyOK, StartOK, Accounts
  <2>7. CASE i \in 1..Len(local) /\ local'[i] = local[i]
    <3>1. PICK b \in Item : b = local[i]
      BY <1>0, <2>7
    <3>2. BodyOK(b)'
      BY <1>0, <2>7, <3>1, BodyKept DEF LocalOK
    <3> QED BY <2>7, <3>1, <3>2 DEF BodyOK, StartOK, Accounts
  <2> QED BY <2>5, <2>6, <2>7
<1> QED BY <1>1, <1>3, <1>4

(* The bodies the main loop is applying stay bodies that can be trusted.     *)
LEMMA LocalStep ==
  ASSUME GapInv, TypeOK', Keeps, [FillNext]_fillVars
  PROVE  LocalOK'
<1> USE DEF executions, handoff, applied, mark, process
<1>0. TypeOK /\ LocalOK /\ QueueOK /\ local \in Seq(Item) /\ queue \in Seq(Item)
  BY DEF GapInv, TypeOK
<1>1. ASSUME \A i \in 1..Len(local') : \E b \in Item : local'[i] = b /\ BodyOK(b)
      PROVE  LocalOK'
  <2> SUFFICES ASSUME NEW i \in 1..Len(local') PROVE BodyOK(local[i])'
    BY DEF LocalOK
  <2>1. PICK b \in Item : local'[i] = b /\ BodyOK(b)
    BY <1>1
  <2>2. BodyOK(b)'
    BY <1>0, <2>1, BodyKept
  <2> QED BY <2>1, <2>2 DEF BodyOK, StartOK, Accounts
<1>2. CASE UNCHANGED local
  BY <1>0, <1>1, <1>2 DEF LocalOK
<1>3. CASE local' = <<>>
  BY <1>1, <1>3
<1>4. CASE InlineReturn
  <2>1. local' = <<Body>> /\ Body \in Item /\ BodyOK(Body)
    BY <1>4, AnswerOK DEF InlineReturn
  <2> QED BY <1>1, <2>1
<1>5. CASE DrainSwap
  <2>1. local' = queue
    BY <1>5 DEF DrainSwap
  <2> QED BY <1>0, <1>1, <2>1 DEF QueueOK
<1>6. CASE FinishBody \/ AbandonBody
  <2>1. local # <<>> /\ local' = Tail(local)
    BY <1>6 DEF FinishBody, AbandonBody
  <2>2. \A i \in 1..Len(local') : i + 1 \in 1..Len(local) /\ local'[i] = local[i + 1]
    BY <1>0, <2>1, TailBodies
  <2>3. \A j \in 1..Len(local) : local[j] \in Item /\ BodyOK(local[j])
    BY <1>0 DEF LocalOK
  <2> QED BY <1>1, <2>2, <2>3
<1>7. ASSUME NEW t \in Trades, Execute(t) \/ ApplyRow(t) PROVE LocalOK'
  BY <1>2, <1>7, ApplyRowStep DEF Execute
<1>8. CASE ClockTick \/ VenueServe \/ Fetcher \/ LeaveLoop \/ Restart \/ UNCHANGED fillVars
  BY <1>2, <1>8 DEF ClockTick, VenueServe, Fetcher, FetchSend, FetchFail, FallBack,
     PollerPush, LeaveLoop, Restart, fillVars
<1>9. CASE Stop \/ Crash
  BY <1>3, <1>9 DEF Stop, Crash, Lost
<1> QED BY <1>4, <1>5, <1>6, <1>7, <1>8, <1>9 DEF FillNext, Venue, Main

(* Only applied trades are in the dedupe set.                                *)
LEMMA ProcessedStep ==
  ASSUME GapInv, TypeOK', Keeps, [FillNext]_fillVars
  PROVE  processed' \subseteq Ever'
<1> USE DEF executions, handoff, applied, mark, process
<1>0. processed \subseteq Ever
  BY DEF GapInv
<1>1. ASSUME NEW t \in Trades, ApplyRow(t) PROVE processed' \subseteq Ever'
  BY <1>1, ApplyRowStep
<1>2. CASE processed' = {}
  BY <1>2
<1>3. CASE UNCHANGED processed
  BY <1>0, <1>3 DEF Keeps
<1>4. CASE Stop \/ Crash
  BY <1>2, <1>4 DEF Stop, Crash, Lost
<1>5. ASSUME NEW t \in Trades, Execute(t) PROVE UNCHANGED processed
  BY <1>5 DEF Execute
<1>6. CASE ClockTick \/ VenueServe \/ Fetcher \/ DrainSwap \/ InlineReturn \/ FinishBody
           \/ AbandonBody \/ LeaveLoop \/ Restart \/ UNCHANGED fillVars
  BY <1>3, <1>6 DEF ClockTick, VenueServe, Fetcher, FetchSend, FetchFail, FallBack,
     PollerPush, DrainSwap, InlineReturn, FinishBody, AbandonBody, LeaveLoop,
     Restart, fillVars
<1> QED BY <1>1, <1>3, <1>4, <1>5, <1>6 DEF FillNext, Venue, Main

(* The heart of the matter: when the cursor moves past a body, every         *)
(* execution it leaves behind was in an earlier body, or in this one, or     *)
(* cannot be that old.                                                       *)
LEMMA FinishLeavesNoGap ==
  ASSUME GapInv, TypeOK', Keeps, FinishBody
  PROVE  NoFillSkipped'
<1> USE DEF executions, handoff, applied, mark, process
<1>0. TypeOK /\ CursorOK /\ LocalOK /\ NoFillSkipped
  BY DEF GapInv
<1>1. PICK h \in Item : h = Head(local)
  BY <1>0, TailBodies DEF TypeOK, FinishBody
<1>2. BodyOK(h) /\ h.page = {} /\ h.start \in Nat /\ h.at \in Nat
  <2>1. h = local[1] /\ 1 \in 1..Len(local)
    BY <1>0, <1>1, TailBodies DEF TypeOK, FinishBody
  <2> QED BY <1>0, <1>1, <2>1 DEF LocalOK, FinishBody, Item
<1>3. /\ cursor' = CursorAfter(h.start)
      /\ floor' = IF floor = NoFloor THEN h.start ELSE floor
      /\ ~lossy' => ~lossy /\ Covers(h)
      /\ now' = now /\ ts' = ts /\ Ever' = Ever
  BY <1>1 DEF FinishBody, Ever
<1> SUFFICES ASSUME ~lossy', NEW t \in Trades, t \in Executed,
                    floor' <= ts[t], ts[t] < cursor'
             PROVE  t \in Ever
  BY <1>3 DEF NoFillSkipped, FillsBehindCursor, Executed
<1>4. /\ ts[t] \in Nat /\ now \in Nat /\ cursor \in Nat
      /\ Overlap \in Nat /\ Skew \in Nat
  BY <1>0, FillPipelineAssumption DEF TypeOK, Executed
<1>5. CASE ts[t] >= h.start
  <2>1. cursor' + Overlap = now \/ cursor' = h.start
    BY <1>0, <1>2, <1>3, CursorAfterBounds
  <2>2. ts[t] + Overlap < now
    BY <1>2, <1>3, <1>4, <1>5, <2>1 DEF CursorAfter
  <2>3. now + Skew <= h.at + Overlap /\ h.whole
    BY <1>3 DEF Covers
  <2>4. ~(ts[t] + Skew >= h.at)
    BY <1>2, <1>4, <2>2, <2>3
  <2> QED BY <1>2, <1>5, <2>3, <2>4 DEF BodyOK, Accounts
<1>6. CASE ts[t] < h.start
  <2>1. floor # NoFloor /\ floor' = floor
    BY <1>2, <1>3, <1>4, <1>6
  <2>2. h.start <= cursor
    BY <1>2, <2>1 DEF BodyOK, StartOK
  <2>3. ts[t] < cursor
    BY <1>2, <1>4, <1>6, <2>2
  <2> QED BY <1>0, <1>3, <2>1, <2>3 DEF NoFillSkipped, FillsBehindCursor
<1> QED BY <1>2, <1>4, <1>5, <1>6

(* No step leaves an unapplied execution behind the cursor.                  *)
LEMMA NoGapStep ==
  ASSUME GapInv, TypeOK', Keeps, [FillNext]_fillVars
  PROVE  NoFillSkipped'
<1> USE DEF executions, handoff, applied, mark, process
<1>0. TypeOK /\ CursorOK /\ NoFillSkipped
  BY DEF GapInv
<1>1. CASE FinishBody
  BY <1>1, FinishLeavesNoGap
<1>2. ASSUME NEW t \in Trades, Execute(t) PROVE NoFillSkipped'
  <2>0. /\ lossy' = lossy /\ floor' = floor /\ cursor' = cursor
        /\ Executed' \subseteq Trades
    BY <1>2 DEF Execute, Executed
  <2> SUFFICES ASSUME ~lossy, floor # NoFloor, NEW u \in Executed',
                      floor <= ts'[u], ts'[u] < cursor
               PROVE  u \in Ever'
    BY <2>0 DEF NoFillSkipped, FillsBehindCursor
  <2>1. CASE u \in Executed /\ ts'[u] = ts[u]
    BY <1>0, <2>1 DEF NoFillSkipped, FillsBehindCursor, Keeps
  <2>2. CASE ts'[u] + Skew >= now
    <3>1. /\ ts'[u] \in Nat /\ now \in Nat /\ cursor \in Nat
          /\ Overlap \in Nat /\ Skew \in Nat
      BY <1>0, FillPipelineAssumption DEF TypeOK, Executed
    <3>2. Skew <= Overlap /\ cursor + Overlap <= now
      BY <1>0 DEF CursorOK
    <3> QED BY <2>2, <3>1, <3>2
  <2> QED BY <2>0, <2>1, <2>2 DEF Keeps
<1>3. CASE UNCHANGED <<ts, mark>>
  BY <1>0, <1>3 DEF NoFillSkipped, FillsBehindCursor, Executed, Keeps
<1>4. ASSUME NEW t \in Trades, ApplyRow(t) PROVE NoFillSkipped'
  BY <1>3, <1>4 DEF ApplyRow
<1>5. CASE ClockTick \/ VenueServe \/ Fetcher \/ DrainSwap \/ InlineReturn \/ AbandonBody
           \/ LeaveLoop \/ Stop \/ Crash \/ Restart \/ UNCHANGED fillVars
  BY <1>3, <1>5 DEF ClockTick, VenueServe, Fetcher, FetchSend, FetchFail, FallBack,
     PollerPush, DrainSwap, InlineReturn, AbandonBody, LeaveLoop, Stop, Crash, Lost,
     Restart, fillVars
<1> QED BY <1>1, <1>2, <1>4, <1>5 DEF FillNext, Venue, Main

(* Every step keeps the inductive invariant.                                 *)
LEMMA GapStep == GapInv /\ [FillNext]_fillVars => GapInv'
<1> SUFFICES ASSUME GapInv, [FillNext]_fillVars PROVE GapInv'
  OBVIOUS
<1>1. TypeOK' /\ Keeps
  BY TypeStep, KeepsStep DEF GapInv
<1> QED
  BY <1>1, CursorStep, FetchStep, QueueStep, LocalStep, ProcessedStep, NoGapStep
     DEF GapInv

(* For every set of trades and every bound: the cursor leaves no execution   *)
(* unapplied behind it unless a body was truncated by the page limit or      *)
(* applied later than Overlap - Skew after its answer.                       *)
THEOREM GapFree == FillSpec => []NoFillSkipped
<1>1. GapInv => NoFillSkipped
  BY DEF GapInv
<1> QED BY <1>1, GapInit, GapStep, PTL DEF FillSpec

(* The persisted cursor never moves back, whichever body is applied last.    *)
THEOREM CursorNeverBack == FillSpec => CursorMonotone
<1>1. GapInv /\ [FillNext]_fillVars => [cursor' >= cursor]_fillVars
  <2> SUFFICES ASSUME GapInv, [FillNext]_fillVars PROVE cursor' >= cursor \/ UNCHANGED fillVars
    OBVIOUS
  <2> USE DEF executions, handoff, applied, mark, process
  <2>0. cursor \in Nat /\ now \in Nat /\ Overlap \in Nat
    BY FillPipelineAssumption DEF GapInv, TypeOK
  <2>1. CASE FinishBody
    <3>1. Head(local).start \in Nat
      BY <2>1, TailBodies DEF GapInv, TypeOK, FinishBody, Item
    <3>2. PICK c \in Nat : c = CursorAfter(Head(local).start)
      BY <2>0, <3>1 DEF GapInv, TypeOK, CursorAfter
    <3>3. c + Overlap >= now
      BY <3>1, <3>2, CursorAfterBounds DEF GapInv
    <3>4. cursor = 0 \/ cursor + Overlap <= now
      BY DEF GapInv, CursorOK
    <3> QED BY <2>0, <2>1, <3>2, <3>3, <3>4 DEF FinishBody
  <2>2. CASE UNCHANGED cursor
    BY <2>0, <2>2
  <2>3. ASSUME NEW t \in Trades, Execute(t) \/ ApplyRow(t) PROVE UNCHANGED cursor
    BY <2>3 DEF Execute, ApplyRow
  <2>4. CASE ClockTick \/ VenueServe \/ Fetcher \/ DrainSwap \/ InlineReturn
             \/ AbandonBody \/ LeaveLoop \/ Stop \/ Crash \/ Restart \/ UNCHANGED fillVars
    BY <2>2, <2>4 DEF ClockTick, VenueServe, Fetcher, FetchSend, FetchFail, FallBack,
       PollerPush, DrainSwap, InlineReturn, AbandonBody, LeaveLoop, Stop, Crash,
       Lost, Restart, fillVars
  <2> QED BY <2>1, <2>2, <2>3, <2>4 DEF FillNext, Venue, Main
<1> QED BY <1>1, GapInit, GapStep, PTL DEF FillSpec, CursorMonotone
-----------------------------------------------------------------------------
(* What keeps AppliedOnce: a trade that is not in the dedupe set has gone     *)
(* through no more often than the set was emptied, one that is in it at most *)
(* once more.                                                                *)
OnceInv ==
  /\ TypeOK
  /\ \A t \in Trades : count[t] <= clears \/ (t \in processed /\ count[t] <= 1 + clears)

(* No overlap of polls, queued body or fall-back applies a trade twice in a  *)
(* session; only emptying the full dedupe set lets it through again, and     *)
(* once for each time. The set may be of any size, smaller than the number   *)
(* of trades too.                                                            *)
THEOREM NoDoubleApply == FillSpec => []AppliedOnce
<1>1. FillInit => OnceInv
  BY TypeInit DEF FillInit, OnceInv
<1>2. OnceInv /\ [FillNext]_fillVars => OnceInv'
  <2> SUFFICES ASSUME OnceInv, [FillNext]_fillVars PROVE OnceInv'
    OBVIOUS
  <2> USE DEF executions, handoff, applied, mark, process
  <2>0. TypeOK /\ TypeOK'
    BY TypeStep DEF OnceInv
  <2>a. count \in [Trades -> Nat] /\ clears \in Nat
    BY <2>0 DEF TypeOK
  <2>1. ASSUME NEW t \in Trades, ApplyRow(t) PROVE OnceInv'
    <3>1. CASE t \in processed
      BY <2>0, <2>1, <3>1 DEF OnceInv, ApplyRow
    <3>2. CASE t \notin processed
      <4>1. count' = [count EXCEPT ![t] = count[t] + 1] /\ processed' = Remember(t)
        BY <2>1, <3>2 DEF ApplyRow
      <4>2. count[t] <= clears
        BY <3>2 DEF OnceInv
      <4>3. CASE Full
        <5>1. clears' = clears + 1 /\ t \in processed'
          BY <2>1, <3>2, <4>1, <4>3 DEF ApplyRow, Remember
        <5>2. \A u \in Trades \ {t} : count'[u] <= clears'
          BY <2>a, <4>1, <5>1 DEF OnceInv
        <5>3. count'[t] <= 1 + clears'
          BY <2>a, <4>1, <4>2, <5>1
        <5> QED BY <2>0, <5>1, <5>2, <5>3 DEF OnceInv
      <4>4. CASE ~Full
        <5>1. clears' = clears /\ processed' = processed \cup {t}
          BY <2>1, <3>2, <4>1, <4>4 DEF ApplyRow, Remember
        <5>2. \A u \in Trades \ {t} : count'[u] = count[u]
          BY <2>a, <4>1
        <5>3. count'[t] <= 1 + clears'
          BY <2>a, <4>1, <4>2, <5>1
        <5> QED BY <2>0, <5>1, <5>2, <5>3 DEF OnceInv
      <4> QED BY <4>3, <4>4
    <3> QED BY <3>1, <3>2
  <2>2. CASE Stop \/ Crash
    BY <2>0, <2>2 DEF OnceInv, Stop, Crash, Lost
  <2>3. CASE UNCHANGED <<count, processed, clears>>
    BY <2>0, <2>3 DEF OnceInv
  <2>4. ASSUME NEW t \in Trades, Execute(t) PROVE OnceInv'
    BY <2>3, <2>4 DEF Execute
  <2>5. CASE ClockTick \/ VenueServe \/ Fetcher \/ DrainSwap \/ InlineReturn \/ FinishBody
             \/ AbandonBody \/ LeaveLoop \/ Restart \/ UNCHANGED fillVars
    BY <2>3, <2>5 DEF ClockTick, VenueServe, Fetcher, FetchSend, FetchFail, FallBack,
       PollerPush, DrainSwap, InlineReturn, FinishBody, AbandonBody, LeaveLoop,
       Restart, fillVars
  <2> QED BY <2>1, <2>2, <2>4, <2>5 DEF FillNext, Venue, Main
<1>3. OnceInv => AppliedOnce
  <2> SUFFICES ASSUME OnceInv, NEW t \in Trades PROVE count[t] <= 1 + clears
    BY DEF AppliedOnce
  <2>1. count[t] \in Nat /\ clears \in Nat
    BY DEF OnceInv, TypeOK
  <2> QED BY <2>1 DEF OnceInv
<1> QED BY <1>1, <1>2, <1>3, PTL DEF FillSpec

-----------------------------------------------------------------------------
(* NetPosition.                                                              *)

(* A leg has a side, an orphan none of ours, and the hand-over queue takes a *)
(* body (256 in executeTradingLoop).                                         *)
PosConstants ==
  /\ \A x \in PosLegs : x[2] \in Sides
  /\ Nobody \notin PosLegs
  /\ MaxBodies \in Nat \ {0}

TradeRec == [qty : {1, -1}, leg : PosLegs \cup {Nobody}]
BodyRec  == [kind : {"fills", "positions"}, has : SUBSET Nat]
LegAt    == {"none", "decided", "live", "cancelling", "filled"}

(* The types of the variables.                                               *)
PosTypes ==
  /\ trades \in Seq(TradeRec)
  /\ bodies \in Seq(BodyRec)
  /\ snapshot \in Int /\ unbooked \in Int
  /\ legs \in [PosLegs -> LegAt]
  /\ booked \subseteq Fills /\ basis \subseteq Fills /\ since \subseteq booked

(* The bodies were fetched in the order of the queue, none before a fill     *)
(* that has been booked.                                                     *)
InOrder(q, done) ==
  \A i \in 1 .. Len(q) :
    /\ q[i].has \subseteq Fills /\ done \subseteq q[i].has
    /\ \A j \in 1 .. Len(q) : i <= j => q[i].has \subseteq q[j].has

(* At the cap a leg on the growing side that is decided on or rests was      *)
(* decided on before the position changed.                                   *)
LegsOK ==
  AtCap(Effective) =>
    \A x \in PosLegs : legs[x] \in {"decided", "live"} /\ Grows(x[2], Effective) => x \in late

(* The inductive invariant behind BookSound and CapHeld.                     *)
PosInv == PosTypes /\ InOrder(bodies, booked) /\ BookSound /\ LegsOK

-----------------------------------------------------------------------------
(* Sums.                                                                     *)

(* A set of fills has a sum; no fill sums to nothing.                        *)
LEMMA SumIsInt ==
  ASSUME trades \in Seq(TradeRec), NEW S \in SUBSET Fills
  PROVE  SumOf(S) \in Int /\ SumOf({}) = 0 /\ IsFiniteSet(S)
<1>1. Fills = 1 .. Len(trades) /\ Len(trades) \in Nat
  BY DEF Fills
<1>2. IsFiniteSet(Fills)
  BY <1>1, FS_Interval
<1>3. IsFiniteSet(S)
  BY <1>2, FS_Subset
<1>4. \A T \in SUBSET S : Cardinality(T) \in Nat
  BY <1>3, FS_Subset, FS_CardinalityType
<1>5. {f \in S : trades[f].qty = 1} \in SUBSET S /\ {f \in S : trades[f].qty = -1} \in SUBSET S
  OBVIOUS
<1>6. SumOf(S) \in Int
  BY <1>4, <1>5 DEF SumOf
<1>7. {f \in {} : trades[f].qty = 1} = {} /\ {f \in {} : trades[f].qty = -1} = {} /\ Cardinality({}) = 0
  BY FS_EmptySet
<1>8. SumOf({}) = 0
  BY <1>7 DEF SumOf
<1>. QED
  BY <1>3, <1>6, <1>8

(* One more fill adds its quantity.                                          *)
LEMMA SumAdds ==
  ASSUME trades \in Seq(TradeRec), NEW S \in SUBSET Fills, NEW f \in Fills, f \notin S
  PROVE  SumOf(S \cup {f}) = SumOf(S) + trades[f].qty
<1>. DEFINE Of(T, q) == {g \in T : trades[g].qty = q}
<1>1. trades[f] \in TradeRec
  BY DEF Fills
<1>2. trades[f].qty \in {1, -1}
  BY <1>1 DEF TradeRec
<1>3. IsFiniteSet(S)
  BY SumIsInt
<1>4. \A q : Of(S, q) \subseteq S
  OBVIOUS
<1>5. \A q : IsFiniteSet(Of(S, q)) /\ Cardinality(Of(S, q)) \in Nat /\ f \notin Of(S, q)
  <2>. HIDE DEF Of
  <2>. QED
    BY <1>3, <1>4, FS_Subset, FS_CardinalityType
<1>6. /\ Of(S \cup {f}, 1) = IF trades[f].qty = 1 THEN Of(S, 1) \cup {f} ELSE Of(S, 1)
      /\ Of(S \cup {f}, -1) = IF trades[f].qty = -1 THEN Of(S, -1) \cup {f} ELSE Of(S, -1)
  OBVIOUS
<1>7. SumOf(S) = Cardinality(Of(S, 1)) - Cardinality(Of(S, -1))
  BY DEF SumOf
<1>8. SumOf(S \cup {f}) = Cardinality(Of(S \cup {f}, 1)) - Cardinality(Of(S \cup {f}, -1))
  BY DEF SumOf
<1>. HIDE DEF Of
<1>9. /\ Cardinality(Of(S, 1) \cup {f}) = Cardinality(Of(S, 1)) + 1
      /\ Cardinality(Of(S, -1) \cup {f}) = Cardinality(Of(S, -1)) + 1
  BY <1>5, FS_AddElement
<1>. DEFINE one == Cardinality(Of(S, 1))
            two == Cardinality(Of(S, -1))
<1>12. one \in Nat /\ two \in Nat
  BY <1>5
<1>10. CASE trades[f].qty = 1
  <2>1. trades[f].qty # -1
    BY <1>10
  <2>2. SumOf(S \cup {f}) = (one + 1) - two
    BY <1>6, <1>8, <1>9, <1>10, <2>1
  <2>. HIDE DEF one, two
  <2>. QED
    BY <1>7, <1>10, <1>12, <2>2 DEF one, two
<1>11. CASE trades[f].qty = -1
  <2>1. trades[f].qty # 1
    BY <1>11
  <2>2. SumOf(S \cup {f}) = one - (two + 1)
    BY <1>6, <1>8, <1>9, <1>11, <2>1
  <2>. HIDE DEF one, two
  <2>. QED
    BY <1>7, <1>11, <1>12, <2>2 DEF one, two
<1>. QED
  BY <1>2, <1>10, <1>11

(* The oldest of some fills is one of them.                                  *)
LEMMA OldestFill ==
  ASSUME NEW S \in SUBSET Nat, S # {}
  PROVE  Min(S) \in S
<1>1. PICK e \in S : \A f \in S : <<f, e>> \notin OpToRel(<, Nat)
  BY NatLessThanWellFounded, WFMin, Zenon
<1>2. \A f \in S : ~(f < e)
  BY <1>1 DEF OpToRel
<1>3. \A f \in S : e <= f
  BY <1>2
<1>. QED
  BY <1>3 DEF Min

-----------------------------------------------------------------------------
(* Nothing has happened yet.                                                 *)
LEMMA PosStart ==
  ASSUME PosConstants, PosInit
  PROVE  PosInv
<1>1. PosTypes
  BY DEF PosInit, PosTypes, Fills, LegAt
<1>2. InOrder(bodies, booked)
  BY DEF PosInit, InOrder
<1>3. BookSound
  <2>1. SumOf({}) = 0
    BY <1>1, SumIsInt DEF PosTypes
  <2>. QED
    BY <2>1 DEF PosInit, BookSound, Effective
<1>4. LegsOK
  BY DEF PosInit, LegsOK
<1>. QED
  BY <1>1, <1>2, <1>3, <1>4 DEF PosInv

(* The venue fills an order.                                                 *)
LEMMA VenueTrades ==
  ASSUME PosConstants, PosInv, NEW qty \in {1, -1}, NEW x \in PosLegs \cup {Nobody}, Trade(qty, x),
         UNCHANGED <<bodies, snapshot, unbooked, booked, basis, since>>
  PROVE  /\ trades' \in Seq(TradeRec) /\ Fills \subseteq Fills'
         /\ InOrder(bodies, booked)' /\ BookSound'
<1>. USE DEF PosInv
<1>. DEFINE n == [qty |-> qty, leg |-> x]
<1>1. n \in TradeRec /\ trades' = Append(trades, n)
  BY DEF Trade, TradeRec
<1>. HIDE DEF n
<1>2. trades' \in Seq(TradeRec) /\ Len(trades') = Len(trades) + 1 /\ Len(trades) \in Nat
      /\ \A f \in 1 .. Len(trades) : trades'[f] = trades[f]
  BY <1>1 DEF PosTypes
<1>3. Fills \subseteq Fills' /\ \A f \in Fills : trades'[f] = trades[f]
  BY <1>2, SMTT(30) DEF Fills, PosTypes
<1>4. InOrder(bodies, booked)'
  BY <1>3 DEF InOrder
<1>5. ASSUME NEW S \in SUBSET Fills
      PROVE  SumOf(S)' = SumOf(S)
  <2>1. \A q : {f \in S : trades'[f].qty = q} = {f \in S : trades[f].qty = q}
    BY <1>3
  <2>. QED
    BY <2>1 DEF SumOf
<1>6. SumOf(basis)' = SumOf(basis) /\ SumOf(since)' = SumOf(since)
  BY <1>5 DEF PosTypes, SumOf
<1>7. BookSound'
  BY <1>3, <1>6 DEF BookSound, Effective, PosTypes
<1>. QED
  BY <1>2, <1>3, <1>4, <1>7

(* A body is put at the end of the queue, or one is taken from its head.     *)
LEMMA BodiesMove ==
  ASSUME PosConstants, PosInv, trades' = trades, booked' = booked,
         \/ \E k \in {"fills", "positions"} : Push([kind |-> k, has |-> Fills])
         \/ bodies # <<>> /\ bodies' = Tail(bodies)
  PROVE  bodies' \in Seq(BodyRec) /\ InOrder(bodies, booked)'
<1>. USE DEF PosInv
<1>1. bodies \in Seq(BodyRec) /\ Fills \subseteq Nat /\ Fills' = Fills /\ booked \subseteq Fills
  BY DEF PosTypes, Fills
<1>2. ASSUME bodies # <<>>
      PROVE  Tail(bodies) \in Seq(BodyRec) /\ InOrder(Tail(bodies), booked)
  <2>. DEFINE t == Tail(bodies)
  <2>1. /\ t \in Seq(BodyRec) /\ Len(t) \in Nat /\ Len(bodies) = Len(t) + 1
        /\ \A i \in 1 .. Len(t) : t[i] = bodies[i + 1] /\ i + 1 \in 1 .. Len(bodies)
    BY <1>1, <1>2
  <2>. HIDE DEF t
  <2>2. \A i, j \in 1 .. Len(t) : i <= j => i + 1 <= j + 1
    BY <2>1
  <2>3. InOrder(t, booked)
    BY <2>1, <2>2 DEF InOrder
  <2>. QED
    BY <2>1, <2>3 DEF t
<1>3. ASSUME NEW q \in Seq(BodyRec), InOrder(q, booked), NEW k \in {"fills", "positions"}
      PROVE  Append(q, [kind |-> k, has |-> Fills]) \in Seq(BodyRec)
             /\ InOrder(Append(q, [kind |-> k, has |-> Fills]), booked)
  <2>. DEFINE b == [kind |-> k, has |-> Fills]
              a == Append(q, b)
  <2>1. b \in BodyRec /\ b.has = Fills
    BY <1>1 DEF BodyRec
  <2>. HIDE DEF b
  <2>2. /\ a \in Seq(BodyRec) /\ Len(a) = Len(q) + 1 /\ Len(q) \in Nat /\ a[Len(q) + 1] = b
        /\ \A i \in 1 .. Len(q) : a[i] = q[i]
    BY <2>1
  <2>. HIDE DEF a
  <2>3. \A i \in 1 .. Len(a) : i \in 1 .. Len(q) \/ i = Len(q) + 1
    BY <2>2
  <2>4. \A i \in 1 .. Len(a) : a[i].has \subseteq Fills /\ booked \subseteq a[i].has
    BY <1>1, <1>3, <2>1, <2>2, <2>3 DEF InOrder
  <2>5. \A i, j \in 1 .. Len(a) : i <= j => a[i].has \subseteq a[j].has
    <3>1. SUFFICES ASSUME NEW i \in 1 .. Len(a), NEW j \in 1 .. Len(a), i <= j
                   PROVE  a[i].has \subseteq a[j].has
      OBVIOUS
    <3>2. CASE j = Len(q) + 1
      BY <2>1, <2>2, <2>4, <3>2
    <3>3. CASE j \in 1 .. Len(q)
      <4>1. i \in 1 .. Len(q)
        BY <2>2, <3>1, <3>3
      <4>. QED
        BY <1>3, <2>2, <3>1, <3>3, <4>1 DEF InOrder
    <3>. QED
      BY <2>3, <3>2, <3>3
  <2>6. InOrder(a, booked)
    BY <2>4, <2>5 DEF InOrder
  <2>. QED
    BY <2>2, <2>6 DEF a, b
<1>4. bodies' \in Seq(BodyRec) /\ InOrder(bodies', booked)
  <2>1. CASE bodies # <<>> /\ bodies' = Tail(bodies)
    BY <1>2, <2>1
  <2>2. ASSUME NEW k \in {"fills", "positions"}, Push([kind |-> k, has |-> Fills])
        PROVE  bodies' \in Seq(BodyRec) /\ InOrder(bodies', booked)
    <3>1. CASE Len(bodies) = MaxBodies
      <4>1. bodies # <<>>
        BY <1>1, <3>1 DEF PosConstants
      <4>2. bodies' = Append(Tail(bodies), [kind |-> k, has |-> Fills])
        BY <2>2, <3>1 DEF Push
      <4>. QED
        BY <1>2, <1>3, <4>1, <4>2
    <3>2. CASE Len(bodies) # MaxBodies
      <4>1. bodies' = Append(bodies, [kind |-> k, has |-> Fills])
        BY <2>2, <3>2 DEF Push
      <4>. QED
        BY <1>1, <1>3, <4>1
    <3>. QED
      BY <3>1, <3>2
  <2>. QED
    BY <2>1, <2>2
<1>. QED
  BY <1>1, <1>4 DEF InOrder

(* A leg is decided on, placed, filled or cancelled; the position stays.     *)
LEMMA LegMoves ==
  ASSUME PosConstants, PosInv,
         \/ \E x \in PosLegs : LegFills(x) \/ CancelEnds(x) \/ DecideLeg(x) \/ PlaceLeg(x)
         \/ \E d \in Sides : OrphanFills(d)
  PROVE  PosInv'
<1>. USE DEF PosInv
<1>1. UNCHANGED <<bodies, snapshot, unbooked, booked, basis, since>>
  BY DEF LegFills, CancelEnds, DecideLeg, PlaceLeg, OrphanFills
<1>2. \A d \in Sides : Signed(d) \in {1, -1}
  BY DEF Signed
<1>3. \A x \in PosLegs : x[2] \in Sides
  BY DEF PosConstants
<1>4. trades' \in Seq(TradeRec) /\ Fills \subseteq Fills' /\ InOrder(bodies, booked)' /\ BookSound'
  <2>1. CASE trades' = trades
    <3>1. Fills' = Fills
      BY <2>1 DEF Fills
    <3>2. InOrder(bodies, booked)'
      BY <1>1, <3>1 DEF InOrder
    <3>3. BookSound'
      BY <1>1, <2>1 DEF BookSound, Effective, SumOf
    <3>. QED
      BY <2>1, <3>1, <3>2, <3>3 DEF PosTypes
  <2>2. ASSUME NEW x \in PosLegs, LegFills(x)
        PROVE  trades' \in Seq(TradeRec) /\ Fills \subseteq Fills' /\ InOrder(bodies, booked)' /\ BookSound'
    <3>1. Trade(Signed(x[2]), x) /\ Signed(x[2]) \in {1, -1}
      BY <1>2, <1>3, <2>2 DEF LegFills
    <3>. QED
      BY <1>1, <3>1, VenueTrades
  <2>3. ASSUME NEW d \in Sides, OrphanFills(d)
        PROVE  trades' \in Seq(TradeRec) /\ Fills \subseteq Fills' /\ InOrder(bodies, booked)' /\ BookSound'
    <3>1. Trade(Signed(d), Nobody) /\ Signed(d) \in {1, -1}
      BY <1>2, <2>3 DEF OrphanFills
    <3>. QED
      BY <1>1, <3>1, VenueTrades
  <2>. QED
    BY <2>1, <2>2, <2>3 DEF CancelEnds, DecideLeg, PlaceLeg
<1>5. Effective' = Effective
  BY <1>1 DEF Effective
<1>6. legs' \in [PosLegs -> LegAt] /\ LegsOK'
  <2>1. legs \in [PosLegs -> LegAt] /\ LegsOK
    BY DEF PosTypes
  <2>2. CASE \E d \in Sides : OrphanFills(d)
    BY <1>5, <2>1, <2>2 DEF OrphanFills, LegsOK, AtCap, Grows
  <2>3. ASSUME NEW x \in PosLegs, LegFills(x) \/ CancelEnds(x)
        PROVE  legs' \in [PosLegs -> LegAt] /\ LegsOK'
    <3>1. PICK a \in {"none", "filled"} : legs' = [legs EXCEPT ![x] = a] /\ late' = late
      BY <2>3 DEF LegFills, CancelEnds
    <3>2. legs' \in [PosLegs -> LegAt] /\ \A y \in PosLegs : legs'[y] \in {"decided", "live"} => legs'[y] = legs[y]
      BY <2>1, <3>1 DEF LegAt
    <3>. QED
      BY <1>5, <2>1, <3>1, <3>2 DEF LegsOK, AtCap, Grows
  <2>4. ASSUME NEW x \in PosLegs, DecideLeg(x)
        PROVE  legs' \in [PosLegs -> LegAt] /\ LegsOK'
    <3>1. legs' = [legs EXCEPT ![x] = "decided"] /\ late' = late \ {x} /\ MayGrow(x[2])
      BY <2>4 DEF DecideLeg
    <3>2. legs' \in [PosLegs -> LegAt] /\ \A y \in PosLegs \ {x} : legs'[y] = legs[y]
      BY <2>1, <3>1 DEF LegAt
    <3>3. AtCap(Effective) => ~ Grows(x[2], Effective)
      BY <3>1 DEF MayGrow
    <3>. QED
      BY <1>5, <2>1, <3>1, <3>2, <3>3 DEF LegsOK, AtCap, Grows
  <2>5. ASSUME NEW x \in PosLegs, PlaceLeg(x)
        PROVE  legs' \in [PosLegs -> LegAt] /\ LegsOK'
    <3>1. legs[x] = "decided" /\ legs' = [legs EXCEPT ![x] = "live"] /\ late' = late
      BY <2>5 DEF PlaceLeg
    <3>2. /\ legs' \in [PosLegs -> LegAt]
          /\ \A y \in PosLegs : legs'[y] \in {"decided", "live"} => legs[y] \in {"decided", "live"}
      BY <2>1, <3>1 DEF LegAt
    <3>. QED
      BY <1>5, <2>1, <3>1, <3>2 DEF LegsOK, AtCap, Grows
  <2>. QED
    BY <2>2, <2>3, <2>4, <2>5
<1>7. PosTypes'
  BY <1>1, <1>4, <1>6 DEF PosTypes
<1>. QED
  BY <1>4, <1>6, <1>7

(* The position changes: what rests on the growing side at the cap is        *)
(* cancelled, and what is decided on is late.                                *)
LEMMA Converged ==
  ASSUME NEW l \in [PosLegs -> LegAt], legs' = Converge(l, Effective'),
         \A x \in PosLegs : l[x] = "decided" => x \in late'
  PROVE  legs' \in [PosLegs -> LegAt] /\ LegsOK'
<1>1. \A x \in PosLegs : legs'[x] = IF AtCap(Effective') /\ Grows(x[2], Effective') /\ l[x] = "live"
                                    THEN "cancelling" ELSE l[x]
  BY DEF Converge
<1>2. legs' \in [PosLegs -> LegAt]
  BY DEF Converge, LegAt
<1>3. LegsOK'
  BY <1>1 DEF LegsOK, AtCap, Grows, Magnitude
<1>. QED
  BY <1>2, <1>3

(* The main loop books a fill, the oldest that it has not booked.            *)
LEMMA BookFillStep ==
  ASSUME PosConstants, PosInv, BookFill
  PROVE  PosInv'
<1>. USE DEF PosInv
<1>. DEFINE f == Min(NextBody.item.has \ booked)
            x == trades[f].leg
            q == trades[f].qty
<1>1. /\ bodies # <<>> /\ NextBody.item.has \ booked # {}
      /\ UNCHANGED <<trades, bodies, snapshot, basis>> /\ booked' = booked \cup {f}
      /\ IF x = Nobody THEN UNCHANGED <<unbooked, legs, since, late>>
         ELSE /\ unbooked' = unbooked + q /\ since' = since \cup {f}
              /\ legs' = Converge([legs EXCEPT ![x] = "none"], snapshot + unbooked + q)
              /\ late' = Undecided
  BY DEF BookFill
<1>2. /\ bodies \in Seq(BodyRec) /\ 1 \in 1 .. Len(bodies) /\ NextBody.item = bodies[1]
      /\ Fills \subseteq Nat /\ Fills' = Fills
  BY <1>1 DEF PosTypes, NextBody, Fills
<1>3. f \in bodies[1].has \ booked /\ f \in Fills
  BY <1>1, <1>2, OldestFill DEF InOrder
<1>4. trades[f] \in TradeRec
  BY <1>3 DEF PosTypes, Fills
<1>5. q \in {1, -1} /\ x \in PosLegs \cup {Nobody}
  BY <1>4 DEF TradeRec
<1>. HIDE DEF f, x, q
<1>6. InOrder(bodies, booked)'
  <2>1. \A i \in 1 .. Len(bodies) : bodies[1].has \subseteq bodies[i].has
    BY <1>2 DEF InOrder
  <2>. QED
    BY <1>1, <1>2, <1>3, <2>1 DEF InOrder
<1>7. CASE x = Nobody
  <2>1. UNCHANGED <<unbooked, legs, since, late>>
    BY <1>1, <1>7
  <2>2. PosTypes' /\ LegsOK'
    BY <1>1, <1>2, <1>3, <2>1 DEF PosTypes, LegsOK, AtCap, Grows, Effective
  <2>3. BookSound'
    <3>1. Effective' = SumOf(basis)' + SumOf(since)'
      BY <1>1, <2>1 DEF BookSound, Effective, SumOf
    <3>2. {g \in booked' : trades'[g].leg # Nobody} \subseteq basis' \cup since'
      BY <1>1, <1>7, <2>1 DEF BookSound, x
    <3>. QED
      BY <3>1, <3>2 DEF BookSound
  <2>. QED
    BY <1>6, <2>2, <2>3
<1>8. CASE x \in PosLegs
  <2>1. /\ unbooked' = unbooked + q /\ since' = since \cup {f}
        /\ legs' = Converge([legs EXCEPT ![x] = "none"], snapshot + unbooked + q)
        /\ late' = Undecided
    BY <1>1, <1>8 DEF PosConstants
  <2>2. snapshot \in Int /\ unbooked \in Int /\ q \in Int /\ legs \in [PosLegs -> LegAt]
    BY <1>5 DEF PosTypes
  <2>3. Effective' = snapshot + unbooked + q /\ Effective' = Effective + q
    BY <1>1, <2>1, <2>2 DEF Effective
  <2>4. legs' \in [PosLegs -> LegAt] /\ LegsOK'
    <3>. DEFINE l == [legs EXCEPT ![x] = "none"]
    <3>1. l \in [PosLegs -> LegAt] /\ \A y \in PosLegs : l[y] = "decided" => legs[y] = "decided"
      BY <2>2 DEF LegAt
    <3>2. legs' = Converge(l, Effective')
      BY <2>1, <2>3
    <3>3. \A y \in PosLegs : l[y] = "decided" => y \in late'
      BY <2>1, <3>1 DEF Undecided
    <3>. HIDE DEF l
    <3>. QED
      BY <3>1, <3>2, <3>3, Converged
  <2>5. PosTypes'
    <3>1. booked' \subseteq Fills' /\ basis' \subseteq Fills' /\ since' \subseteq booked'
      BY <1>1, <1>2, <1>3, <2>1 DEF PosTypes
    <3>2. snapshot' \in Int /\ unbooked' \in Int
      BY <1>1, <2>1, <2>2
    <3>3. trades' \in Seq(TradeRec) /\ bodies' \in Seq(BodyRec)
      BY <1>1 DEF PosTypes
    <3>. QED
      BY <2>4, <3>1, <3>2, <3>3 DEF PosTypes
  <2>6. BookSound'
    <3>1. since \in SUBSET Fills /\ basis \in SUBSET Fills /\ f \notin since
      BY <1>3 DEF PosTypes
    <3>2. SumOf(since \cup {f}) = SumOf(since) + q /\ SumOf(since) \in Int /\ SumOf(basis) \in Int
      BY <1>3, <3>1, SumAdds, SumIsInt DEF PosTypes, q
    <3>3. SumOf(basis)' = SumOf(basis) /\ SumOf(since)' = SumOf(since \cup {f})
      BY <1>1, <2>1 DEF SumOf
    <3>4. Effective = SumOf(basis) + SumOf(since)
      BY DEF BookSound
    <3>5. Effective' = SumOf(basis)' + SumOf(since)'
      BY <2>2, <2>3, <3>2, <3>3, <3>4
    <3>6. {g \in booked' : trades'[g].leg # Nobody} \subseteq basis' \cup since'
      BY <1>1, <2>1 DEF BookSound
    <3>. QED
      BY <3>5, <3>6 DEF BookSound
  <2>. QED
    BY <1>6, <2>4, <2>5, <2>6
<1>. QED
  BY <1>5, <1>7, <1>8

(* A position is applied, or asked for by a new stack: it has every fill     *)
(* that has been booked.                                                     *)
LEMMA SnapshotSteps ==
  ASSUME PosConstants, PosInv, ApplySnapshot \/ Seed
  PROVE  PosInv'
<1>. USE DEF PosInv
<1>1. PICK S \in SUBSET Fills :
        /\ snapshot' = SumOf(S) /\ unbooked' = 0 /\ basis' = S /\ since' = {}
        /\ booked \subseteq S /\ UNCHANGED <<trades, booked>>
  <2>1. CASE ApplySnapshot
    <3>1. bodies # <<>> /\ NextBody.item = bodies[1] /\ 1 \in 1 .. Len(bodies)
      BY <2>1 DEF ApplySnapshot, NextBody, PosTypes
    <3>2. bodies[1].has \subseteq Fills /\ booked \subseteq bodies[1].has
      BY <3>1 DEF InOrder
    <3>. QED
      BY <2>1, <3>1, <3>2 DEF ApplySnapshot
  <2>2. CASE Seed
    BY <2>2 DEF Seed, PosTypes
  <2>. QED
    BY <2>1, <2>2
<1>2. Fills' = Fills
  BY <1>1 DEF Fills
<1>3. bodies' \in Seq(BodyRec) /\ InOrder(bodies, booked)'
  <2>1. CASE ApplySnapshot
    <3>1. bodies # <<>> /\ bodies' = Tail(bodies)
      BY <2>1 DEF ApplySnapshot, NextBody
    <3>. QED
      BY <1>1, <3>1, BodiesMove
  <2>2. CASE Seed
    BY <1>1, <1>2, <2>2 DEF Seed, PosTypes, InOrder
  <2>. QED
    BY <2>1, <2>2
<1>4. SumOf(S) \in Int /\ SumOf({}) = 0
  BY SumIsInt DEF PosTypes
<1>5. Effective' = SumOf(S)
  BY <1>1, <1>4 DEF Effective
<1>6. BookSound'
  <2>1. SumOf(basis)' = SumOf(S) /\ SumOf(since)' = SumOf({})
    BY <1>1 DEF SumOf
  <2>. QED
    BY <1>1, <1>4, <1>5, <2>1 DEF BookSound
<1>7. legs' \in [PosLegs -> LegAt] /\ LegsOK'
  <2>1. legs \in [PosLegs -> LegAt]
    BY DEF PosTypes
  <2>2. CASE ApplySnapshot
    <3>1. legs' = Converge(legs, Effective') /\ late' = Undecided
      BY <1>1, <1>5, <2>2 DEF ApplySnapshot
    <3>. QED
      BY <2>1, <3>1, Converged DEF Undecided
  <2>3. CASE Seed
    BY <2>1, <2>3 DEF Seed, LegsOK
  <2>. QED
    BY <2>2, <2>3
<1>8. PosTypes'
  BY <1>1, <1>2, <1>3, <1>4, <1>7 DEF PosTypes
<1>. QED
  BY <1>3, <1>6, <1>7, <1>8

(* Every step keeps the invariant.                                           *)
LEMMA PosStep ==
  ASSUME PosConstants, PosInv, [PosNext]_posState
  PROVE  PosInv'
<1>. USE DEF PosInv
<1>1. CASE FetchFills \/ FetchPositions \/ FillsDone
  <2>1. UNCHANGED <<trades, snapshot, unbooked, legs, booked, basis, since, late>>
    BY <1>1 DEF FetchFills, FetchPositions, FillsDone
  <2>2. \/ \E k \in {"fills", "positions"} : Push([kind |-> k, has |-> Fills])
        \/ bodies # <<>> /\ bodies' = Tail(bodies)
    BY <1>1 DEF FetchFills, FetchPositions, FillsDone, NextBody
  <2>3. bodies' \in Seq(BodyRec) /\ InOrder(bodies, booked)'
    BY <2>1, <2>2, BodiesMove
  <2>4. PosTypes' /\ BookSound' /\ LegsOK'
    BY <2>1, <2>3 DEF PosTypes, Fills, BookSound, SumOf, Effective, LegsOK, AtCap, Grows
  <2>. QED
    BY <2>3, <2>4
<1>2. CASE UNCHANGED posState
  <2>1. UNCHANGED <<trades, bodies, snapshot, unbooked, legs, booked, basis, since, late>>
    BY <1>2 DEF posState
  <2>2. Fills' = Fills
    BY <2>1 DEF Fills
  <2>3. InOrder(bodies, booked)'
    BY <2>1, <2>2 DEF InOrder
  <2>4. PosTypes' /\ BookSound' /\ LegsOK'
    BY <2>1 DEF PosTypes, Fills, BookSound, SumOf, Effective, LegsOK, AtCap, Grows
  <2>. QED
    BY <2>3, <2>4
<1>. QED
  BY <1>1, <1>2, LegMoves, BookFillStep, SnapshotSteps DEF PosNext

(* No processed fill of ours is missing from the position book, however      *)
(* fills, polls, dropped bodies and new stacks interleave.                   *)
THEOREM BookMissesNothing ==
  ASSUME PosConstants
  PROVE  PosSpec => []BookSound
<1>1. PosInv => BookSound
  BY DEF PosInv
<1>. QED
  BY <1>1, PosStart, PosStep, PTL DEF PosSpec

(* At any cap, what rests on the growing side without a cancel under way was *)
(* decided on before the position changed last.                              *)
THEOREM CapIsHeld ==
  ASSUME PosConstants
  PROVE  PosSpec => []CapHeld
<1>1. PosInv => CapHeld
  BY DEF PosInv, LegsOK, CapHeld
<1>. QED
  BY <1>1, PosStart, PosStep, PTL DEF PosSpec
=============================================================================

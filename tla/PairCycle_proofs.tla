-------------------------- MODULE PairCycle_proofs --------------------------
(***************************************************************************)
(* Proofs about PairCycle: the count of pending accepts is exact, and of    *)
(* an active stack every leg that is being cancelled has a cancel on its    *)
(* way, for any number of orders, any cap and any set of faults.            *)
(*                                                                          *)
(* The handlers are compositions of operators on the desk record; what all  *)
(* of them keep is stated once, as the relation Follows, which composes.    *)
(***************************************************************************)
EXTENDS PairCycle, FiniteSetTheorems, FunctionTheorems, WellFoundedInduction, TLAPS

Ids      == Orders \cup {None}
LegRec   == [ord : Ids, st : {"ADOPTED", "CANCEL_PENDING", "CANCELLED", "PLACE_PENDING", "FILLED"},
             intent : {"None", "TheoMove", "FillOpposite"}, retry : BOOLEAN, due : BOOLEAN,
             cid : Ids, age : Nat]
JobRec   == [kind : {"quote", "requote", "repeg", "cancel"}, ords : SUBSET Orders, side : Sides]
QuoteSteps == {"decide", "cycle", "drop", "clean", "scrub", "replace", "wanted", "place",
               "fresh", "forget"}
StepRec  == [step : QuoteSteps \cup {"answer", "submit", "accept", "track", "cancel"},
             ord : Ids, side : Sides]
DeskRec  == [legs : [Sides -> Seq(LegRec)], top : [Sides -> Ids], net : Int, pend : Nat,
             queue : Seq(JobRec)]

(* The legs of a side: each order has at most one, on its own side, and so has *)
(* each answer that is awaited; a leg that rests has an order.                *)
LegsOK(q, s) ==
  \A i \in DOMAIN q :
    /\ q[i].ord # None => Side(q[i].ord) = s
    /\ q[i].st = "ADOPTED" => q[i].ord # None
    /\ q[i].st = "PLACE_PENDING" => q[i].ord = None /\ (q[i].cid # None => Side(q[i].cid) = s)
    /\ \A j \in DOMAIN q \ {i} :
         /\ q[i].ord # None => q[i].ord # q[j].ord
         /\ q[i].st = "PLACE_PENDING" /\ q[j].st = "PLACE_PENDING" /\ q[i].cid # None =>
              q[i].cid # q[j].cid
Tidy(d) == d \in DeskRec /\ \A s \in Sides : LegsOK(d.legs[s], s)

(* The orders that legs are being cancelled for, those with a cancel in the   *)
(* queue, and those whose answer a leg awaits.                               *)
Pulled(d)  == {o \in Orders : \E s \in Sides : \E i \in DOMAIN d.legs[s] :
                 d.legs[s][i].ord = o /\ d.legs[s][i].st = "CANCEL_PENDING"}
Calls(d)   == {o \in Orders : \E i \in DOMAIN d.queue :
                 d.queue[i].kind = "cancel" /\ o \in d.queue[i].ords}
Awaited(d) == {o \in Orders : \E s \in Sides : \E i \in DOMAIN d.legs[s] : Awaits(d.legs[s][i], o)}
Sending(w) == {o \in Orders : \E i \in DOMAIN w : w[i].step = "cancel" /\ w[i].ord = o}

(* The shapes of the job the worker runs: cancels; a quote, whose order is      *)
(* answered before it goes on; or a fresh pair.                              *)
WorkOK(w) ==
  \/ \A i \in DOMAIN w : w[i].step = "cancel" /\ w[i].ord \in Orders
  \/ \A i \in DOMAIN w : w[i].step \in QuoteSteps \/ (w[i].step = "answer" /\ i = 1)
  \/ \A i \in DOMAIN w : \/ w[i].step = "submit"
                         \/ w[i].step \in {"accept", "track"} /\ i = 1
                         \/ w[i].step = "track" /\ i = 2 /\ w[1].step = "accept"

(* Orders are answered once, after they are sent.                            *)
SentOK ==
  /\ \A o \in Orders : /\ venue[o] = "unsent" => om[o] = "none"
                       /\ om[o] = "final" => venue[o] \notin {"unsent", "live"}
  /\ \A o \in Booked(desk) : om[o] # "none"
  /\ \A o \in Awaited(desk) : venue[o] # "unsent"
  /\ \A i \in DOMAIN work :
       /\ work[i].step \in {"answer", "accept"} =>
            work[i].ord \in Orders /\ om[work[i].ord] = "none" /\ venue[work[i].ord] # "unsent"
       /\ work[i].step = "track" =>
            work[i].ord \in Orders /\ venue[work[i].ord] # "unsent" /\ work[i].ord \notin Awaited(desk)

Waits(w) == {i \in DOMAIN w : w[i].step \in {"answer", "accept", "submit"}}
PendOK == desk.pend = Cardinality(Waits(work))
CoverOK == stack = "ACTIVE" => Pulled(desk) \cap Live \subseteq asked \cup Calls(desk) \cup Sending(work)

PairTypes ==
  /\ venue \in [Orders -> {"unsent", "live", "filled", "dropped", "gone", "refused"}]
  /\ om \in [Orders -> {"none", "active", "final"}]
  /\ Tidy(desk) /\ work \in Seq(StepRec)

(* The inductive invariant.                                                  *)
PairInv == PairTypes /\ WorkOK(work) /\ SentOK /\ PendOK /\ CoverOK
-----------------------------------------------------------------------------
(* Sides and names.                                                          *)
LEMMA Names ==
  /\ None \notin Orders
  /\ \A o \in Orders : Side(o) \in Sides
  /\ \A s \in Sides : Opp(s) \in Sides /\ Opp(s) # s
<1>1. \A s \in Sides : \E t \in Sides : t # s
  BY DEF Sides
<1>. QED
  BY <1>1 DEF None, Orders, Sides, Side, Opp

(* Some numbers have a least one.                                            *)
LEMMA LeastOne ==
  ASSUME NEW I, I \subseteq Nat, I # {}
  PROVE  \E i \in I : \A j \in I : i <= j
<1>1. PICK x \in I : \A y \in I : ~ (<<y, x>> \in OpToRel(<, Nat))
  BY NatLessThanWellFounded, WFMin
<1>2. \A y \in I : ~ (y < x)
  BY <1>1, Zenon DEF OpToRel
<1>3. \A y \in I : x <= y
  BY <1>2
<1>. QED
  BY <1>3

(* A sequence whose entries are replaced one by one.                         *)
LEMMA Mapped ==
  ASSUME NEW S, NEW q \in Seq(S), NEW f \in [DOMAIN q -> S]
  PROVE  f \in Seq(S) /\ Len(f) = Len(q) /\ DOMAIN f = DOMAIN q
<1>1. DOMAIN q = 1 .. Len(q) /\ Len(q) \in Nat
  OBVIOUS
<1>2. f = [i \in 1 .. Len(q) |-> f[i]] /\ \A i \in 1 .. Len(q) : f[i] \in S
  BY <1>1
<1>3. [i \in 1 .. Len(q) |-> f[i]] \in Seq(S) /\ Len([i \in 1 .. Len(q) |-> f[i]]) = Len(q)
  BY <1>1, <1>2
<1>. QED
  BY <1>1, <1>2, <1>3

(* What is kept of a sequence are entries of it, each once.                   *)
LEMMA KeptEntries ==
  ASSUME NEW S, NEW q \in Seq(S), NEW I, I \subseteq DOMAIN q
  PROVE  /\ Kept(q, I) \in Seq(S)
         /\ \E f \in Injection(DOMAIN Kept(q, I), I) :
              \A n \in DOMAIN Kept(q, I) : Kept(q, I)[n] = q[f[n]]
<1>. DEFINE Upto(i) == {j \in I : j <= i}
            C == Cardinality(I)
            R == [i \in I |-> Cardinality(Upto(i))]
            F == [n \in 1 .. C |-> CHOOSE i \in I : Cardinality(Upto(i)) = n]
<1>1. Len(q) \in Nat /\ I \subseteq 1 .. Len(q)
  OBVIOUS
<1>2. IsFiniteSet(1 .. Len(q))
  BY <1>1, FS_Interval
<1>3. IsFiniteSet(I) /\ C \in Nat
  BY <1>1, <1>2, FS_Subset, FS_CardinalityType
<1>4. ASSUME NEW i \in I
      PROVE  /\ IsFiniteSet(Upto(i)) /\ Cardinality(Upto(i)) \in 1 .. C
             /\ \A k \in I : i < k => Cardinality(Upto(i)) # Cardinality(Upto(k))
  <2>1. IsFiniteSet(Upto(i)) /\ Cardinality(Upto(i)) \in Nat /\ Cardinality(Upto(i)) <= C
    BY <1>3, FS_Subset, FS_CardinalityType
  <2>2. i \in Upto(i)
    BY <1>1
  <2>3. Cardinality(Upto(i)) # 0
    BY <2>1, <2>2, FS_EmptySet
  <2>4. ASSUME NEW k \in I, i < k
        PROVE  Cardinality(Upto(i)) # Cardinality(Upto(k))
    <3>1. IsFiniteSet(Upto(k))
      BY <1>3, FS_Subset
    <3>2. Upto(i) \subseteq Upto(k) /\ k \in Upto(k) /\ k \notin Upto(i)
      BY <1>1, <2>4
    <3>3. Upto(i) # Upto(k)
      BY <3>2
    <3>. HIDE DEF Upto
    <3>. QED
      BY <3>1, <3>2, <3>3, FS_Subset
  <2>. QED
    BY <1>3, <2>1, <2>3, <2>4
<1>. HIDE DEF Upto, C
<1>5. R \in Injection(I, 1 .. C)
  <2>1. \A i, k \in I : i # k => R[i] # R[k]
    <3>. SUFFICES ASSUME NEW i \in I, NEW k \in I, i < k \/ k < i
                  PROVE  R[i] # R[k]
      BY <1>1
    <3>. QED
      BY <1>4
  <2>2. R \in [I -> 1 .. C]
    BY <1>4
  <2>. HIDE DEF R
  <2>3. \A i, k \in I : R[i] = R[k] => i = k
    BY <2>1
  <2>. QED
    BY <2>2, <2>3 DEF Injection, IsInjective
<1>6. IsFiniteSet(1 .. C) /\ Cardinality(1 .. C) = C
  BY <1>3, FS_Interval
<1>7. R \in Surjection(I, 1 .. C)
  BY <1>3, <1>5, <1>6, FS_Injection DEF C
<1>8. \A n \in 1 .. C : \E i \in I : Cardinality(Upto(i)) = n
  BY <1>7 DEF Surjection
<1>9. \A n \in 1 .. C : F[n] \in I /\ Cardinality(Upto(F[n])) = n
  BY <1>8
<1>10. Kept(q, I) = [n \in 1 .. C |-> q[F[n]]]
  BY DEF Kept, Upto, C
<1>11. F \in Injection(1 .. C, I)
  <2>1. F \in [1 .. C -> I]
    BY <1>9
  <2>2. \A m, n \in 1 .. C : F[m] = F[n] => m = n
    BY <1>9
  <2>. HIDE DEF F
  <2>. QED
    BY <2>1, <2>2 DEF Injection, IsInjective
<1>12. \A n \in 1 .. C : q[F[n]] \in S
  BY <1>9
<1>. HIDE DEF F
<1>13. [n \in 1 .. C |-> q[F[n]]] \in Seq(S)
  BY <1>3, <1>12
<1>. QED
  BY <1>10, <1>11, <1>13
-----------------------------------------------------------------------------
(* What every operator on the desk record keeps, except that the legs of the   *)
(* orders in X are newly marked as being cancelled without a request.         *)
Follows(d, e, X) ==
  /\ Tidy(e) /\ e.pend = d.pend
  /\ Booked(e) \subseteq Booked(d) /\ Awaited(e) \subseteq Awaited(d)
  /\ Calls(d) \subseteq Calls(e)
  /\ Pulled(e) \subseteq Pulled(d) \cup Calls(e) \cup X

(* The relation composes.                                                    *)
LEMMA FollowsOn ==
  ASSUME NEW d, NEW e, NEW f, NEW X, NEW Y, Follows(d, e, X), Follows(e, f, Y)
  PROVE  Follows(d, f, X \cup Y)
BY DEF Follows

(* Marked legs are accounted for once their cancels are queued.                *)
LEMMA FollowsCalled ==
  ASSUME NEW d, NEW e, NEW f, NEW X, Follows(d, e, X), Follows(e, f, {}), X \subseteq Calls(f)
  PROVE  Follows(d, f, {})
BY DEF Follows

(* A leg and what an operator makes of it: the order stays or is forgotten, no   *)
(* leg begins to await an answer, and only legs of X begin to be cancelled.    *)
SameLeg(l, m, X) ==
  /\ m.ord \in {l.ord, None}
  /\ m.st = "ADOPTED" => l.st = "ADOPTED" /\ m.ord = l.ord
  /\ m.st = "PLACE_PENDING" => l.st = "PLACE_PENDING" /\ m.cid = l.cid /\ m.ord = l.ord
  /\ m.st = "CANCEL_PENDING" /\ m.ord # None => l.st = "CANCEL_PENDING" \/ m.ord \in X

(* Legs that are changed one by one.                                         *)
LEMMA LegsChanged ==
  ASSUME NEW d, Tidy(d), NEW X, NEW L \in [Sides -> Seq(LegRec)],
         \A s \in Sides : /\ DOMAIN L[s] = DOMAIN d.legs[s]
                          /\ \A i \in DOMAIN L[s] : SameLeg(d.legs[s][i], L[s][i], X)
  PROVE  Follows(d, [d EXCEPT !.legs = L], X)
<1>. DEFINE e == [d EXCEPT !.legs = L]
<1>1. e \in DeskRec /\ e.legs = L /\ e.pend = d.pend /\ e.queue = d.queue
  BY DEF Tidy, DeskRec
<1>. HIDE DEF e
<1>2. \A s \in Sides : LegsOK(L[s], s)
  BY DEF Tidy, LegsOK, SameLeg
<1>3. Calls(e) = Calls(d)
  BY <1>1 DEF Calls
<1>4. Booked(e) \subseteq Booked(d)
  BY <1>1, Names DEF Booked, SameLeg
<1>5. Awaited(e) \subseteq Awaited(d)
  BY <1>1 DEF Awaited, Awaits, SameLeg
<1>6. Pulled(e) \subseteq Pulled(d) \cup X
  BY <1>1, Names DEF Pulled, SameLeg
<1>. QED
  BY <1>1, <1>2, <1>3, <1>4, <1>5, <1>6 DEF Follows, Tidy, e

(* Legs that are dropped.                                                    *)
LEMMA LegsDropped ==
  ASSUME NEW d, Tidy(d), NEW K
  PROVE  /\ Follows(d, DropLegs(d, K), {})
         /\ Booked(DropLegs(d, K)) \cap K = {} /\ DropLegs(d, K).queue = d.queue
<1>. DEFINE e == DropLegs(d, K)
            I(s) == {i \in DOMAIN d.legs[s] : d.legs[s][i].ord \notin K}
<1>1. /\ e = [d EXCEPT !.legs = [s \in Sides |-> Kept(d.legs[s], I(s))]]
      /\ d.legs \in [Sides -> Seq(LegRec)]
  BY DEF DropLegs, Tidy, DeskRec
<1>. HIDE DEF e
<1>2. \A s \in Sides : e.legs[s] = Kept(d.legs[s], I(s))
  BY <1>1 DEF Tidy, DeskRec
<1>3. ASSUME NEW s \in Sides
      PROVE  /\ e.legs[s] \in Seq(LegRec)
             /\ \E f \in [DOMAIN e.legs[s] -> I(s)] :
                  /\ \A m, n \in DOMAIN e.legs[s] : f[m] = f[n] => m = n
                  /\ \A n \in DOMAIN e.legs[s] : e.legs[s][n] = d.legs[s][f[n]]
  <2>1. d.legs[s] \in Seq(LegRec) /\ I(s) \subseteq DOMAIN d.legs[s]
    BY <1>1
  <2>. HIDE DEF I
  <2>2. e.legs[s] = Kept(d.legs[s], I(s))
    BY <1>2
  <2>3. PICK f \in Injection(DOMAIN e.legs[s], I(s)) :
               \A n \in DOMAIN e.legs[s] : e.legs[s][n] = d.legs[s][f[n]]
    BY <2>1, <2>2, KeptEntries
  <2>4. f \in [DOMAIN e.legs[s] -> I(s)] /\ \A m, n \in DOMAIN e.legs[s] : f[m] = f[n] => m = n
    BY DEF Injection, IsInjective
  <2>5. e.legs[s] \in Seq(LegRec)
    BY <2>1, <2>2, KeptEntries
  <2>. QED
    BY <2>3, <2>4, <2>5
<1>4. e \in DeskRec /\ e.pend = d.pend /\ e.queue = d.queue
  <2>1. \A s \in Sides : Kept(d.legs[s], I(s)) \in Seq(LegRec)
    BY <1>2, <1>3, ZenonT(30)
  <2>. HIDE DEF I
  <2>. QED
    BY <1>1, <2>1 DEF Tidy, DeskRec
<1>5. ASSUME NEW s \in Sides
      PROVE  LegsOK(e.legs[s], s)
  <2>1. PICK f \in [DOMAIN e.legs[s] -> I(s)] :
                  /\ \A m, n \in DOMAIN e.legs[s] : f[m] = f[n] => m = n
                  /\ \A n \in DOMAIN e.legs[s] : e.legs[s][n] = d.legs[s][f[n]]
    BY <1>3
  <2>. QED
    BY <2>1 DEF Tidy, LegsOK
<1>6. ASSUME NEW s \in Sides, NEW n \in DOMAIN e.legs[s]
      PROVE  \E i \in DOMAIN d.legs[s] : e.legs[s][n] = d.legs[s][i] /\ d.legs[s][i].ord \notin K
  BY <1>3
<1>. HIDE DEF I
<1>7. Booked(e) \subseteq Booked(d) /\ Booked(e) \cap K = {}
  BY <1>6 DEF Booked
<1>8. Awaited(e) \subseteq Awaited(d)
  BY <1>6 DEF Awaited
<1>9. Pulled(e) \subseteq Pulled(d)
  BY <1>6 DEF Pulled
<1>10. Calls(e) = Calls(d)
  BY <1>4 DEF Calls
<1>. QED
  BY <1>4, <1>5, <1>7, <1>8, <1>9, <1>10 DEF Follows, Tidy, e

(* The legs are left alone.                                                  *)
LEMMA LegsAlone ==
  ASSUME NEW d, Tidy(d), NEW e \in DeskRec, e.legs = d.legs, e.pend = d.pend,
         Calls(d) \subseteq Calls(e)
  PROVE  Follows(d, e, {})
BY DEF Follows, Tidy, Booked, Awaited, Pulled

(* The top of book is that of an order or of none.                           *)
LEMMA Refreshed ==
  ASSUME NEW d, Tidy(d)
  PROVE  Follows(d, Refresh(d), {}) /\ Calls(Refresh(d)) = Calls(d)
<1>1. ASSUME NEW q \in Seq(LegRec)
      PROVE  TopOf(q) \in Ids
  <2>. DEFINE W == {i \in DOMAIN q : q[i].ord # None /\ q[i].st \notin {"CANCELLED", "FILLED"}}
  <2>1. CASE W = {}
    BY <2>1 DEF TopOf, Ids
  <2>2. CASE W # {}
    <3>1. W \subseteq Nat
      OBVIOUS
    <3>2. \E i \in W : \A j \in W : i <= j
      BY <2>2, <3>1, LeastOne
    <3>3. (CHOOSE i \in W : \A j \in W : i <= j) \in DOMAIN q
      BY <3>2
    <3>4. TopOf(q) = q[CHOOSE i \in W : \A j \in W : i <= j].ord
      BY <2>2 DEF TopOf
    <3>5. \A l \in LegRec : l.ord \in Ids
      BY DEF LegRec
    <3>6. q[CHOOSE i \in W : \A j \in W : i <= j] \in LegRec
      BY <3>3
    <3>. QED
      BY <3>4, <3>5, <3>6
  <2>. QED
    BY <2>1, <2>2
<1>2. [s \in Sides |-> TopOf(d.legs[s])] \in [Sides -> Ids]
  BY <1>1 DEF Tidy, DeskRec
<1>3. /\ Refresh(d) \in DeskRec /\ Refresh(d).legs = d.legs /\ Refresh(d).pend = d.pend
      /\ Refresh(d).queue = d.queue
  BY <1>2 DEF Refresh, Tidy, DeskRec
<1>4. Calls(Refresh(d)) = Calls(d)
  BY <1>3 DEF Calls
<1>. QED
  BY <1>3, <1>4, LegsAlone

(* A job is queued.                                                          *)
LEMMA JobQueued ==
  ASSUME NEW d, Tidy(d), NEW job \in JobRec
  PROVE  /\ Follows(d, Enqueue(d, job), {})
         /\ job.kind = "cancel" => job.ords \subseteq Calls(Enqueue(d, job))
<1>1. d.queue \in Seq(JobRec)
  BY DEF Tidy, DeskRec
<1>2. Append(d.queue, job) \in Seq(JobRec)
  BY <1>1
<1>3. /\ Enqueue(d, job) \in DeskRec /\ Enqueue(d, job).legs = d.legs
      /\ Enqueue(d, job).pend = d.pend /\ Enqueue(d, job).queue = Append(d.queue, job)
  BY <1>2 DEF Enqueue, Tidy, DeskRec
<1>4. \A i \in DOMAIN d.queue : i \in DOMAIN Append(d.queue, job) /\ Append(d.queue, job)[i] = d.queue[i]
  BY <1>1
<1>5. Calls(d) \subseteq Calls(Enqueue(d, job))
  BY <1>3, <1>4 DEF Calls
<1>6. /\ Len(d.queue) + 1 \in DOMAIN Append(d.queue, job)
      /\ Append(d.queue, job)[Len(d.queue) + 1] = job
  BY <1>1
<1>7. job.kind = "cancel" => job.ords \subseteq Calls(Enqueue(d, job))
  BY <1>3, <1>6 DEF Calls, JobRec
<1>. QED
  BY <1>3, <1>5, <1>7, LegsAlone

(* Cancels are queued, and so is what follows a settled one.                 *)
LEMMA CancelsQueued ==
  ASSUME NEW d, Tidy(d), NEW ords \in SUBSET Orders
  PROVE  Follows(d, EnqueueCancel(d, ords), {}) /\ ords \subseteq Calls(EnqueueCancel(d, ords))
<1>1. Job("cancel", ords, "BUY") \in JobRec /\ Job("cancel", ords, "BUY").kind = "cancel"
      /\ Job("cancel", ords, "BUY").ords = ords
  BY DEF Job, JobRec, Sides
<1>2. CASE ords = {}
  BY <1>2, LegsAlone DEF EnqueueCancel, Tidy
<1>3. CASE ords # {}
  BY <1>1, <1>3, JobQueued DEF EnqueueCancel
<1>. QED
  BY <1>2, <1>3

(* A quote, a requote or a repeg is queued.                                  *)
LEMMA WorkQueued ==
  ASSUME NEW d, Tidy(d), NEW s \in Sides, NEW why
  PROVE  /\ Follows(d, EnqueueQuote(d), {}) /\ Follows(d, EnqueueRequote(d), {})
         /\ Follows(d, AfterCancel(d, why, s), {})
<1>1. \A k \in {"quote", "requote", "repeg"} : \A t \in Sides : Job(k, {}, t) \in JobRec
  BY DEF Job, JobRec
<1>2. Follows(d, d, {})
  BY LegsAlone DEF Tidy
<1>3. Follows(d, EnqueueQuote(d), {})
  BY <1>1, <1>2, JobQueued DEF EnqueueQuote, Sides
<1>4. Follows(d, EnqueueRequote(d), {})
  BY <1>1, <1>2, JobQueued DEF EnqueueRequote, Sides
<1>5. Follows(d, EnqueueRepeg(d, s), {})
  BY <1>1, JobQueued DEF EnqueueRepeg
<1>6. Follows(d, AfterCancel(d, why, s), {})
  BY <1>2, <1>3, <1>4, <1>5 DEF AfterCancel
<1>. QED
  BY <1>3, <1>4, <1>6
-----------------------------------------------------------------------------
(* The legs of the sides in S become M.                                      *)
Becomes(d, S, M, e) ==
  e = [d EXCEPT !.legs = [s \in Sides |->
         IF s \notin S THEN d.legs[s] ELSE [i \in DOMAIN d.legs[s] |-> M[s][i]]]]
Became(d, S, M, e) ==
  /\ e.queue = d.queue
  /\ \A s \in Sides : /\ DOMAIN e.legs[s] = DOMAIN d.legs[s]
                      /\ \A i \in DOMAIN d.legs[s] :
                           e.legs[s][i] = IF s \in S THEN M[s][i] ELSE d.legs[s][i]

(* They are legs still.                                                      *)
LEMMA LegsTyped ==
  ASSUME NEW d, Tidy(d), NEW S, NEW M, NEW e, Becomes(d, S, M, e),
         \A s \in Sides \cap S : \A i \in DOMAIN d.legs[s] : M[s][i] \in LegRec
  PROVE  /\ Became(d, S, M, e) /\ e \in DeskRec /\ e.pend = d.pend
         /\ e.legs \in [Sides -> Seq(LegRec)] /\ e = [d EXCEPT !.legs = e.legs]
<1>. DEFINE L == [s \in Sides |->
                    IF s \notin S THEN d.legs[s] ELSE [i \in DOMAIN d.legs[s] |-> M[s][i]]]
<1>1. \A s \in Sides : d.legs[s] \in Seq(LegRec)
  BY DEF Tidy, DeskRec
<1>2. ASSUME NEW s \in Sides
      PROVE  L[s] \in Seq(LegRec) /\ DOMAIN L[s] = DOMAIN d.legs[s]
  <2>1. CASE s \in S
    <3>1. L[s] = [i \in DOMAIN d.legs[s] |-> M[s][i]]
      BY <2>1
    <3>2. [i \in DOMAIN d.legs[s] |-> M[s][i]] \in [DOMAIN d.legs[s] -> LegRec]
      BY <2>1
    <3>3. [i \in DOMAIN d.legs[s] |-> M[s][i]] \in Seq(LegRec)
      BY <1>1, <3>2, Mapped
    <3>. HIDE DEF L
    <3>. QED
      BY <3>1, <3>3
  <2>2. CASE s \notin S
    BY <1>1, <2>2
  <2>. QED
    BY <2>1, <2>2
<1>3. L \in [Sides -> Seq(LegRec)]
  BY <1>2
<1>4. \A s \in Sides : \A i \in DOMAIN d.legs[s] : L[s][i] = IF s \in S THEN M[s][i] ELSE d.legs[s][i]
  OBVIOUS
<1>5. e = [d EXCEPT !.legs = L]
  BY DEF Becomes
<1>. HIDE DEF L
<1>6. e.legs = L /\ e.queue = d.queue /\ e.pend = d.pend /\ e \in DeskRec
  BY <1>3, <1>5 DEF Tidy, DeskRec
<1>. QED
  BY <1>2, <1>3, <1>4, <1>5, <1>6 DEF Became

(* LegsChanged, for the legs of some sides that are given one by one.         *)
LEMMA LegsMapped ==
  ASSUME NEW d, Tidy(d), NEW S, NEW X, NEW M, NEW e, Becomes(d, S, M, e),
         \A s \in Sides \cap S : \A i \in DOMAIN d.legs[s] :
            M[s][i] \in LegRec /\ SameLeg(d.legs[s][i], M[s][i], X)
  PROVE  Follows(d, e, X) /\ Became(d, S, M, e)
<1>1. Became(d, S, M, e) /\ e.legs \in [Sides -> Seq(LegRec)] /\ e = [d EXCEPT !.legs = e.legs]
  BY LegsTyped
<1>2. \A s \in Sides : /\ DOMAIN e.legs[s] = DOMAIN d.legs[s]
                       /\ \A i \in DOMAIN e.legs[s] : SameLeg(d.legs[s][i], e.legs[s][i], X)
  BY <1>1 DEF Became, SameLeg
<1>3. Follows(d, [d EXCEPT !.legs = e.legs], X)
  BY <1>1, <1>2, LegsChanged
<1>. QED
  BY <1>1, <1>3

(* The leg of an order.                                                      *)
LEMMA LegOfOrder ==
  ASSUME NEW d, Tidy(d), NEW s \in Sides, NEW i \in DOMAIN d.legs[s], d.legs[s][i].ord \in Orders
  PROVE  /\ Side(d.legs[s][i].ord) = s /\ LegOf(d, d.legs[s][i].ord) = d.legs[s][i]
         /\ d.legs[s][i].ord \in Booked(d)
<1>. DEFINE o == d.legs[s][i].ord
<1>1. o # None /\ Side(o) = s
  BY Names DEF Tidy, LegsOK
<1>2. \A j \in DOMAIN d.legs[s] : d.legs[s][j].ord = o => j = i
  BY <1>1 DEF Tidy, LegsOK
<1>3. (CHOOSE j \in DOMAIN d.legs[s] : d.legs[s][j].ord = o) = i
  BY <1>2
<1>. QED
  BY <1>1, <1>3 DEF LegOf, Booked

(* The legs that rest.                                                       *)
Resting(d, S) == {o \in Orders : \E s \in S \cap Sides : \E i \in DOMAIN d.legs[s] :
                    d.legs[s][i].ord = o /\ d.legs[s][i].st = "ADOPTED"}

(* The adopted orders are those of the adopted legs.                            *)
LEMMA RestingLegs ==
  ASSUME NEW d, Tidy(d), NEW S
  PROVE  AdoptedOn(d, S) = Resting(d, S)
<1>1. \A o \in Booked(d) : \E s \in Sides : \E i \in DOMAIN d.legs[s] :
          d.legs[s][i].ord = o /\ Side(o) = s /\ LegOf(d, o) = d.legs[s][i]
  BY LegOfOrder DEF Booked
<1>2. AdoptedOn(d, S) \subseteq Resting(d, S)
  BY <1>1 DEF AdoptedOn, Resting, Booked
<1>3. Resting(d, S) \subseteq AdoptedOn(d, S)
  BY LegOfOrder DEF AdoptedOn, Resting
<1>. QED
  BY <1>2, <1>3

(* A record of a leg.                                                        *)
LEMMA LegFacts ==
  ASSUME NEW l \in LegRec
  PROVE  /\ \A why \in {"TheoMove", "FillOpposite"} :
              /\ AskCancel(l, why) \in LegRec /\ AskCancel(l, why).ord = l.ord
              /\ AskCancel(l, why).st = "CANCEL_PENDING"
         /\ Settle(l) \in LegRec /\ Settle(l).ord = None /\ Settle(l).st = "CANCELLED"
         /\ [l EXCEPT !.st = "FILLED", !.age = 0] \in LegRec
         /\ [l EXCEPT !.due = TRUE] \in LegRec
         /\ [l EXCEPT !.retry = TRUE, !.age = 0] \in LegRec
         /\ [l EXCEPT !.st = "CANCEL_PENDING", !.retry = FALSE, !.age = 0] \in LegRec
         /\ Settled(l) \in LegRec
BY DEF LegRec, AskCancel, Settle, Settled, Ids

(* All that rests on some sides is asked to cancel.                           *)
LEMMA RestAsked ==
  ASSUME NEW d, Tidy(d), NEW S, NEW why \in {"TheoMove", "FillOpposite"}
  PROVE  Follows(d, EachLeg(d, S, Adopted, LAMBDA l : AskCancel(l, why)), Resting(d, S))
<1>. DEFINE M == [s \in Sides |-> [i \in DOMAIN d.legs[s] |->
                    IF Adopted(d.legs[s][i]) THEN AskCancel(d.legs[s][i], why) ELSE d.legs[s][i]]]
            e == EachLeg(d, S, Adopted, LAMBDA l : AskCancel(l, why))
<1>1. Becomes(d, S, M, e)
  BY DEF EachLeg, Tidy, DeskRec, Becomes
<1>2. ASSUME NEW s \in Sides \cap S, NEW i \in DOMAIN d.legs[s]
      PROVE  M[s][i] \in LegRec /\ SameLeg(d.legs[s][i], M[s][i], Resting(d, S))
  <2>1. d.legs[s][i] \in LegRec
    BY DEF Tidy, DeskRec
  <2>2. CASE Adopted(d.legs[s][i])
    <3>1. M[s][i] = AskCancel(d.legs[s][i], why)
      BY <2>2
    <3>2. d.legs[s][i].ord \in Orders => d.legs[s][i].ord \in Resting(d, S)
      BY <2>2 DEF Resting, Adopted
    <3>3. d.legs[s][i].ord \in Orders \/ d.legs[s][i].ord = None
      BY <2>1 DEF LegRec, Ids
    <3>. QED
      BY <2>1, <3>1, <3>2, <3>3, LegFacts DEF SameLeg
  <2>3. CASE ~ Adopted(d.legs[s][i])
    BY <2>1, <2>3 DEF SameLeg
  <2>. QED
    BY <2>2, <2>3
<1>. HIDE DEF M, e
<1>3. Follows(d, e, Resting(d, S))
  BY <1>1, <1>2, LegsMapped
<1>. QED
  BY <1>3 DEF e
-----------------------------------------------------------------------------
(* The leg of an order is settled.                                           *)
LEMMA LegSettled ==
  ASSUME NEW d, Tidy(d), NEW o \in Orders
  PROVE  LET e == EachLeg(d, {Side(o)}, LAMBDA k : k.ord = o, Settle)
         IN  Follows(d, e, {})
<1>. DEFINE M == [s \in Sides |-> [i \in DOMAIN d.legs[s] |->
                    IF d.legs[s][i].ord = o THEN Settle(d.legs[s][i]) ELSE d.legs[s][i]]]
            e == EachLeg(d, {Side(o)}, LAMBDA k : k.ord = o, Settle)
<1>1. Becomes(d, {Side(o)}, M, e)
  BY DEF EachLeg, Tidy, DeskRec, Becomes
<1>2. ASSUME NEW s \in Sides \cap {Side(o)}, NEW i \in DOMAIN d.legs[s]
      PROVE  M[s][i] \in LegRec /\ SameLeg(d.legs[s][i], M[s][i], {})
  <2>1. d.legs[s][i] \in LegRec
    BY DEF Tidy, DeskRec
  <2>2. CASE d.legs[s][i].ord = o
    <3>1. M[s][i] = Settle(d.legs[s][i])
      BY <2>2
    <3>. QED
      BY <2>1, <2>2, <3>1, LegFacts, ZenonT(30) DEF SameLeg
  <2>3. CASE ~ (d.legs[s][i].ord = o)
    BY <2>1, <2>3 DEF SameLeg
  <2>. QED
    BY <2>2, <2>3
<1>. HIDE DEF M, e
<1>3. Follows(d, e, {}) /\ Became(d, {Side(o)}, M, e)
  BY <1>1, <1>2, LegsMapped
<1>. QED
  BY <1>3 DEF e

(* The leg of an order is booked as filled; it neither rests nor is cancelled.*)
LEMMA LegFilled ==
  ASSUME NEW d, Tidy(d), NEW o \in Orders
  PROVE  LET e == EachLeg(d, {Side(o)}, LAMBDA l : l.ord = o, LAMBDA l : [l EXCEPT !.st = "FILLED", !.age = 0])
         IN  Follows(d, e, {}) /\ \A T : Resting(e, T) \subseteq Resting(d, T)
<1>. DEFINE M == [s \in Sides |-> [i \in DOMAIN d.legs[s] |->
                    IF d.legs[s][i].ord = o THEN [d.legs[s][i] EXCEPT !.st = "FILLED", !.age = 0] ELSE d.legs[s][i]]]
            e == EachLeg(d, {Side(o)}, LAMBDA l : l.ord = o, LAMBDA l : [l EXCEPT !.st = "FILLED", !.age = 0])
<1>1. Becomes(d, {Side(o)}, M, e)
  BY DEF EachLeg, Tidy, DeskRec, Becomes
<1>2. ASSUME NEW s \in Sides \cap {Side(o)}, NEW i \in DOMAIN d.legs[s]
      PROVE  M[s][i] \in LegRec /\ SameLeg(d.legs[s][i], M[s][i], {})
  <2>1. d.legs[s][i] \in LegRec
    BY DEF Tidy, DeskRec
  <2>2. CASE d.legs[s][i].ord = o
    <3>1. M[s][i] = [d.legs[s][i] EXCEPT !.st = "FILLED", !.age = 0]
      BY <2>2
    <3>. QED
      BY <2>1, <2>2, <3>1, LegFacts, ZenonT(30) DEF SameLeg, LegRec
  <2>3. CASE ~ (d.legs[s][i].ord = o)
    BY <2>1, <2>3 DEF SameLeg
  <2>. QED
    BY <2>2, <2>3
<1>. HIDE DEF M, e
<1>3. Follows(d, e, {}) /\ Became(d, {Side(o)}, M, e)
  BY <1>1, <1>2, LegsMapped
<1>4. ASSUME NEW s \in Sides, NEW i \in DOMAIN d.legs[s], e.legs[s][i].st = "ADOPTED"
      PROVE  e.legs[s][i] = d.legs[s][i]
  <2>1. d.legs[s][i] \in LegRec
    BY DEF Tidy, DeskRec
  <2>2. [d.legs[s][i] EXCEPT !.st = "FILLED", !.age = 0].st = "FILLED"
    BY <2>1 DEF LegRec
  <2>3. M[s][i] \in {d.legs[s][i], [d.legs[s][i] EXCEPT !.st = "FILLED", !.age = 0]}
    BY <1>3 DEF M, Became
  <2>. QED
    BY <1>3, <1>4, <2>2, <2>3 DEF Became
<1>5. \A T : Resting(e, T) \subseteq Resting(d, T)
  BY <1>3, <1>4 DEF Resting, Became
<1>. QED
  BY <1>3, <1>5 DEF e

(* The legs of a side that are under way are to be cancelled when they settle.*)
LEMMA LegsDue ==
  ASSUME NEW d, Tidy(d), NEW q \in Sides
  PROVE  LET e == EachLeg(d, {q}, InFlight, LAMBDA l : [l EXCEPT !.due = TRUE])
         IN  Follows(d, e, {}) /\ \A T : Resting(e, T) \subseteq Resting(d, T)
<1>. DEFINE M == [s \in Sides |-> [i \in DOMAIN d.legs[s] |->
                    IF InFlight(d.legs[s][i]) THEN [d.legs[s][i] EXCEPT !.due = TRUE] ELSE d.legs[s][i]]]
            e == EachLeg(d, {q}, InFlight, LAMBDA l : [l EXCEPT !.due = TRUE])
<1>1. Becomes(d, {q}, M, e)
  BY DEF EachLeg, Tidy, DeskRec, Becomes
<1>2. ASSUME NEW s \in Sides \cap {q}, NEW i \in DOMAIN d.legs[s]
      PROVE  M[s][i] \in LegRec /\ SameLeg(d.legs[s][i], M[s][i], {})
  <2>1. d.legs[s][i] \in LegRec
    BY DEF Tidy, DeskRec
  <2>2. CASE InFlight(d.legs[s][i])
    <3>1. M[s][i] = [d.legs[s][i] EXCEPT !.due = TRUE]
      BY <2>2
    <3>. QED
      BY <2>1, <2>2, <3>1, LegFacts DEF SameLeg, LegRec
  <2>3. CASE ~ (InFlight(d.legs[s][i]))
    BY <2>1, <2>3 DEF SameLeg
  <2>. QED
    BY <2>2, <2>3
<1>. HIDE DEF M, e
<1>3. Follows(d, e, {}) /\ Became(d, {q}, M, e)
  BY <1>1, <1>2, LegsMapped
<1>4. ASSUME NEW s \in Sides, NEW i \in DOMAIN d.legs[s]
      PROVE  e.legs[s][i].st = d.legs[s][i].st /\ e.legs[s][i].ord = d.legs[s][i].ord
  <2>1. d.legs[s][i] \in LegRec
    BY DEF Tidy, DeskRec
  <2>. QED
    BY <1>3, <2>1, ZenonT(30) DEF M, LegRec, Became
<1>5. \A T : Resting(e, T) \subseteq Resting(d, T)
  BY <1>3, <1>4 DEF Resting, Became
<1>. QED
  BY <1>3, <1>5 DEF e

(* The gateway is taken to be working on the cancel still.                   *)
LEMMA LegRefused ==
  ASSUME NEW d, Tidy(d), NEW o \in Orders
  PROVE  LET e == EachLeg(d, {Side(o)}, LAMBDA l : l.ord = o /\ l.st # "FILLED", 
                   LAMBDA l : [l EXCEPT !.st = "CANCEL_PENDING", !.retry = FALSE, !.age = 0])
         IN  Follows(d, e, {o})
<1>. DEFINE M == [s \in Sides |-> [i \in DOMAIN d.legs[s] |->
                    IF d.legs[s][i].ord = o /\ d.legs[s][i].st # "FILLED" THEN [d.legs[s][i] EXCEPT !.st = "CANCEL_PENDING", !.retry = FALSE, !.age = 0] ELSE d.legs[s][i]]]
            e == EachLeg(d, {Side(o)}, LAMBDA l : l.ord = o /\ l.st # "FILLED", 
                   LAMBDA l : [l EXCEPT !.st = "CANCEL_PENDING", !.retry = FALSE, !.age = 0])
<1>1. Becomes(d, {Side(o)}, M, e)
  BY DEF EachLeg, Tidy, DeskRec, Becomes
<1>2. ASSUME NEW s \in Sides \cap {Side(o)}, NEW i \in DOMAIN d.legs[s]
      PROVE  M[s][i] \in LegRec /\ SameLeg(d.legs[s][i], M[s][i], {o})
  <2>1. d.legs[s][i] \in LegRec
    BY DEF Tidy, DeskRec
  <2>2. CASE d.legs[s][i].ord = o /\ d.legs[s][i].st # "FILLED"
    <3>1. M[s][i] = [d.legs[s][i] EXCEPT !.st = "CANCEL_PENDING", !.retry = FALSE, !.age = 0]
      BY <2>2
    <3>. QED
      BY <2>1, <2>2, <3>1, LegFacts, ZenonT(30) DEF SameLeg, LegRec
  <2>3. CASE ~ (d.legs[s][i].ord = o /\ d.legs[s][i].st # "FILLED")
    BY <2>1, <2>3 DEF SameLeg
  <2>. QED
    BY <2>2, <2>3
<1>. HIDE DEF M, e
<1>3. Follows(d, e, {o}) /\ Became(d, {Side(o)}, M, e)
  BY <1>1, <1>2, LegsMapped
<1>. QED
  BY <1>3 DEF e

(* Time passes.                                                              *)
LEMMA LegsOlder ==
  ASSUME NEW d, Tidy(d)
  PROVE  LET e == EachLeg(d, Sides, Older, 
                   LAMBDA l : [l EXCEPT !.age = IF l.st = "CANCEL_PENDING" THEN @ + 1 ELSE 2])
         IN  Follows(d, e, {})
<1>. DEFINE M == [s \in Sides |-> [i \in DOMAIN d.legs[s] |->
                    IF Older(d.legs[s][i]) THEN [d.legs[s][i] EXCEPT !.age = IF d.legs[s][i].st = "CANCEL_PENDING" THEN @ + 1 ELSE 2] ELSE d.legs[s][i]]]
            e == EachLeg(d, Sides, Older, 
                   LAMBDA l : [l EXCEPT !.age = IF l.st = "CANCEL_PENDING" THEN @ + 1 ELSE 2])
<1>1. Becomes(d, Sides, M, e)
  BY DEF EachLeg, Tidy, DeskRec, Becomes
<1>2. ASSUME NEW s \in Sides \cap Sides, NEW i \in DOMAIN d.legs[s]
      PROVE  M[s][i] \in LegRec /\ SameLeg(d.legs[s][i], M[s][i], {})
  <2>1. d.legs[s][i] \in LegRec
    BY DEF Tidy, DeskRec
  <2>2. CASE Older(d.legs[s][i])
    <3>1. M[s][i] = [d.legs[s][i] EXCEPT !.age = IF d.legs[s][i].st = "CANCEL_PENDING" THEN @ + 1 ELSE 2]
      BY <2>2
    <3>2. (IF d.legs[s][i].st = "CANCEL_PENDING" THEN d.legs[s][i].age + 1 ELSE 2) \in Nat
      BY <2>1 DEF LegRec
    <3>. QED
      BY <2>1, <2>2, <3>1, <3>2, LegFacts, ZenonT(30) DEF SameLeg, LegRec
  <2>3. CASE ~ (Older(d.legs[s][i]))
    BY <2>1, <2>3 DEF SameLeg
  <2>. QED
    BY <2>2, <2>3
<1>. HIDE DEF M, e
<1>3. Follows(d, e, {}) /\ Became(d, Sides, M, e)
  BY <1>1, <1>2, LegsMapped
<1>. QED
  BY <1>3 DEF e

(* A cancel is sent once more.                                               *)
LEMMA LegRetried ==
  ASSUME NEW d, Tidy(d), NEW o \in Orders
  PROVE  LET e == EachLeg(d, {Side(o)}, LAMBDA l : l.ord = o, LAMBDA k : [k EXCEPT !.retry = TRUE, !.age = 0])
         IN  Follows(d, e, {})
<1>. DEFINE M == [s \in Sides |-> [i \in DOMAIN d.legs[s] |->
                    IF d.legs[s][i].ord = o THEN [d.legs[s][i] EXCEPT !.retry = TRUE, !.age = 0] ELSE d.legs[s][i]]]
            e == EachLeg(d, {Side(o)}, LAMBDA l : l.ord = o, LAMBDA k : [k EXCEPT !.retry = TRUE, !.age = 0])
<1>1. Becomes(d, {Side(o)}, M, e)
  BY DEF EachLeg, Tidy, DeskRec, Becomes
<1>2. ASSUME NEW s \in Sides \cap {Side(o)}, NEW i \in DOMAIN d.legs[s]
      PROVE  M[s][i] \in LegRec /\ SameLeg(d.legs[s][i], M[s][i], {})
  <2>1. d.legs[s][i] \in LegRec
    BY DEF Tidy, DeskRec
  <2>2. CASE d.legs[s][i].ord = o
    <3>1. M[s][i] = [d.legs[s][i] EXCEPT !.retry = TRUE, !.age = 0]
      BY <2>2
    <3>. QED
      BY <2>1, <2>2, <3>1, LegFacts, ZenonT(30) DEF SameLeg, LegRec
  <2>3. CASE ~ (d.legs[s][i].ord = o)
    BY <2>1, <2>3 DEF SameLeg
  <2>. QED
    BY <2>2, <2>3
<1>. HIDE DEF M, e
<1>3. Follows(d, e, {}) /\ Became(d, {Side(o)}, M, e)
  BY <1>1, <1>2, LegsMapped
<1>. QED
  BY <1>3 DEF e

(* The leg that awaited an answer is free again.                             *)
LEMMA LegFreed ==
  ASSUME NEW d, Tidy(d), NEW o \in Ids, NEW t \in Sides
  PROVE  LET e == EachLeg(d, {t}, LAMBDA l : Awaits(l, o), Settled)
         IN  Follows(d, e, {})
<1>. DEFINE M == [s \in Sides |-> [i \in DOMAIN d.legs[s] |->
                    IF Awaits(d.legs[s][i], o) THEN Settled(d.legs[s][i]) ELSE d.legs[s][i]]]
            e == EachLeg(d, {t}, LAMBDA l : Awaits(l, o), Settled)
<1>1. Becomes(d, {t}, M, e)
  BY DEF EachLeg, Tidy, DeskRec, Becomes, Awaits, Settled
<1>2. ASSUME NEW s \in Sides \cap {t}, NEW i \in DOMAIN d.legs[s]
      PROVE  M[s][i] \in LegRec /\ SameLeg(d.legs[s][i], M[s][i], {})
  <2>1. d.legs[s][i] \in LegRec
    BY DEF Tidy, DeskRec
  <2>2. CASE Awaits(d.legs[s][i], o)
    <3>1. M[s][i] = Settled(d.legs[s][i])
      BY <2>2
    <3>. QED
      BY <2>1, <2>2, <3>1, LegFacts, ZenonT(30) DEF SameLeg, LegRec, Awaits, Settled
  <2>3. CASE ~ (Awaits(d.legs[s][i], o))
    BY <2>1, <2>3 DEF SameLeg
  <2>. QED
    BY <2>2, <2>3
<1>. HIDE DEF M, e
<1>3. Follows(d, e, {}) /\ Became(d, {t}, M, e)
  BY <1>1, <1>2, LegsMapped
<1>. QED
  BY <1>3 DEF e
-----------------------------------------------------------------------------
(* One leg that rests is asked to cancel.                                    *)
LEMMA LegAsked ==
  ASSUME NEW d, Tidy(d), NEW t \in Sides, NEW k \in DOMAIN d.legs[t], d.legs[t][k].st = "ADOPTED"
  PROVE  /\ d.legs[t][k].ord \in Orders
         /\ Follows(d, [d EXCEPT !.legs[t][k] = AskCancel(@, "FillOpposite")], {d.legs[t][k].ord})
<1>. DEFINE M == [s \in Sides |-> [i \in DOMAIN d.legs[s] |->
                    IF i = k THEN AskCancel(d.legs[s][i], "FillOpposite") ELSE d.legs[s][i]]]
            e == [d EXCEPT !.legs[t][k] = AskCancel(@, "FillOpposite")]
<1>0. /\ d.legs \in [Sides -> Seq(LegRec)]
      /\ \A s \in Sides : d.legs[s] \in Seq(LegRec) /\ \A i \in DOMAIN d.legs[s] : d.legs[s][i] \in LegRec
  BY DEF Tidy, DeskRec
<1>1. Becomes(d, {t}, M, e)
  <2>1. d.legs[t] = [i \in DOMAIN d.legs[t] |-> d.legs[t][i]]
    BY <1>0
  <2>2. [d.legs[t] EXCEPT ![k] = AskCancel(@, "FillOpposite")] = [i \in DOMAIN d.legs[t] |-> M[t][i]]
    BY <2>1
  <2>3. [d.legs EXCEPT ![t] = [d.legs[t] EXCEPT ![k] = AskCancel(@, "FillOpposite")]]
          = [s \in Sides |-> IF s \notin {t} THEN d.legs[s] ELSE [i \in DOMAIN d.legs[s] |-> M[s][i]]]
    BY <1>0, <2>2
  <2>. QED
    BY <2>3 DEF Becomes
<1>2. d.legs[t][k] \in LegRec /\ d.legs[t][k].ord \in Orders
  BY <1>0, Names DEF Tidy, LegsOK, LegRec, Ids
<1>. DEFINE m == AskCancel(d.legs[t][k], "FillOpposite")
<1>9. m \in LegRec /\ m.ord = d.legs[t][k].ord /\ m.st = "CANCEL_PENDING"
  BY <1>2 DEF AskCancel, LegRec
<1>3. ASSUME NEW s \in Sides \cap {t}, NEW i \in DOMAIN d.legs[s]
      PROVE  M[s][i] \in LegRec /\ SameLeg(d.legs[s][i], M[s][i], {d.legs[t][k].ord})
  <2>1. CASE i = k
    <3>1. M[s][i] = m /\ d.legs[s][i] = d.legs[t][k]
      BY <2>1
    <3>. HIDE DEF M, m
    <3>. QED
      BY <1>9, <3>1 DEF SameLeg
  <2>2. CASE i # k
    BY <1>0, <2>2 DEF SameLeg
  <2>. QED
    BY <2>1, <2>2
<1>. HIDE DEF M, e
<1>4. Follows(d, e, {d.legs[t][k].ord})
  BY <1>1, <1>3, LegsMapped
<1>. QED
  BY <1>2, <1>4 DEF e

(* A leg without an order is added, or takes the place of another one.        *)
LEMMA LegPut ==
  ASSUME NEW d, Tidy(d), NEW t \in Sides, NEW L \in Seq(LegRec), NEW at \in DOMAIN L,
         \A i \in DOMAIN L \ {at} : i \in DOMAIN d.legs[t] /\ L[i] = d.legs[t][i],
         L[at].ord = None, L[at].st \in {"CANCELLED", "PLACE_PENDING"},
         L[at].st = "PLACE_PENDING" =>
           L[at].cid = None \/ (Side(L[at].cid) = t /\ L[at].cid \notin Awaited(d)),
         NEW e \in DeskRec, e.legs = [d.legs EXCEPT ![t] = L], e.queue = d.queue
  PROVE  /\ Tidy(e) /\ Calls(e) = Calls(d) /\ Booked(e) \subseteq Booked(d) /\ Pulled(e) \subseteq Pulled(d)
         /\ Awaited(e) \subseteq Awaited(d) \cup {o \in Orders : Awaits(L[at], o)}
<1>1. /\ d.legs \in [Sides -> Seq(LegRec)] /\ e.legs[t] = L
      /\ \A s \in Sides : s # t => e.legs[s] = d.legs[s]
  BY DEF Tidy, DeskRec
<1>2. LegsOK(L, t)
  <2>1. \A i \in DOMAIN d.legs[t] : d.legs[t][i] \in LegRec
    BY <1>1
  <2>2. \A i \in DOMAIN L \ {at} : L[i].st = "PLACE_PENDING" /\ L[i].cid # None =>
          L[i].cid \in Awaited(d)
    BY <2>1 DEF Awaited, Awaits, LegRec, Ids
  <2>3. \A i \in DOMAIN L \ {at} : /\ L[i].ord # None => Side(L[i].ord) = t
                                   /\ L[i].st = "ADOPTED" => L[i].ord # None
                                   /\ L[i].st = "PLACE_PENDING" => L[i].ord = None /\ (L[i].cid # None => Side(L[i].cid) = t)
    BY DEF Tidy, LegsOK
  <2>4. \A i, j \in DOMAIN L \ {at} : i # j =>
         /\ L[i].ord # None => L[i].ord # L[j].ord
         /\ L[i].st = "PLACE_PENDING" /\ L[j].st = "PLACE_PENDING" /\ L[i].cid # None =>
              L[i].cid # L[j].cid
    BY DEF Tidy, LegsOK
  <2>5. \A i \in DOMAIN L \ {at} : 
         /\ L[i].ord # None => L[i].ord # L[at].ord
         /\ L[i].st = "PLACE_PENDING" /\ L[at].st = "PLACE_PENDING" /\ L[i].cid # None =>
              L[i].cid # L[at].cid
    BY <2>2
  <2>. QED
    BY <2>2, <2>3, <2>4, <2>5 DEF LegsOK
<1>3. Tidy(e)
  BY <1>1, <1>2 DEF Tidy
<1>4. Calls(e) = Calls(d)
  BY DEF Calls
<1>5. \A s \in Sides : \A i \in DOMAIN e.legs[s] :
        (s = t /\ e.legs[s][i] = L[at]) \/ (i \in DOMAIN d.legs[s] /\ e.legs[s][i] = d.legs[s][i])
  BY <1>1
<1>6. Booked(e) \subseteq Booked(d) /\ Pulled(e) \subseteq Pulled(d)
  BY <1>5, Names DEF Booked, Pulled
<1>7. Awaited(e) \subseteq Awaited(d) \cup {o \in Orders : Awaits(L[at], o)}
  BY <1>5 DEF Awaited
<1>. QED
  BY <1>3, <1>4, <1>6, <1>7

(* A leg that was never sent is added.                                       *)
LEMMA LegAdded ==
  ASSUME NEW d, Tidy(d), NEW t \in Sides, NEW l \in LegRec, l.ord = None,
         l.st \in {"CANCELLED", "PLACE_PENDING"},
         l.st = "PLACE_PENDING" => l.cid = None \/ (Side(l.cid) = t /\ l.cid \notin Awaited(d))
  PROVE  LET e == [d EXCEPT !.legs[t] = Append(@, l)]
         IN  /\ Tidy(e) /\ Calls(e) = Calls(d) /\ Booked(e) \subseteq Booked(d)
             /\ Pulled(e) \subseteq Pulled(d) /\ e.pend = d.pend /\ e.queue = d.queue
             /\ Awaited(e) \subseteq Awaited(d) \cup {o \in Orders : Awaits(l, o)}
<1>. DEFINE e == [d EXCEPT !.legs[t] = Append(@, l)]
            L == Append(d.legs[t], l)
            at == Len(d.legs[t]) + 1
<1>1. d.legs \in [Sides -> Seq(LegRec)]
  BY DEF Tidy, DeskRec
<1>2. L \in Seq(LegRec) /\ at \in DOMAIN L /\ L[at] = l
      /\ \A i \in DOMAIN L \ {at} : i \in DOMAIN d.legs[t] /\ L[i] = d.legs[t][i]
  BY <1>1
<1>3. e \in DeskRec /\ e.legs = [d.legs EXCEPT ![t] = L] /\ e.queue = d.queue /\ e.pend = d.pend
  BY <1>1, <1>2 DEF Tidy, DeskRec
<1>. HIDE DEF e, L, at
<1>4. /\ Tidy(e) /\ Calls(e) = Calls(d) /\ Booked(e) \subseteq Booked(d) /\ Pulled(e) \subseteq Pulled(d)
      /\ Awaited(e) \subseteq Awaited(d) \cup {o \in Orders : Awaits(L[at], o)}
  BY <1>2, <1>3, LegPut
<1>. QED
  BY <1>2, <1>3, <1>4 DEF e

(* The handler of a cancelled order.                                         *)
LEMMA CancelHandled ==
  ASSUME NEW d, Tidy(d), NEW o \in Orders
  PROVE  Follows(d, OnCancel(d, o), {})
<1>. DEFINE s == Side(o)
            l == LegOf(d, o)
            other == {i \in DOMAIN d.legs[Opp(s)] : d.legs[Opp(s)][i].st = "ADOPTED"}
            first == CHOOSE i \in other : \A j \in other : i <= j
            booked == [d EXCEPT !.legs[s] =
                   [i \in DOMAIN @ |-> IF @[i].ord = o THEN [@[i] EXCEPT !.st = "FILLED", !.age = 0] ELSE @[i]]]
            asking == [booked EXCEPT !.legs[Opp(s)][first] = AskCancel(@, "FillOpposite")]
            settled == EachLeg(d, {s}, LAMBDA k : k.ord = o, Settle)
            freed == [booked EXCEPT !.legs[Opp(s)] = Append(@, Leg(None, "CANCELLED"))]
<1>1. s \in Sides /\ Opp(s) \in Sides /\ Opp(s) # s
  BY Names
<1>2. d.legs \in [Sides -> Seq(LegRec)] /\ \A i \in DOMAIN d.legs[s] : d.legs[s][i] \in LegRec
  BY <1>1 DEF Tidy, DeskRec
<1>3. Follows(d, Refresh(d), {})
  BY Refreshed
<1>4. Follows(d, Refresh(AfterCancel(settled, l.intent, s)), {})
  <2>1. Follows(d, settled, {})
    BY LegSettled
  <2>. HIDE DEF settled, l
  <2>2. Follows(settled, AfterCancel(settled, l.intent, s), {})
    BY <1>1, <2>1, WorkQueued DEF Follows
  <2>3. Tidy(AfterCancel(settled, l.intent, s))
    BY <2>2 DEF Follows
  <2>4. Follows(AfterCancel(settled, l.intent, s), Refresh(AfterCancel(settled, l.intent, s)), {})
    BY <2>3, Refreshed
  <2>. HIDE DEF s
  <2>. QED
    BY <2>1, <2>2, <2>4 DEF Follows
<1>5. Follows(d, Refresh(EraseTracked(d, o)), {})
  <2>1. Follows(d, EraseTracked(d, o), {})
    BY LegsDropped DEF EraseTracked
  <2>2. Follows(EraseTracked(d, o), Refresh(EraseTracked(d, o)), {})
    BY <2>1, Refreshed DEF Follows
  <2>. QED
    BY <2>1, <2>2 DEF Follows
<1>6. Follows(d, booked, {}) /\ booked.legs[Opp(s)] = d.legs[Opp(s)]
  <2>1. booked = EachLeg(d, {Side(o)}, LAMBDA k : k.ord = o, LAMBDA k : [k EXCEPT !.st = "FILLED", !.age = 0])
    BY <1>1, <1>2 DEF EachLeg, Tidy, DeskRec
  <2>2. booked.legs[Opp(s)] = d.legs[Opp(s)]
    BY <1>1, <1>2 DEF Tidy, DeskRec
  <2>. HIDE DEF booked
  <2>. QED
    BY <2>1, <2>2, LegFilled
<1>. HIDE DEF booked
<1>7. ASSUME other # {}
      PROVE  Follows(d, Refresh(EnqueueCancel(asking, {d.legs[Opp(s)][first].ord})), {})
  <2>1. other \subseteq Nat
    BY <1>1, <1>2
  <2>2. first \in other
    <3>. HIDE DEF other
    <3>1. \E i \in other : \A j \in other : i <= j
      BY <1>7, <2>1, LeastOne
    <3>. QED
      BY <3>1
  <2>. HIDE DEF first
  <2>3. first \in DOMAIN booked.legs[Opp(s)] /\ booked.legs[Opp(s)][first].st = "ADOPTED"
    BY <1>6, <2>2
  <2>4. Follows(booked, asking, {d.legs[Opp(s)][first].ord}) /\ d.legs[Opp(s)][first].ord \in Orders
    <3>1. Tidy(booked) /\ booked.legs[Opp(s)][first].ord = d.legs[Opp(s)][first].ord
      BY <1>6 DEF Follows
    <3>. HIDE DEF s
    <3>. QED
      BY <1>1, <2>3, <3>1, LegAsked
  <2>. DEFINE p == d.legs[Opp(s)][first].ord
              f == EnqueueCancel(asking, {p})
  <2>. HIDE DEF asking, p
  <2>5. Follows(asking, f, {}) /\ p \in Calls(f)
    BY <2>4, CancelsQueued DEF p, Follows
  <2>. HIDE DEF f
  <2>6. Follows(f, Refresh(f), {}) /\ Calls(Refresh(f)) = Calls(f)
    BY <2>5, Refreshed DEF Follows
  <2>7. Follows(booked, asking, {p})
    BY <2>4 DEF p
  <2>8. Follows(d, Refresh(f), {})
    BY <1>6, <2>7, <2>5, <2>6 DEF Follows
  <2>. QED
    BY <2>8 DEF f, p
<1>8. Follows(d, Refresh(EnqueueRequote(freed)), {})
  <2>1. Follows(booked, freed, {})
    <3>. DEFINE n == Leg(None, "CANCELLED")
    <3>1. n \in LegRec /\ n.ord = None /\ n.st = "CANCELLED"
      BY DEF Leg, LegRec, Ids
    <3>2. \A p \in Orders : ~ Awaits(n, p)
      BY <3>1 DEF Awaits
    <3>3. freed = [booked EXCEPT !.legs[Opp(s)] = Append(@, n)] /\ Tidy(booked)
      BY <1>6 DEF Follows
    <3>. HIDE DEF n, freed
    <3>. QED
      BY <1>1, <3>1, <3>2, <3>3, LegAdded DEF Follows
  <2>. HIDE DEF freed
  <2>2. Follows(freed, EnqueueRequote(freed), {})
    BY <1>1, <2>1, WorkQueued DEF Follows
  <2>3. Follows(EnqueueRequote(freed), Refresh(EnqueueRequote(freed)), {})
    BY <2>2, Refreshed DEF Follows
  <2>. QED
    BY <1>6, <2>1, <2>2, <2>3 DEF Follows
<1>. QED
  BY <1>3, <1>4, <1>5, <1>7, <1>8 DEF OnCancel, booked

-----------------------------------------------------------------------------
(* The net position and the count of pending accepts are all that changes.    *)
LEMMA NetSet ==
  ASSUME NEW d, Tidy(d), NEW n \in Int
  PROVE  LET e == [d EXCEPT !.net = n]
         IN  Follows(d, e, {}) /\ Calls(e) = Calls(d) /\ \A T : Resting(e, T) = Resting(d, T)
<1>. DEFINE e == [d EXCEPT !.net = n]
<1>1. e \in DeskRec /\ e.legs = d.legs /\ e.pend = d.pend /\ e.queue = d.queue
  BY DEF Tidy, DeskRec
<1>. HIDE DEF e
<1>2. Calls(e) = Calls(d) /\ \A T : Resting(e, T) = Resting(d, T)
  BY <1>1 DEF Calls, Resting
<1>. QED
  BY <1>1, <1>2, LegsAlone DEF e

(* Setting the count of pending accepts changes nothing else.                   *)
LEMMA PendSet ==
  ASSUME NEW d, Tidy(d), NEW k \in Nat
  PROVE  LET e == [d EXCEPT !.pend = k]
         IN  /\ Tidy(e) /\ e.pend = k /\ Booked(e) = Booked(d) /\ Awaited(e) = Awaited(d)
             /\ Calls(e) = Calls(d) /\ Pulled(e) = Pulled(d)
<1>. DEFINE e == [d EXCEPT !.pend = k]
<1>1. e \in DeskRec /\ e.legs = d.legs /\ e.pend = k /\ e.queue = d.queue
  BY DEF Tidy, DeskRec
<1>. HIDE DEF e
<1>2. Calls(e) = Calls(d) /\ Booked(e) = Booked(d) /\ Awaited(e) = Awaited(d) /\ Pulled(e) = Pulled(d) /\ Tidy(e)
  BY <1>1 DEF Calls, Booked, Awaited, Pulled, Tidy
<1>. QED
  BY <1>1, <1>2 DEF e

(* The handler of a fill.                                                    *)
LEMMA FillProcessed ==
  ASSUME NEW d, Tidy(d), NEW o \in Orders, NEW n \in Int, NEW swept
  PROVE  Follows(d, ProcessFill(d, o, n, swept), {})
<1>. DEFINE d0 == DropLegs(d, swept)
            d1 == [d0 EXCEPT !.net = n]
            S == {Opp(Side(o))}
            other == AdoptedOn(d1, S)
            d2 == EachLeg(d1, S, Adopted, LAMBDA l : AskCancel(l, "FillOpposite"))
            d3 == EraseTracked(d2, o)
            d4 == EnqueueCancel(d3, other)
            d5 == IF other = {} THEN EnqueueRequote(d4) ELSE d4
<1>1. ProcessFill(d, o, n, swept) = Refresh(d5)
  BY DEF ProcessFill
<1>2. Follows(d, d0, {})
  BY LegsDropped
<1>3. Follows(d0, d1, {}) /\ Tidy(d1)
  <2>. HIDE DEF d0
  <2>1. Follows(d0, d1, {})
    BY <1>2, NetSet DEF Follows
  <2>. QED
    BY <2>1 DEF Follows
<1>. HIDE DEF d0, d1, S
<1>4. other = Resting(d1, S) /\ other \in SUBSET Orders
  BY <1>3, RestingLegs DEF Resting
<1>5. Follows(d1, d2, other) /\ Tidy(d2)
  BY <1>3, <1>4, RestAsked DEF Follows
<1>. HIDE DEF d2, other
<1>6. Follows(d2, d3, {}) /\ Tidy(d3)
  BY <1>5, LegsDropped DEF EraseTracked, Follows
<1>. HIDE DEF d3
<1>7. Follows(d3, d4, {}) /\ other \subseteq Calls(d4) /\ Tidy(d4)
  BY <1>4, <1>6, CancelsQueued DEF Follows
<1>. HIDE DEF d4
<1>8. Follows(d4, d5, {}) /\ Tidy(d5)
  <2>1. Follows(d4, EnqueueRequote(d4), {}) /\ Follows(d4, d4, {})
    BY <1>7, WorkQueued, Names, LegsAlone DEF Tidy
  <2>. QED
    BY <2>1 DEF Follows
<1>. HIDE DEF d5
<1>9. Follows(d5, Refresh(d5), {})
  BY <1>8, Refreshed
<1>. QED
  BY <1>1, <1>2, <1>3, <1>5, <1>6, <1>7, <1>8, <1>9 DEF Follows

(* The handler of a fill that the listing shows.                              *)
LEMMA FillFound ==
  ASSUME NEW d, Tidy(d), NEW o \in Orders, NEW n \in Int, NEW swept
  PROVE  Follows(d, FillDeskStack(d, o, n, swept), {})
<1>. DEFINE q == Opp(Side(o))
            d1 == EachLeg(d, {Side(o)}, LAMBDA l : l.ord = o, LAMBDA l : [l EXCEPT !.st = "FILLED", !.age = 0])
            d2 == EachLeg(d1, {q}, InFlight, LAMBDA l : [l EXCEPT !.due = TRUE])
            d3 == EachLeg(d2, {q}, Adopted, LAMBDA l : AskCancel(l, "FillOpposite"))
            d0 == DropLegs(d3, swept)
            d4 == [d0 EXCEPT !.net = n]
            other == AdoptedOn(d, {q})
            d5 == EnqueueCancel(d4, other)
<1>0. q \in Sides
  BY Names
<1>1. FillDeskStack(d, o, n, swept) = Refresh(d5)
  BY DEF FillDeskStack
<1>. HIDE DEF q
<1>2. other = Resting(d, {q}) /\ other \in SUBSET Orders
  BY RestingLegs DEF Resting
<1>3. Follows(d, d1, {}) /\ Tidy(d1) /\ Resting(d1, {q}) \subseteq Resting(d, {q})
  <2>1. Follows(d, d1, {}) /\ \A T : Resting(d1, T) \subseteq Resting(d, T)
    BY LegFilled
  <2>. QED
    BY <2>1 DEF Follows
<1>. HIDE DEF d1, other
<1>4. Follows(d1, d2, {}) /\ Tidy(d2) /\ Resting(d2, {q}) \subseteq Resting(d1, {q})
  BY <1>0, <1>3, LegsDue DEF Follows
<1>. HIDE DEF d2
<1>5. Follows(d2, d3, other) /\ Tidy(d3)
  <2>1. Follows(d2, d3, Resting(d2, {q}))
    BY <1>4, RestAsked
  <2>. QED
    BY <1>2, <1>3, <1>4, <2>1 DEF Follows
<1>. HIDE DEF d3
<1>6. Follows(d3, d0, {}) /\ Tidy(d0)
  BY <1>5, LegsDropped DEF Follows
<1>. HIDE DEF d0
<1>7. Follows(d0, d4, {}) /\ Tidy(d4)
  <2>1. Follows(d0, d4, {})
    BY <1>6, NetSet
  <2>. QED
    BY <2>1 DEF Follows
<1>. HIDE DEF d4
<1>8. Follows(d4, d5, {}) /\ other \subseteq Calls(d5) /\ Tidy(d5)
  BY <1>2, <1>7, CancelsQueued DEF Follows
<1>. HIDE DEF d5
<1>9. Follows(d5, Refresh(d5), {})
  BY <1>8, Refreshed
<1>. QED
  BY <1>1, <1>3, <1>4, <1>5, <1>6, <1>7, <1>8, <1>9 DEF Follows

(* The effect of the gateway's answer to a cancel.                            *)
LEMMA GatewayAnswered ==
  ASSUME NEW d, Tidy(d), NEW o \in Orders, NEW answer
  PROVE  Follows(d, GatewayCancel(d, o, answer).desk, IF answer = "benign" THEN {o} ELSE {})
<1>1. CASE answer = "lost"
  BY <1>1, LegsAlone DEF GatewayCancel, Tidy
<1>2. CASE answer = "benign"
  BY <1>2, LegRefused DEF GatewayCancel
<1>3. CASE answer \notin {"lost", "benign"}
  BY <1>3, LegsDropped DEF GatewayCancel, EraseTracked
<1>. QED
  BY <1>1, <1>2, <1>3

(* The handler of a rejected order takes one off the count.                   *)
LEMMA RejectHandled ==
  ASSUME NEW d, Tidy(d), NEW o \in Orders, NEW margin \in BOOLEAN
  PROVE  Follows(Unpend(d), OnReject(d, o, margin), {})
<1>. DEFINE k == IF d.pend > 0 THEN d.pend - 1 ELSE 0
            e == EachLeg(d, {Side(o)}, LAMBDA l : Awaits(l, o), Settled)
            f == Unpend(e)
            q == d.top[Opp(Side(o))]
<1>1. Follows(d, e, {}) /\ Tidy(e) /\ e.pend = d.pend
  <2>1. o \in Ids /\ Side(o) \in Sides
    BY Names DEF Ids
  <2>2. Follows(d, e, {})
    BY <2>1, LegFreed
  <2>. QED
    BY <2>2 DEF Follows
<1>2. k \in Nat /\ d \in DeskRec
  BY DEF Tidy, DeskRec
<1>3. Unpend(d) = [d EXCEPT !.pend = k] /\ f = [e EXCEPT !.pend = k]
  BY <1>1, <1>2 DEF Unpend, DeskRec, Tidy
<1>4. OnReject(d, o, margin) = IF margin /\ q # None THEN EnqueueCancel(f, {q}) ELSE f
  BY DEF OnReject
<1>5. q \in Ids
  BY <1>2, Names DEF DeskRec
<1>. HIDE DEF k, e, f, q
<1>6. Follows(Unpend(d), f, {}) /\ Tidy(f)
  BY <1>1, <1>2, <1>3, PendSet DEF Follows
<1>7. CASE margin /\ q # None
  <2>1. Follows(f, EnqueueCancel(f, {q}), {})
    BY <1>5, <1>6, <1>7, CancelsQueued DEF Ids
  <2>. QED
    BY <1>4, <1>6, <1>7, <2>1 DEF Follows
<1>. QED
  BY <1>4, <1>6, <1>7
-----------------------------------------------------------------------------
(* The leg that awaits the order takes it, and is cancelled at once if it is   *)
(* due to be.                                                                *)
Taken(l, m, o) ==
  IF Awaits(l, o)
  THEN /\ m.ord = o /\ m.st \in {"ADOPTED", "CANCEL_PENDING"}
       /\ m.st = "CANCEL_PENDING" => l.due
  ELSE m = l
Take(l, o) == IF l.due THEN [AskCancel(l, "FillOpposite") EXCEPT !.ord = o, !.cid = None, !.due = FALSE]
              ELSE [l EXCEPT !.ord = o, !.cid = None, !.st = "ADOPTED", !.age = 0]
Adopts(d, e, o, due) ==
  /\ Tidy(e) /\ e.pend = d.pend /\ Calls(e) = Calls(d)
  /\ Booked(e) \subseteq Booked(d) \cup {o} /\ Awaited(e) \subseteq Awaited(d)
  /\ Pulled(e) \subseteq Pulled(d) \cup (IF due THEN {o} ELSE {})

(* A leg that awaits an order's answer takes the order.                         *)
LEMMA LegTaken ==
  ASSUME NEW d, Tidy(d), NEW o \in Orders, o \notin Booked(d), NEW t \in Sides, NEW due,
         \A s \in Sides : \A i \in DOMAIN d.legs[s] : Awaits(d.legs[s][i], o) => s = t /\ (d.legs[s][i].due => due)
  PROVE  Adopts(d, EachLeg(d, {t}, LAMBDA l : Awaits(l, o), LAMBDA l : Take(l, o)), o, due)
<1>. DEFINE M == [s \in Sides |-> [i \in DOMAIN d.legs[s] |->
                    IF Awaits(d.legs[s][i], o) THEN Take(d.legs[s][i], o) ELSE d.legs[s][i]]]
            e == EachLeg(d, {t}, LAMBDA l : Awaits(l, o), LAMBDA l : Take(l, o))
<1>1. Becomes(d, {t}, M, e)
  BY DEF EachLeg, Tidy, DeskRec, Becomes, Awaits, Take
<1>2. ASSUME NEW s \in Sides, NEW i \in DOMAIN d.legs[s]
      PROVE  M[s][i] \in LegRec /\ Taken(d.legs[s][i], M[s][i], o)
  <2>1. d.legs[s][i] \in LegRec
    BY DEF Tidy, DeskRec
  <2>2. CASE Awaits(d.legs[s][i], o)
    <3>1. M[s][i] = Take(d.legs[s][i], o)
      BY <2>2
    <3>2. /\ Take(d.legs[s][i], o) \in LegRec /\ Take(d.legs[s][i], o).ord = o
          /\ Take(d.legs[s][i], o).st = IF d.legs[s][i].due THEN "CANCEL_PENDING" ELSE "ADOPTED"
      BY <2>1 DEF Take, AskCancel, LegRec, Ids
    <3>. QED
      BY <2>2, <3>1, <3>2 DEF Taken
  <2>3. CASE ~ Awaits(d.legs[s][i], o)
    BY <2>1, <2>3 DEF Taken
  <2>. QED
    BY <2>2, <2>3
<1>. HIDE DEF M, e
<1>3. /\ Became(d, {t}, M, e) /\ e \in DeskRec /\ e.pend = d.pend
      /\ e.legs \in [Sides -> Seq(LegRec)]
  BY <1>1, <1>2, LegsTyped
<1>4. \A s \in Sides : DOMAIN e.legs[s] = DOMAIN d.legs[s] /\ e.queue = d.queue
  BY <1>3 DEF Became
<1>5. ASSUME NEW s \in Sides, NEW i \in DOMAIN e.legs[s]
      PROVE  i \in DOMAIN d.legs[s] /\ Taken(d.legs[s][i], e.legs[s][i], o)
  <2>1. i \in DOMAIN d.legs[s] /\ e.legs[s][i] = IF s \in {t} THEN M[s][i] ELSE d.legs[s][i]
    BY <1>3, <1>4 DEF Became
  <2>2. s # t => ~ Awaits(d.legs[s][i], o)
    BY <2>1
  <2>. QED
    BY <1>2, <2>1, <2>2 DEF Taken
<1>6. \A s \in Sides : \A i \in DOMAIN d.legs[s] : d.legs[s][i].ord # o
  BY DEF Booked
<1>7. ASSUME NEW s \in Sides
      PROVE  LegsOK(e.legs[s], s)
  <2>1. Side(o) = s \/ \A i \in DOMAIN d.legs[s] : ~ Awaits(d.legs[s][i], o)
    BY Names DEF Tidy, LegsOK, Awaits
  <2>2. \A i, j \in DOMAIN d.legs[s] : Awaits(d.legs[s][i], o) /\ Awaits(d.legs[s][j], o) => i = j
    BY Names DEF Tidy, LegsOK, Awaits
  <2>3. LegsOK(d.legs[s], s)
    BY DEF Tidy
  <2>4. ASSUME NEW i \in DOMAIN e.legs[s], Awaits(d.legs[s][i], o)
        PROVE  /\ e.legs[s][i].ord = o /\ e.legs[s][i].st \in {"ADOPTED", "CANCEL_PENDING"} /\ Side(o) = s
               /\ \A j \in DOMAIN e.legs[s] \ {i} : e.legs[s][j] = d.legs[s][j] /\ e.legs[s][j].ord # o
    BY <1>5, <1>6, <2>1, <2>2, <2>4 DEF Taken
  <2>5. ASSUME NEW i \in DOMAIN e.legs[s], ~ Awaits(d.legs[s][i], o)
        PROVE  e.legs[s][i] = d.legs[s][i] /\ i \in DOMAIN d.legs[s]
    BY <1>5, <2>5 DEF Taken
  <2>. QED
    BY <1>5, <1>6, <2>3, <2>4, <2>5, Names DEF LegsOK
<1>8. Calls(e) = Calls(d)
  BY <1>3 DEF Calls, Became
<1>9. Booked(e) \subseteq Booked(d) \cup {o}
  BY <1>5 DEF Booked, Taken
<1>10. Awaited(e) \subseteq Awaited(d)
  BY <1>5 DEF Awaited, Taken, Awaits
<1>11. Pulled(e) \subseteq Pulled(d) \cup (IF due THEN {o} ELSE {})
  BY <1>5 DEF Pulled, Taken
<1>. QED
  BY <1>3, <1>7, <1>8, <1>9, <1>10, <1>11 DEF Adopts, Tidy, e

(* The order becomes the only leg of its side.                                *)
LEMMA LegAlone ==
  ASSUME NEW d, Tidy(d), NEW o \in Orders
  PROVE  Adopts(d, [d EXCEPT !.legs[Side(o)] = <<Leg(o, "ADOPTED")>>], o, FALSE)
<1>. DEFINE e == [d EXCEPT !.legs[Side(o)] = <<Leg(o, "ADOPTED")>>]
<1>1. Side(o) \in Sides /\ o # None /\ d.legs \in [Sides -> Seq(LegRec)]
  BY Names DEF Tidy, DeskRec
<1>2. /\ Leg(o, "ADOPTED") \in LegRec /\ Leg(o, "ADOPTED").ord = o /\ Leg(o, "ADOPTED").st = "ADOPTED"
  BY DEF Leg, LegRec, Ids
<1>3. <<Leg(o, "ADOPTED")>> \in Seq(LegRec)
  BY <1>2
<1>4. e \in DeskRec /\ e.pend = d.pend /\ e.queue = d.queue
      /\ e.legs = [d.legs EXCEPT ![Side(o)] = <<Leg(o, "ADOPTED")>>]
  BY <1>1, <1>3 DEF Tidy, DeskRec
<1>. HIDE DEF e
<1>5. \A s \in Sides : \A i \in DOMAIN e.legs[s] :
        \/ s = Side(o) /\ i = 1 /\ e.legs[s][i] = Leg(o, "ADOPTED") /\ DOMAIN e.legs[s] = {1}
        \/ e.legs[s] = d.legs[s]
  BY <1>1, <1>4
<1>6. \A s \in Sides : LegsOK(e.legs[s], s)
  BY <1>1, <1>2, <1>5 DEF Tidy, LegsOK
<1>7. Calls(e) = Calls(d)
  BY <1>4 DEF Calls
<1>8. Booked(e) \subseteq Booked(d) \cup {o} /\ Awaited(e) \subseteq Awaited(d) /\ Pulled(e) \subseteq Pulled(d)
  BY <1>2, <1>5 DEF Booked, Awaited, Pulled, Awaits
<1>. QED
  BY <1>4, <1>6, <1>7, <1>8 DEF Adopts, Tidy, e

(* The handler of an accepted order takes one off the count.                   *)
LEMMA AcceptHandled ==
  ASSUME NEW d, Tidy(d), NEW o \in Orders, o \notin Booked(d)
  PROVE  LET e == OnAccept(d, o)
         IN  /\ Tidy(e) /\ e.pend = Unpend(d).pend
             /\ Booked(e) \subseteq Booked(d) \cup {o} /\ Awaited(e) \subseteq Awaited(d)
             /\ Calls(d) \subseteq Calls(e) /\ Pulled(e) \subseteq Pulled(d) \cup Calls(e)
<1>. DEFINE s == Side(o)
            due == SomeLeg(d, LAMBDA l : Awaits(l, o) /\ l.due)
            mine == SomeLeg(d, LAMBDA l : Awaits(l, o))
            d1 == IF mine THEN EachLeg(d, {s}, LAMBDA l : Awaits(l, o), LAMBDA l : Take(l, o))
                  ELSE [d EXCEPT !.legs[s] = <<Leg(o, "ADOPTED")>>]
            d2 == IF due THEN EnqueueCancel(d1, {o}) ELSE d1
            d3 == Unpend(d2)
            k == IF d.pend > 0 THEN d.pend - 1 ELSE 0
<1>1. OnAccept(d, o) = Refresh(d3)
  BY DEF OnAccept, Take
<1>2. Adopts(d, d1, o, due)
  <2>1. CASE mine
    <3>1. \A t \in Sides : \A i \in DOMAIN d.legs[t] :
             Awaits(d.legs[t][i], o) => t = s /\ (d.legs[t][i].due => due)
      BY Names DEF Tidy, LegsOK, Awaits, SomeLeg
    <3>2. s \in Sides
      BY Names
    <3>. HIDE DEF s, due
    <3>3. Adopts(d, EachLeg(d, {s}, LAMBDA l : Awaits(l, o), LAMBDA l : Take(l, o)), o, due)
      BY <3>1, <3>2, LegTaken
    <3>. QED
      BY <2>1, <3>3
  <2>2. CASE ~ mine
    <3>1. ~ due
      BY <2>2 DEF SomeLeg
    <3>. HIDE DEF due
    <3>2. Adopts(d, [d EXCEPT !.legs[s] = <<Leg(o, "ADOPTED")>>], o, FALSE)
      BY LegAlone
    <3>. QED
      BY <2>2, <3>1, <3>2 DEF Adopts
  <2>. QED
    BY <2>1, <2>2
<1>3. d.pend \in Nat
  BY DEF Tidy, DeskRec
<1>. HIDE DEF d1, due
<1>4. Follows(d1, d2, {}) /\ (due => o \in Calls(d2)) /\ Tidy(d2)
  <2>1. Follows(d1, EnqueueCancel(d1, {o}), {}) /\ {o} \subseteq Calls(EnqueueCancel(d1, {o}))
    BY <1>2, CancelsQueued DEF Adopts
  <2>2. Follows(d1, d1, {})
    BY <1>2, LegsAlone DEF Adopts, Tidy
  <2>. QED
    BY <2>1, <2>2 DEF Follows
<1>5. d2.pend = d.pend
  BY <1>2, <1>4 DEF Adopts, Follows
<1>. HIDE DEF d2
<1>6. Unpend(d).pend = k /\ d3 = [d2 EXCEPT !.pend = k] /\ k \in Nat
  <2>1. d \in DeskRec /\ d2 \in DeskRec
    BY <1>4 DEF Tidy
  <2>. QED
    BY <1>3, <1>5, <2>1 DEF Unpend, DeskRec
<1>. HIDE DEF d3, k
<1>7. /\ Tidy(d3) /\ d3.pend = k /\ Booked(d3) = Booked(d2) /\ Awaited(d3) = Awaited(d2)
      /\ Calls(d3) = Calls(d2) /\ Pulled(d3) = Pulled(d2)
  BY <1>4, <1>6, PendSet
<1>8. Follows(d3, Refresh(d3), {})
  BY <1>7, Refreshed
<1>9. /\ Tidy(Refresh(d3)) /\ Refresh(d3).pend = Unpend(d).pend
      /\ Calls(d) \subseteq Calls(Refresh(d3))
  BY <1>2, <1>4, <1>6, <1>7, <1>8 DEF Follows, Adopts
<1>10. Booked(Refresh(d3)) \subseteq Booked(d) \cup {o} /\ Awaited(Refresh(d3)) \subseteq Awaited(d)
  BY <1>2, <1>4, <1>7, <1>8 DEF Follows, Adopts
<1>11. Pulled(Refresh(d3)) \subseteq Pulled(d) \cup Calls(Refresh(d3))
  BY <1>2, <1>4, <1>7, <1>8 DEF Follows, Adopts
<1>. QED
  BY <1>1, <1>9, <1>10, <1>11
-----------------------------------------------------------------------------
(* A leg is taken for an order that is about to be sent.                       *)
LEMMA LegReserved ==
  ASSUME NEW d, Tidy(d), NEW s \in Sides, NEW o \in Ids,
         o = None \/ (Side(o) = s /\ o \notin Awaited(d))
  PROVE  LET e == Reserve(d, s, o)
         IN  /\ Tidy(e) /\ e.pend = d.pend + 1 /\ Calls(e) = Calls(d)
             /\ Booked(e) \subseteq Booked(d) /\ Pulled(e) \subseteq Pulled(d)
             /\ Awaited(e) \subseteq Awaited(d) \cup ({o} \cap Orders)
<1>. DEFINE free == {i \in DOMAIN d.legs[s] : d.legs[s][i].st = "CANCELLED"}
            slot == CHOOSE i \in free : \A j \in free : i <= j
            legs == IF free = {} THEN Append(d.legs[s], Leg(None, "PLACE_PENDING")) ELSE d.legs[s]
            at   == IF free = {} THEN Len(legs) ELSE slot
            L    == [legs EXCEPT ![at] = [@ EXCEPT !.st = "PLACE_PENDING", !.cid = o, !.ord = None, !.age = 0]]
            e    == Reserve(d, s, o)
<1>1. d.legs \in [Sides -> Seq(LegRec)] /\ d.legs[s] \in Seq(LegRec) /\ d \in DeskRec
  BY DEF Tidy, DeskRec
<1>2. Leg(None, "PLACE_PENDING") \in LegRec
  BY DEF Leg, LegRec, Ids
<1>3. legs \in Seq(LegRec) /\ at \in DOMAIN legs
      /\ \A i \in DOMAIN legs \ {at} : i \in DOMAIN d.legs[s] /\ legs[i] = d.legs[s][i]
  <2>1. CASE free = {}
    BY <1>1, <1>2, <2>1
  <2>2. CASE free # {}
    <3>1. slot \in free
      <4>. HIDE DEF free
      <4>1. free \subseteq Nat
        BY <1>1 DEF free
      <4>2. \E i \in free : \A j \in free : i <= j
        BY <2>2, <4>1, LeastOne
      <4>. QED
        BY <4>2
    <3>. HIDE DEF slot
    <3>. QED
      BY <1>1, <2>2, <3>1
  <2>. QED
    BY <2>1, <2>2
<1>4. /\ e.pend = d.pend + 1 /\ e.legs = [d.legs EXCEPT ![s] = L] /\ e.queue = d.queue
      /\ e = [d EXCEPT !.pend = d.pend + 1, !.legs = [d.legs EXCEPT ![s] = L]]
  BY <1>1 DEF Reserve, DeskRec
<1>. HIDE DEF at, legs, e
<1>5. \A l \in LegRec : LET m == [l EXCEPT !.st = "PLACE_PENDING", !.cid = o, !.ord = None, !.age = 0]
                        IN  m \in LegRec /\ m.st = "PLACE_PENDING" /\ m.cid = o /\ m.ord = None
  BY DEF LegRec, Ids
<1>6. /\ L \in Seq(LegRec) /\ at \in DOMAIN L /\ DOMAIN L = DOMAIN legs
      /\ L[at].st = "PLACE_PENDING" /\ L[at].cid = o /\ L[at].ord = None
      /\ \A i \in DOMAIN L \ {at} : i \in DOMAIN d.legs[s] /\ L[i] = d.legs[s][i]
  <2>1. legs[at] \in LegRec
    BY <1>3
  <2>2. /\ L[at] = [legs[at] EXCEPT !.st = "PLACE_PENDING", !.cid = o, !.ord = None, !.age = 0]
        /\ DOMAIN L = DOMAIN legs /\ \A i \in DOMAIN L \ {at} : L[i] = legs[i]
    BY <1>3
  <2>3. L[at] \in LegRec /\ L[at].st = "PLACE_PENDING" /\ L[at].cid = o /\ L[at].ord = None
    BY <1>5, <2>1, <2>2, ZenonT(30)
  <2>4. L \in [DOMAIN legs -> LegRec]
    BY <1>3, <2>2, <2>3
  <2>5. L \in Seq(LegRec)
    BY <1>3, <2>4, Mapped
  <2>. HIDE DEF L
  <2>. QED
    BY <1>3, <2>2, <2>3, <2>5
<1>. HIDE DEF L
<1>7. e \in DeskRec
  <2>1. d.pend + 1 \in Nat /\ [d.legs EXCEPT ![s] = L] \in [Sides -> Seq(LegRec)]
    BY <1>1, <1>6 DEF DeskRec
  <2>. QED
    BY <1>1, <1>4, <2>1 DEF DeskRec
<1>8. /\ Tidy(e) /\ Calls(e) = Calls(d) /\ Booked(e) \subseteq Booked(d) /\ Pulled(e) \subseteq Pulled(d)
      /\ Awaited(e) \subseteq Awaited(d) \cup {p \in Orders : Awaits(L[at], p)}
  <2>1. /\ L[at].st \in {"CANCELLED", "PLACE_PENDING"}
        /\ L[at].st = "PLACE_PENDING" =>
             L[at].cid = None \/ (Side(L[at].cid) = s /\ L[at].cid \notin Awaited(d))
    BY <1>6
  <2>2. e.legs = [d.legs EXCEPT ![s] = L] /\ e.queue = d.queue
    BY <1>4
  <2>3. /\ L \in Seq(LegRec) /\ at \in DOMAIN L /\ L[at].ord = None
        /\ \A i \in DOMAIN L \ {at} : i \in DOMAIN d.legs[s] /\ L[i] = d.legs[s][i]
    BY <1>6
  <2>. HIDE DEF free, slot
  <2>. QED
    BY <1>7, <2>1, <2>2, <2>3, LegPut
<1>9. {p \in Orders : Awaits(L[at], p)} \subseteq {o} \cap Orders
  BY <1>6 DEF Awaits
<1>. QED
  BY <1>4, <1>8, <1>9 DEF e

(* Nothing is sent: the leg that was taken is given back.                       *)
LEMMA GateClosed ==
  ASSUME NEW d, Tidy(d), NEW s \in Sides
  PROVE  Follows(d, Unpend(EachLeg(Reserve(d, s, None), {s},
                             LAMBDA l : l.st = "PLACE_PENDING" /\ l.cid = None, Settled)), {})
<1>. DEFINE e == Reserve(d, s, None)
            f == EachLeg(e, {s}, LAMBDA l : Awaits(l, None), Settled)
            g == EachLeg(e, {s}, LAMBDA l : l.st = "PLACE_PENDING" /\ l.cid = None, Settled)
<1>1. None \in Ids /\ None \notin Orders
  BY Names DEF Ids
<1>2. /\ Tidy(e) /\ e.pend = d.pend + 1 /\ Calls(e) = Calls(d)
      /\ Booked(e) \subseteq Booked(d) /\ Pulled(e) \subseteq Pulled(d)
      /\ Awaited(e) \subseteq Awaited(d) \cup ({None} \cap Orders)
  BY <1>1, LegReserved
<1>. HIDE DEF e
<1>3. Follows(e, f, {})
  BY <1>1, <1>2, LegFreed
<1>4. g = f
  BY DEF EachLeg, Awaits
<1>. HIDE DEF f, g
<1>5. d.pend \in Nat /\ f \in DeskRec /\ Tidy(f) /\ f.pend = d.pend + 1
  BY <1>2, <1>3 DEF Follows, Tidy, DeskRec
<1>6. Unpend(f) = [f EXCEPT !.pend = d.pend]
  BY <1>5 DEF Unpend
<1>7. /\ Tidy(Unpend(f)) /\ Unpend(f).pend = d.pend /\ Booked(Unpend(f)) = Booked(f)
      /\ Awaited(Unpend(f)) = Awaited(f) /\ Calls(Unpend(f)) = Calls(f) /\ Pulled(Unpend(f)) = Pulled(f)
  BY <1>5, <1>6, PendSet
<1>8. Follows(d, Unpend(f), {})
  BY <1>1, <1>2, <1>3, <1>7 DEF Follows
<1>. QED
  BY <1>4, <1>8 DEF e, g

(* A leg is added for an order that was sent already.                          *)
LEMMA LegTracked ==
  ASSUME NEW d, Tidy(d), NEW o \in Orders, o \notin Awaited(d)
  PROVE  LET e == Track(d, o)
         IN  /\ Tidy(e) /\ e.pend = d.pend /\ Calls(e) = Calls(d)
             /\ Booked(e) \subseteq Booked(d) /\ Pulled(e) \subseteq Pulled(d)
             /\ Awaited(e) \subseteq Awaited(d) \cup {o}
<1>. DEFINE l == [Leg(None, "PLACE_PENDING") EXCEPT !.cid = o]
            e == [d EXCEPT !.legs[Side(o)] = Append(@, l)]
<1>1. l \in LegRec /\ l.ord = None /\ l.st = "PLACE_PENDING" /\ l.cid = o /\ Side(o) \in Sides
  BY Names DEF Leg, LegRec, Ids
<1>2. Track(d, o) = IF AdoptedOn(d, {Side(o)}) # {} THEN d ELSE e
  BY DEF Track
<1>. HIDE DEF l
<1>3. {p \in Orders : Awaits(l, p)} \subseteq {o}
  BY <1>1 DEF Awaits
<1>4. /\ Tidy(e) /\ Calls(e) = Calls(d) /\ Booked(e) \subseteq Booked(d)
      /\ Pulled(e) \subseteq Pulled(d) /\ e.pend = d.pend
      /\ Awaited(e) \subseteq Awaited(d) \cup {p \in Orders : Awaits(l, p)}
  <2>1. /\ l.st \in {"CANCELLED", "PLACE_PENDING"}
        /\ l.st = "PLACE_PENDING" => l.cid = None \/ (Side(l.cid) = Side(o) /\ l.cid \notin Awaited(d))
    BY <1>1
  <2>2. l \in LegRec /\ l.ord = None /\ Side(o) \in Sides
    BY <1>1
  <2>. QED
    BY <2>1, <2>2, LegAdded, ZenonT(60)
<1>. HIDE DEF e
<1>. QED
  BY <1>2, <1>3, <1>4
-----------------------------------------------------------------------------
(* The orders are finitely many, and so the venue's position is a number.       *)
LEMMA Finitely ==
  /\ IsFiniteSet(Orders) /\ VenueNet \in Int
<1>1. Sides = {"BUY"} \cup {"SELL"} /\ IsFiniteSet({"BUY"})
  BY FS_Singleton DEF Sides
<1>2. IsFiniteSet(Sides)
  BY <1>1, FS_AddElement
<1>3. IsFiniteSet(1 .. MaxOrders)
  BY PairCycleAssumption, FS_Interval
<1>4. IsFiniteSet(Orders)
  BY <1>2, <1>3, FS_Product DEF Orders
<1>5. ASSUME NEW T \in SUBSET Orders
      PROVE  Cardinality(T) \in Nat
  BY <1>4, FS_Subset, FS_CardinalityType
<1>6. /\ {o \in Filled : Side(o) = "BUY"} \in SUBSET Orders
      /\ {o \in Filled : Side(o) = "SELL"} \in SUBSET Orders
  BY DEF Filled
<1>7. /\ Cardinality({o \in Filled : Side(o) = "BUY"}) \in Nat
      /\ Cardinality({o \in Filled : Side(o) = "SELL"}) \in Nat
  BY <1>5, <1>6
<1>. QED
  BY <1>4, <1>7 DEF VenueNet

(* A side's next order is one it has not sent.                                 *)
LEMMA NextIsUnsent ==
  ASSUME NEW s \in Sides, Unsent(s) # {}
  PROVE  NextOrder(s) \in Orders /\ Side(NextOrder(s)) = s /\ venue[NextOrder(s)] = "unsent"
<1>. DEFINE N == {o[2] : o \in Unsent(s)}
<1>1. \A o \in Orders : o[2] \in Nat
  BY PairCycleAssumption DEF Orders
<1>2. N \subseteq Nat /\ N # {}
  BY <1>1 DEF Unsent
<1>3. PICK n \in N : \A m \in N : n <= m
  <2>. HIDE DEF N
  <2>. QED
    BY <1>2, LeastOne
<1>4. \E o \in Unsent(s) : \A p \in Unsent(s) : o[2] <= p[2]
  BY <1>3
<1>5. NextOrder(s) \in Unsent(s)
  BY <1>4 DEF NextOrder
<1>. QED
  BY <1>5 DEF Unsent

(* What becomes of the steps that wait for an answer.                           *)
Waiting(x) == x.step \in {"answer", "accept", "submit"}

(* The waiting steps of a job are finitely many.                                *)
LEMMA WaitsCount ==
  ASSUME NEW w \in Seq(StepRec)
  PROVE  IsFiniteSet(Waits(w)) /\ Cardinality(Waits(w)) \in Nat
<1>1. Len(w) \in Nat /\ Waits(w) \in SUBSET (1 .. Len(w))
  BY DEF Waits
<1>2. IsFiniteSet(1 .. Len(w))
  BY <1>1, FS_Interval
<1>. QED
  BY <1>1, <1>2, FS_Subset, FS_CardinalityType

(* A job that goes on has one waiting step fewer if its first step waited.      *)
LEMMA WaitsTail ==
  ASSUME NEW w \in Seq(StepRec), w # <<>>
  PROVE  /\ Tail(w) \in Seq(StepRec)
         /\ Cardinality(Waits(Tail(w))) =
              Cardinality(Waits(w)) - (IF Waiting(w[1]) THEN 1 ELSE 0)
<1>. DEFINE v == Tail(w)
            f == [i \in Waits(v) |-> i + 1]
            R == Waits(w) \ {1}
<1>1. /\ v \in Seq(StepRec) /\ DOMAIN v = 1 .. Len(v) /\ DOMAIN w = 1 .. Len(w)
      /\ Len(w) = Len(v) + 1 /\ Len(v) \in Nat /\ \A i \in 1 .. Len(v) : v[i] = w[i + 1]
  OBVIOUS
<1>. HIDE DEF v
<1>2. f \in [Waits(v) -> R] /\ \A i, j \in Waits(v) : f[i] = f[j] => i = j
  BY <1>1 DEF Waits
<1>3. \A k \in R : \E i \in Waits(v) : f[i] = k
  <2>. SUFFICES ASSUME NEW k \in R
                PROVE  \E i \in Waits(v) : f[i] = k
    OBVIOUS
  <2>1. k - 1 \in Waits(v) /\ (k - 1) + 1 = k
    BY <1>1 DEF Waits
  <2>. QED
    BY <2>1
<1>. HIDE DEF f
<1>4. f \in Bijection(Waits(v), R)
  BY <1>2, <1>3 DEF Bijection, Injection, Surjection, IsInjective
<1>5. ExistsBijection(Waits(v), R)
  BY <1>4 DEF ExistsBijection
<1>6. IsFiniteSet(Waits(v)) /\ IsFiniteSet(Waits(w)) /\ Cardinality(Waits(w)) \in Nat
  BY <1>1, WaitsCount
<1>7. Cardinality(R) = Cardinality(Waits(v))
  BY <1>5, <1>6, FS_Bijection
<1>8. Cardinality(R) = IF 1 \in Waits(w) THEN Cardinality(Waits(w)) - 1 ELSE Cardinality(Waits(w))
  BY <1>6, FS_RemoveElement
<1>9. 1 \in Waits(w) <=> Waiting(w[1])
  BY <1>1 DEF Waits, Waiting
<1>. QED
  BY <1>1, <1>6, <1>7, <1>8, <1>9 DEF v

(* A job with a new first step has one waiting step more if that one waits.     *)
LEMMA WaitsPush ==
  ASSUME NEW w \in Seq(StepRec), NEW x \in StepRec
  PROVE  /\ <<x>> \o w \in Seq(StepRec)
         /\ Cardinality(Waits(<<x>> \o w)) = Cardinality(Waits(w)) + (IF Waiting(x) THEN 1 ELSE 0)
<1>. DEFINE u == <<x>> \o w
<1>1. u \in Seq(StepRec) /\ u # <<>> /\ u[1] = x
  OBVIOUS
<1>2. Tail(u) = w
  OBVIOUS
<1>. HIDE DEF u
<1>3. Cardinality(Waits(w)) = Cardinality(Waits(u)) - (IF Waiting(x) THEN 1 ELSE 0)
  BY <1>1, <1>2, WaitsTail
<1>4. Cardinality(Waits(w)) \in Nat /\ Cardinality(Waits(u)) \in Nat
  BY <1>1, WaitsCount
<1>. QED
  BY <1>1, <1>3, <1>4 DEF u

(* A job none of whose steps waits counts none.                                 *)
LEMMA NoneWaits ==
  ASSUME NEW w \in Seq(StepRec), \A i \in DOMAIN w : ~ Waiting(w[i])
  PROVE  Cardinality(Waits(w)) = 0
BY FS_EmptySet DEF Waits, Waiting

(* A set as a sequence: every element occurs.                                 *)
LEMMA SetSequence ==
  ASSUME NEW S, IsFiniteSet(S)
  PROVE  /\ Cardinality(S) \in Nat
         /\ \A i \in 1 .. Cardinality(S) : SetToSeq(S)[i] \in S
         /\ \A x \in S : \E i \in 1 .. Cardinality(S) : SetToSeq(S)[i] = x
<1>. DEFINE n == Cardinality(S)
            f == SetToSeq(S)
<1>1. n \in Nat /\ ExistsBijection(1 .. n, S)
  BY FS_CardinalityType
<1>2. \E g \in [1 .. n -> S] : IsInjective(g)
  BY <1>1 DEF ExistsBijection, Bijection, Injection
<1>3. f \in [1 .. n -> S] /\ IsInjective(f)
  BY <1>2 DEF SetToSeq
<1>. HIDE DEF f
<1>4. f \in Injection(1 .. n, S)
  BY <1>3 DEF Injection
<1>5. Cardinality(1 .. n) = n
  BY <1>1, FS_Interval
<1>6. f \in Surjection(1 .. n, S)
  BY <1>4, <1>5, FS_Injection
<1>. QED
  BY <1>1, <1>3, <1>6 DEF Surjection, f
-----------------------------------------------------------------------------
(* What most steps do: no order is sent, orders at the venue end, their rows   *)
(* become final after them, and the worker has no new answer to wait for.      *)
VenueOn ==
  /\ venue' \in [Orders -> {"unsent", "live", "filled", "dropped", "gone", "refused"}]
  /\ \A o \in Orders : venue'[o] = venue[o] \/ (venue[o] = "live" /\ venue'[o] \notin {"unsent", "live"})
AskedOn == \A o \in Orders : venue'[o] = "live" /\ o \in asked => o \in asked'
OmOn ==
  /\ om' \in [Orders -> {"none", "active", "final"}]
  /\ \A o \in Orders :
       om'[o] = om[o] \/ (om[o] = "active" /\ om'[o] = "final" /\ venue'[o] \notin {"unsent", "live"})
Smaller(w, v) ==
  /\ v \in Seq(StepRec) /\ WorkOK(v)
  /\ \A i \in DOMAIN v : v[i].step \in {"answer", "accept", "track"} => \E j \in DOMAIN w : v[i] = w[j]

(* A step that books and awaits no new order, and adds no step that waits,      *)
(* keeps the invariant.                                                         *)
LEMMA QuietStep ==
  ASSUME PairInv, VenueOn, OmOn, Tidy(desk'), Smaller(work, work'),
         Booked(desk') \subseteq Booked(desk), Awaited(desk') \subseteq Awaited(desk),
         desk'.pend = Cardinality(Waits(work')),
         \A i \in DOMAIN work' : work'[i].step \in {"answer", "accept"} => om'[work'[i].ord] = om[work'[i].ord],
         CoverOK'
  PROVE  PairInv'
<1>1. PairTypes' /\ WorkOK(work') /\ PendOK'
  BY DEF VenueOn, OmOn, Smaller, PairTypes, PendOK
<1>2. /\ \A o \in Orders : /\ venue'[o] = "unsent" => venue[o] = "unsent"
                           /\ om'[o] = "none" <=> om[o] = "none"
  BY DEF VenueOn, OmOn
<1>3. \A o \in Orders : /\ venue'[o] = "unsent" => om'[o] = "none"
                        /\ om'[o] = "final" => venue'[o] \notin {"unsent", "live"}
  BY DEF VenueOn, OmOn, PairInv, SentOK, PairTypes
<1>4. \A o \in Booked(desk') : om'[o] # "none"
  BY <1>2 DEF PairInv, SentOK, Booked
<1>5. \A o \in Awaited(desk') : venue'[o] # "unsent"
  BY <1>2 DEF PairInv, SentOK, Awaited
<1>6. ASSUME NEW i \in DOMAIN work'
      PROVE  /\ work'[i].step \in {"answer", "accept"} =>
                  work'[i].ord \in Orders /\ om'[work'[i].ord] = "none" /\ venue'[work'[i].ord] # "unsent"
             /\ work'[i].step = "track" =>
                  work'[i].ord \in Orders /\ venue'[work'[i].ord] # "unsent" /\ work'[i].ord \notin Awaited(desk')
  <2>1. work'[i].step \in {"answer", "accept", "track"} => \E j \in DOMAIN work : work'[i] = work[j]
    BY DEF Smaller
  <2>. QED
    BY <1>2, <2>1 DEF PairInv, SentOK
<1>7. SentOK'
  BY <1>3, <1>4, <1>5, <1>6 DEF SentOK
<1>. QED
  BY <1>1, <1>7 DEF PairInv

(* Cancels stay on their way.                                                *)
LEMMA StillCovered ==
  ASSUME PairInv, VenueOn, AskedOn, stack' = "ACTIVE" => stack = "ACTIVE",
         \A o \in Pulled(desk') : venue'[o] = "live" => o \in Pulled(desk) \cup Calls(desk'),
         \A o \in Pulled(desk') : o \in Calls(desk) \cup Sending(work) /\ venue'[o] = "live" /\ stack = "ACTIVE" =>
            o \in asked' \cup Calls(desk') \cup Sending(work')
  PROVE  CoverOK'
<1>. SUFFICES ASSUME stack' = "ACTIVE", NEW o \in Pulled(desk'), o \in Orders, venue'[o] = "live"
              PROVE  o \in asked' \cup Calls(desk') \cup Sending(work')
  BY DEF CoverOK, Live
<1>1. venue[o] = "live"
  BY DEF VenueOn, PairInv, PairTypes
<1>2. CASE o \in Calls(desk')
  BY <1>2
<1>3. CASE o \in Pulled(desk)
  <2>1. o \in asked \cup Calls(desk) \cup Sending(work)
    BY <1>1, <1>3 DEF PairInv, CoverOK, Live
  <2>. QED
    BY <2>1 DEF AskedOn
<1>. QED
  BY <1>2, <1>3

(* A step of another actor than the worker.                                    *)
LEMMA Elsewhere ==
  ASSUME PairInv, VenueOn, AskedOn, OmOn, Follows(desk, desk', {}), work' = work, stack' = stack
  PROVE  PairInv'
<1>1. Smaller(work, work')
  BY DEF PairInv, PairTypes, Smaller
<1>2. desk'.pend = Cardinality(Waits(work'))
  BY DEF PairInv, PendOK, Follows
<1>3. \A i \in DOMAIN work' : work'[i].step \in {"answer", "accept"} => om'[work'[i].ord] = om[work'[i].ord]
  BY DEF PairInv, SentOK, OmOn
<1>4. CoverOK'
  <2>1. \A o \in Pulled(desk') : venue'[o] = "live" => o \in Pulled(desk) \cup Calls(desk')
    BY DEF Follows
  <2>2. \A o \in Pulled(desk') : o \in Calls(desk) \cup Sending(work) /\ venue'[o] = "live" /\ stack = "ACTIVE" =>
            o \in asked' \cup Calls(desk') \cup Sending(work')
    BY DEF Follows
  <2>. QED
    BY <2>1, <2>2, StillCovered
<1>. QED
  BY <1>1, <1>2, <1>3, <1>4, QuietStep DEF Follows

(* A job that neither sends cancels nor waits for an answer.                    *)
Quoting(w) == w \in Seq(StepRec) /\ \A i \in DOMAIN w : w[i].step \in QuoteSteps

(* A quoting job expects no answer and sends no cancel.                         *)
LEMMA QuotingFacts ==
  ASSUME NEW w, Quoting(w)
  PROVE  /\ WorkOK(w) /\ Cardinality(Waits(w)) = 0 /\ Sending(w) = {}
         /\ \A v : Smaller(v, w)
<1>1. WorkOK(w) /\ Sending(w) = {} /\ \A i \in DOMAIN w : ~ Waiting(w[i])
  BY DEF Quoting, WorkOK, Sending, QuoteSteps, Waiting
<1>2. Cardinality(Waits(w)) = 0
  BY <1>1, NoneWaits DEF Quoting
<1>3. \A v : Smaller(v, w)
  BY <1>1 DEF Smaller, Quoting, QuoteSteps
<1>. QED
  BY <1>1, <1>2, <1>3

(* A quoting job that goes on as a quoting job keeps the invariant.             *)
LEMMA QuotingStep ==
  ASSUME PairInv, Quoting(work), Quoting(work'), VenueOn, AskedOn, om' = om,
         Follows(desk, desk', {o \in Orders : venue'[o] # "live"}),
         stack' = "ACTIVE" => stack = "ACTIVE"
  PROVE  PairInv'
<1>1. Smaller(work, work') /\ Cardinality(Waits(work')) = 0 /\ Cardinality(Waits(work)) = 0
      /\ Sending(work) = {}
  BY QuotingFacts
<1>2. desk'.pend = Cardinality(Waits(work'))
  BY <1>1 DEF PairInv, PendOK, Follows
<1>3. OmOn
  BY DEF OmOn, PairInv, PairTypes
<1>4. CoverOK'
  <2>1. \A o \in Pulled(desk') : venue'[o] = "live" => o \in Pulled(desk) \cup Calls(desk')
    BY DEF Follows
  <2>2. \A o \in Pulled(desk') : o \in Calls(desk) \cup Sending(work) /\ venue'[o] = "live" /\ stack = "ACTIVE" =>
            o \in asked' \cup Calls(desk') \cup Sending(work')
    BY <1>1 DEF Follows
  <2>. QED
    BY <2>1, <2>2, StillCovered
<1>. QED
  BY <1>1, <1>2, <1>3, <1>4, QuietStep DEF Follows

(* The worker goes on with the rest of its job.                                *)
LEMMA QuotingTail ==
  ASSUME PairInv, work # <<>>, Head(work).step \in QuoteSteps
  PROVE  Quoting(work) /\ Quoting(Tail(work)) /\ Head(work) = work[1] /\ Head(work).side \in Sides
         /\ \A x \in StepRec : x.step \in QuoteSteps => Quoting(<<x>> \o Tail(work)) /\ Quoting(<<x>>)
<1>1. work \in Seq(StepRec) /\ Head(work) = work[1] /\ 1 \in DOMAIN work /\ Head(work) \in StepRec
  BY DEF PairInv, PairTypes
<1>2. \A i \in DOMAIN work : work[i].step \in QuoteSteps
  <2>1. work[1].step \notin {"cancel", "submit", "accept", "track", "answer"}
    BY <1>1 DEF QuoteSteps
  <2>. QED
    BY <1>1, <2>1 DEF PairInv, WorkOK
<1>3. Tail(work) \in Seq(StepRec) /\ \A i \in DOMAIN Tail(work) : Tail(work)[i].step \in QuoteSteps
  BY <1>1, <1>2
<1>. DEFINE v == Tail(work)
<1>. HIDE DEF v
<1>4. \A x \in StepRec : x.step \in QuoteSteps => Quoting(<<x>> \o v) /\ Quoting(<<x>>)
  <2>. SUFFICES ASSUME NEW x \in StepRec, x.step \in QuoteSteps
                PROVE  Quoting(<<x>> \o v) /\ Quoting(<<x>>)
    OBVIOUS
  <2>1. v \in Seq(StepRec) /\ \A i \in DOMAIN v : v[i].step \in QuoteSteps
    BY <1>3 DEF v
  <2>2. <<x>> \o v \in Seq(StepRec)
    BY <2>1
  <2>3. \A i \in DOMAIN (<<x>> \o v) : (<<x>> \o v)[i] = x \/ \E j \in DOMAIN v : (<<x>> \o v)[i] = v[j]
    BY <2>1
  <2>4. Quoting(<<x>>)
    BY DEF Quoting
  <2>. QED
    BY <2>1, <2>2, <2>3, <2>4 DEF Quoting
<1>. QED
  BY <1>1, <1>2, <1>3, <1>4 DEF Quoting, StepRec, v

(* A cancel at the gateway of the side's top of book.                           *)
LEMMA TopCancelled ==
  ASSUME PairInv, NEW s \in Sides, NEW reset \in BOOLEAN, NEW r \in CancelTop(s, reset), AtVenue(r)
  PROVE  VenueOn /\ AskedOn /\ Follows(desk, r.desk, {o \in Orders : venue'[o] # "live"})
<1>. DEFINE o == desk.top[s]
<1>1. Tidy(desk) /\ o \in Ids /\ venue \in [Orders -> {"unsent", "live", "filled", "dropped", "gone", "refused"}]
  BY DEF PairInv, PairTypes, Tidy, DeskRec
<1>2. CASE o = None
  <2>1. r = [venue |-> venue, asked |-> asked, desk |-> desk, ok |-> TRUE]
    BY <1>2 DEF CancelTop
  <2>2. venue' = venue /\ asked' = asked /\ r.desk = desk
    BY <2>1 DEF AtVenue
  <2>3. Follows(desk, desk, {})
    BY <1>1, LegsAlone DEF Tidy
  <2>. QED
    BY <1>1, <2>2, <2>3 DEF VenueOn, AskedOn, Follows
<1>3. CASE o # None
  <2>0. o \in Orders
    BY <1>1, <1>3 DEF Ids
  <2>1. PICK a \in CancelAnswers(o) :
            /\ r.venue = [venue EXCEPT ![o] = a[1]]
            /\ r.asked = IF a[1] = "live" THEN asked \cup {o} ELSE asked \ {o}
            /\ r.desk \in {GatewayCancel(desk, o, a[2]).desk,
                           [GatewayCancel(desk, o, a[2]).desk EXCEPT !.top[s] = None]}
    <3>. DEFINE Outcome(a) ==
            LET g == GatewayCancel(desk, o, a[2])
            IN [venue |-> [venue EXCEPT ![o] = a[1]],
                asked |-> IF a[1] = "live" THEN asked \cup {o} ELSE asked \ {o},
                desk  |-> IF reset \/ g.ok THEN [g.desk EXCEPT !.top[s] = None] ELSE g.desk,
                ok    |-> g.ok]
    <3>1. CancelTop(s, reset) = {Outcome(a) : a \in CancelAnswers(o)}
      BY <1>3, Zenon DEF CancelTop
    <3>2. PICK a \in CancelAnswers(o) : r = Outcome(a)
      BY <3>1
    <3>. HIDE DEF o
    <3>3. /\ r.venue = [venue EXCEPT ![o] = a[1]]
          /\ r.asked = IF a[1] = "live" THEN asked \cup {o} ELSE asked \ {o}
          /\ r.desk = IF reset \/ GatewayCancel(desk, o, a[2]).ok
                      THEN [GatewayCancel(desk, o, a[2]).desk EXCEPT !.top[s] = None]
                      ELSE GatewayCancel(desk, o, a[2]).desk
      BY <3>2
    <3>. QED
      BY <3>3
  <2>. HIDE DEF o
  <2>2. /\ a[1] = venue[o] \/ (venue[o] = "live" /\ a[1] = "gone")
        /\ a[2] = "benign" => a[1] # "live"
    BY DEF CancelAnswers
  <2>3. /\ venue' = [venue EXCEPT ![o] = a[1]]
        /\ asked' = IF a[1] = "live" THEN asked \cup {o} ELSE asked \ {o}
    BY <2>1 DEF AtVenue
  <2>4. VenueOn /\ AskedOn /\ venue'[o] = a[1]
    BY <1>1, <2>0, <2>2, <2>3 DEF VenueOn, AskedOn
  <2>. DEFINE g == GatewayCancel(desk, o, a[2]).desk
  <2>5. Follows(desk, g, IF a[2] = "benign" THEN {o} ELSE {})
    BY <1>1, <2>0, GatewayAnswered
  <2>. HIDE DEF g
  <2>6. Follows(desk, g, {p \in Orders : venue'[p] # "live"})
    BY <2>0, <2>2, <2>4, <2>5 DEF Follows
  <2>7. Follows(g, [g EXCEPT !.top[s] = None], {})
    <3>1. Tidy(g) /\ g \in DeskRec
      BY <2>5 DEF Follows, Tidy
    <3>2. /\ [g EXCEPT !.top[s] = None] \in DeskRec /\ [g EXCEPT !.top[s] = None].legs = g.legs
          /\ [g EXCEPT !.top[s] = None].pend = g.pend /\ [g EXCEPT !.top[s] = None].queue = g.queue
      BY <3>1 DEF DeskRec, Ids
    <3>3. Calls([g EXCEPT !.top[s] = None]) = Calls(g)
      BY <3>2 DEF Calls
    <3>. QED
      BY <3>1, <3>2, <3>3, LegsAlone
  <2>8. Follows(desk, [g EXCEPT !.top[s] = None], {p \in Orders : venue'[p] # "live"})
    BY <2>6, <2>7 DEF Follows
  <2>. QED
    BY <2>1, <2>4, <2>6, <2>8 DEF g
<1>. QED
  BY <1>2, <1>3

(* A sweep of the book.                                                        *)
LEMMA Swept ==
  ASSUME PairInv, NEW d, NEW n, NEW swept \in Sweeps(d, n), Sweep(swept)
  PROVE  VenueOn /\ AskedOn
<1>1. swept \subseteq Live
  BY DEF Sweeps
<1>. QED
  BY <1>1 DEF Sweep, VenueOn, AskedOn, PairInv, PairTypes, Live
-----------------------------------------------------------------------------
(* The steps of the price feed, of the venue and of the main loop.             *)
LEMMA Unmoved ==
  ASSUME PairInv, UNCHANGED <<venue, asked>>
  PROVE  VenueOn /\ AskedOn
BY DEF PairInv, PairTypes, VenueOn, AskedOn

(* The feed's ticks, the timer's and the scan for answers that are overdue.     *)
LEMMA FeedSteps ==
  ASSUME PairInv, FeedTick \/ Tick \/ Scan
  PROVE  PairInv'
<1>0. Tidy(desk)
  BY DEF PairInv, PairTypes
<1>1. UNCHANGED <<venue, asked, om, work, stack>>
  BY DEF FeedTick, Tick, Scan, AckTimeout
<1>2. VenueOn /\ AskedOn /\ OmOn
  BY <1>1, Unmoved DEF OmOn, PairInv, PairTypes
<1>3. CASE FeedTick
  <2>1. "BUY" \in Sides
    BY DEF Sides
  <2>2. Follows(desk, EnqueueQuote(desk), {})
    BY <1>0, <2>1, WorkQueued
  <2>. QED
    BY <1>1, <1>2, <1>3, <2>2, Elsewhere DEF FeedTick
<1>4. CASE Tick
  <2>1. Follows(desk, desk', {})
    BY <1>0, <1>4, LegsOlder DEF Tick
  <2>. QED
    BY <1>1, <1>2, <2>1, Elsewhere
<1>5. ASSUME NEW o \in Orders, AckTimeout(o)
      PROVE  PairInv'
  <2>. DEFINE l == LegOf(desk, o)
              e == EachLeg(desk, {Side(o)}, LAMBDA k : k.ord = o, LAMBDA k : [k EXCEPT !.retry = TRUE, !.age = 0])
              f == EachLeg(desk, {Side(o)}, LAMBDA k : k.ord = o, Settle)
              g == AfterCancel(f, l.intent, Side(o))
  <2>1. desk' = EnqueueCancel(e, {o}) \/ desk' = Refresh(g)
    BY <1>5 DEF AckTimeout
  <2>2. Follows(desk, EnqueueCancel(e, {o}), {})
    <3>1. Follows(desk, e, {})
      BY <1>0, LegRetried
    <3>. HIDE DEF e
    <3>2. Follows(e, EnqueueCancel(e, {o}), {})
      BY <3>1, CancelsQueued DEF Follows
    <3>. QED
      BY <3>1, <3>2 DEF Follows
  <2>3. Follows(desk, Refresh(g), {})
    <3>1. Follows(desk, f, {})
      BY <1>0, LegSettled
    <3>. HIDE DEF f, l
    <3>2. Follows(f, g, {})
      BY <3>1, WorkQueued, Names DEF Follows
    <3>. HIDE DEF g
    <3>3. Follows(g, Refresh(g), {})
      BY <3>2, Refreshed DEF Follows
    <3>. QED
      BY <3>1, <3>2, <3>3 DEF Follows
  <2>. HIDE DEF e, g
  <2>4. Follows(desk, desk', {})
    BY <2>1, <2>2, <2>3
  <2>. QED
    BY <1>1, <1>2, <2>4, Elsewhere
<1>. QED
  BY <1>3, <1>4, <1>5 DEF Scan

(* The venue fills an order, or drops it.                                       *)
LEMMA VenueSteps ==
  ASSUME PairInv, NEW o \in Orders, VenueFill(o) \/ VenueDrop(o)
  PROVE  PairInv'
<1>1. VenueOn /\ AskedOn
  BY DEF PairInv, PairTypes, VenueFill, VenueDrop, VenueOn, AskedOn
<1>2. OmOn /\ UNCHANGED <<work, stack>>
  BY DEF PairInv, PairTypes, VenueFill, VenueDrop, OmOn
<1>3. Follows(desk, desk', {})
  <2>1. desk' = desk /\ Tidy(desk)
    BY DEF VenueFill, VenueDrop, PairInv, PairTypes
  <2>2. Follows(desk, desk, {})
    BY <2>1, LegsAlone DEF Tidy
  <2>. QED
    BY <2>1, <2>2
<1>. QED
  BY <1>1, <1>2, <1>3, Elsewhere

(* A fill is delivered to the desk.                                             *)
LEMMA DeliverStep ==
  ASSUME PairInv, NEW o \in Orders, ApplyFill(o)
  PROVE  PairInv'
<1>1. Tidy(desk) /\ VenueNet \in Int
  BY Finitely DEF PairInv, PairTypes
<1>2. VenueOn /\ AskedOn /\ Follows(desk, desk', {})
  <2>1. CASE HasOrd(desk, o)
    <3>1. PICK swept \in Sweeps(desk, VenueNet) : Sweep(swept) /\ desk' = ProcessFill(desk, o, VenueNet, swept)
      BY <2>1 DEF ApplyFill
    <3>2. VenueOn /\ AskedOn
      BY <3>1, Swept
    <3>. QED
      BY <1>1, <3>1, <3>2, FillProcessed
  <2>2. CASE ~ HasOrd(desk, o)
    <3>1. desk' = Refresh(desk) /\ UNCHANGED <<venue, asked>>
      BY <2>2 DEF ApplyFill
    <3>. QED
      BY <1>1, <3>1, Unmoved, Refreshed
  <2>. QED
    BY <2>1, <2>2
<1>3. OmOn /\ UNCHANGED <<work, stack>>
  <2>1. venue[o] = "filled" /\ om[o] = "active" /\ om' = [om EXCEPT ![o] = "final"]
        /\ UNCHANGED <<work, stack>>
    BY DEF ApplyFill
  <2>2. venue'[o] = "filled"
    BY <1>2, <2>1 DEF VenueOn
  <2>. QED
    BY <2>1, <2>2 DEF OmOn, PairInv, PairTypes
<1>. QED
  BY <1>2, <1>3, Elsewhere

(* The poll of open orders finds an order gone from the venue.                  *)
LEMMA MissingStep ==
  ASSUME PairInv, NEW o \in Orders, VenueTruthMissing(o)
  PROVE  PairInv'
<1>1. Tidy(desk) /\ VenueNet \in Int
  BY Finitely DEF PairInv, PairTypes
<1>2. VenueOn /\ AskedOn /\ Follows(desk, desk', {})
  <2>1. CASE HasOrd(desk, o) /\ LegOf(desk, o).st = "ADOPTED"
    <3>. DEFINE e(swept) == FillDeskStack(desk, o, VenueNet, swept)
    <3>1. PICK swept \in Sweeps(desk, VenueNet) : Sweep(swept) /\ desk' = OnCancel(e(swept), o)
      BY <2>1 DEF VenueTruthMissing
    <3>2. VenueOn /\ AskedOn
      BY <3>1, Swept
    <3>3. Follows(desk, e(swept), {})
      BY <1>1, FillFound
    <3>. HIDE DEF e
    <3>4. Follows(e(swept), desk', {})
      BY <3>1, <3>3, CancelHandled DEF Follows
    <3>5. Follows(desk, desk', {})
      BY <3>3, <3>4 DEF Follows
    <3>. QED
      BY <3>2, <3>5
  <2>2. CASE ~ (HasOrd(desk, o) /\ LegOf(desk, o).st = "ADOPTED")
    <3>1. desk' = OnCancel(desk, o) /\ UNCHANGED <<venue, asked>>
      BY <2>2 DEF VenueTruthMissing
    <3>. QED
      BY <1>1, <3>1, Unmoved, CancelHandled
  <2>. QED
    BY <2>1, <2>2
<1>3. OmOn /\ UNCHANGED <<work, stack>>
  <2>1. venue[o] \in {"filled", "dropped", "gone"} /\ om[o] = "active" /\ om' = [om EXCEPT ![o] = "final"]
        /\ UNCHANGED <<work, stack>>
    BY DEF VenueTruthMissing
  <2>2. venue'[o] = venue[o]
    BY <1>2, <2>1 DEF VenueOn
  <2>. QED
    BY <2>1, <2>2 DEF OmOn, PairInv, PairTypes
<1>. QED
  BY <1>2, <1>3, Elsewhere
-----------------------------------------------------------------------------
(* The worker takes a job.                                                     *)
LEMMA JobTaken ==
  ASSUME PairInv, desk.queue # <<>>
  PROVE  /\ Tidy(Popped) /\ Popped.pend = desk.pend /\ Booked(Popped) = Booked(desk)
         /\ Awaited(Popped) = Awaited(desk) /\ Pulled(Popped) = Pulled(desk)
         /\ Head(desk.queue) \in JobRec
         /\ Calls(desk) \subseteq Calls(Popped) \cup
              (IF Head(desk.queue).kind = "cancel" THEN Head(desk.queue).ords ELSE {})
<1>1. Tidy(desk) /\ desk.queue \in Seq(JobRec)
  BY DEF PairInv, PairTypes, Tidy, DeskRec
<1>2. Tail(desk.queue) \in Seq(JobRec) /\ Head(desk.queue) \in JobRec
  BY <1>1
<1>3. /\ Popped \in DeskRec /\ Popped.legs = desk.legs /\ Popped.pend = desk.pend
      /\ Popped.queue = Tail(desk.queue)
  BY <1>1, <1>2 DEF Popped, Tidy, DeskRec
<1>4. /\ Booked(Popped) = Booked(desk) /\ Awaited(Popped) = Awaited(desk)
      /\ Pulled(Popped) = Pulled(desk) /\ Tidy(Popped)
  BY <1>1, <1>3 DEF Booked, Awaited, Pulled, Tidy
<1>5. \A i \in DOMAIN desk.queue :
        desk.queue[i] = Head(desk.queue) \/ \E j \in DOMAIN Popped.queue : Popped.queue[j] = desk.queue[i]
  <2>. SUFFICES ASSUME NEW i \in DOMAIN desk.queue, i # 1
                PROVE  \E j \in DOMAIN Popped.queue : Popped.queue[j] = desk.queue[i]
    BY <1>1
  <2>1. i - 1 \in DOMAIN Tail(desk.queue) /\ Tail(desk.queue)[i - 1] = desk.queue[i]
    BY <1>1
  <2>. QED
    BY <1>3, <2>1
<1>6. Calls(desk) \subseteq Calls(Popped) \cup
              (IF Head(desk.queue).kind = "cancel" THEN Head(desk.queue).ords ELSE {})
  BY <1>5 DEF Calls
<1>. QED
  BY <1>2, <1>3, <1>4, <1>6

(* Taking a quoting job off the queue, evicted legs and all, moves the desk on. *)
LEMMA QuoteJobTaken ==
  ASSUME PairInv, desk.queue # <<>>, Head(desk.queue).kind # "cancel"
  PROVE  Follows(desk, Popped, {}) /\ Follows(desk, Evict(Popped), {})
<1>1. Follows(desk, Popped, {})
  BY JobTaken DEF Follows
<1>2. Follows(Popped, Evict(Popped), {})
  <2>. DEFINE e == DropLegs(Popped, Dead(Popped))
  <2>1. Follows(Popped, e, {})
    BY <1>1, LegsDropped DEF Follows
  <2>. HIDE DEF e
  <2>2. Follows(e, Refresh(e), {})
    BY <2>1, Refreshed DEF Follows
  <2>3. Evict(Popped) = Refresh(e)
    BY DEF Evict, e
  <2>. QED
    BY <2>1, <2>2, <2>3 DEF Follows
<1>. QED
  BY <1>1, <1>2 DEF Follows

(* The steps that a job is made of are of their type.                           *)
LEMMA StepFacts ==
  /\ \A k \in QuoteSteps \cup {"answer", "submit", "accept", "track", "cancel"} :
       \A o \in Ids : \A s \in Sides :
         /\ Step(k, o, s) \in StepRec /\ Step(k, o, s).step = k
         /\ Step(k, o, s).ord = o /\ Step(k, o, s).side = s
  /\ None \in Ids /\ "BUY" \in Sides /\ "SELL" \in Sides
BY DEF Step, StepRec, Ids, Sides

(* A quoting job is dropped or begun.                                           *)
LEMMA StartSteps ==
  ASSUME PairInv, DropJob \/ StartQuote \/ StartRequote \/ StartRepeg
  PROVE  PairInv'
<1>0. desk.queue # <<>> /\ work = <<>> /\ Head(desk.queue).kind # "cancel" /\ UNCHANGED <<venue, asked, om>>
  BY DEF DropJob, StartQuote, StartRequote, StartRepeg, Starts
<1>1. VenueOn /\ AskedOn /\ Quoting(work)
  BY <1>0, Unmoved DEF Quoting
<1>2. Follows(desk, Popped, {}) /\ Follows(desk, Evict(Popped), {})
  BY <1>0, QuoteJobTaken
<1>3. Follows(desk, desk', {})
  BY <1>2 DEF DropJob, StartQuote, StartRequote, StartRepeg, Reconcile
<1>4. Quoting(work')
  <2>1. Head(desk.queue).side \in Sides
    BY <1>0, JobTaken DEF JobRec
  <2>2. \A k \in QuoteSteps : \A s \in Sides : Quoting(<<Step(k, None, s)>>)
    BY StepFacts DEF Quoting
  <2>3. \/ work' = work \/ work' = <<Step("decide", None, "BUY")>> \/ work' = <<Step("fresh", None, "BUY")>>
        \/ work' = <<Step("place", None, Head(desk.queue).side)>>
    BY DEF DropJob, StartQuote, StartRequote, StartRepeg, Reconcile
  <2>. QED
    BY <1>1, <2>1, <2>2, <2>3, StepFacts DEF QuoteSteps
<1>5. stack' = "ACTIVE" => stack = "ACTIVE"
  BY DEF DropJob, StartQuote, StartRequote, StartRepeg
<1>. QED
  BY <1>0, <1>1, <1>3, <1>4, <1>5, QuotingStep DEF Follows

(* A cancel job is begun.                                                       *)
LEMMA StartCancelsStep ==
  ASSUME PairInv, StartCancels
  PROVE  PairInv'
<1>. DEFINE ords == Head(desk.queue).ords
            n == Cardinality(ords)
<1>0. desk.queue # <<>> /\ work = <<>> /\ Head(desk.queue).kind = "cancel" /\ UNCHANGED <<venue, asked, om, stack>>
      /\ desk' = Popped /\ work' = [i \in 1 .. n |-> Step("cancel", SetToSeq(ords)[i], "BUY")]
  BY DEF StartCancels, Starts
<1>1. /\ Tidy(desk') /\ desk'.pend = desk.pend /\ Booked(desk') = Booked(desk)
      /\ Awaited(desk') = Awaited(desk) /\ Pulled(desk') = Pulled(desk)
      /\ ords \in SUBSET Orders /\ Calls(desk) \subseteq Calls(desk') \cup ords
  BY <1>0, JobTaken DEF JobRec
<1>. HIDE DEF ords
<1>2. IsFiniteSet(ords)
  BY <1>1, Finitely, FS_Subset
<1>3. /\ n \in Nat /\ \A i \in 1 .. n : SetToSeq(ords)[i] \in Orders
      /\ \A x \in ords : \E i \in 1 .. n : SetToSeq(ords)[i] = x
  BY <1>1, <1>2, SetSequence
<1>4. \A i \in 1 .. n : /\ work'[i] \in StepRec /\ work'[i].step = "cancel"
                        /\ work'[i].ord = SetToSeq(ords)[i]
  <2>. SUFFICES ASSUME NEW i \in 1 .. n
                PROVE  /\ work'[i] \in StepRec /\ work'[i].step = "cancel"
                       /\ work'[i].ord = SetToSeq(ords)[i]
    OBVIOUS
  <2>. DEFINE p == SetToSeq(ords)[i]
  <2>1. p \in Ids /\ work'[i] = Step("cancel", p, "BUY")
    BY <1>0, <1>3 DEF Ids
  <2>. HIDE DEF p
  <2>2. /\ Step("cancel", p, "BUY") \in StepRec /\ Step("cancel", p, "BUY").step = "cancel"
        /\ Step("cancel", p, "BUY").ord = p
    BY <2>1 DEF Step, StepRec, Sides
  <2>. QED
    BY <2>1, <2>2 DEF p
<1>. HIDE DEF n
<1>5. work' \in Seq(StepRec) /\ DOMAIN work' = 1 .. n
  <2>1. \A i \in 1 .. n : Step("cancel", SetToSeq(ords)[i], "BUY") \in StepRec
    BY <1>3, StepFacts DEF Ids
  <2>. QED
    BY <1>0, <1>3, <2>1
<1>6. Smaller(work, work') /\ \A i \in DOMAIN work' : ~ Waiting(work'[i])
  BY <1>3, <1>4, <1>5 DEF Smaller, WorkOK, Waiting
<1>7. ords \subseteq Sending(work')
  BY <1>1, <1>3, <1>4, <1>5 DEF Sending
<1>8. desk'.pend = Cardinality(Waits(work'))
  <2>1. Cardinality(Waits(work')) = 0
    BY <1>5, <1>6, NoneWaits
  <2>2. Cardinality(Waits(work)) = 0
    <3>1. Quoting(work)
      BY <1>0 DEF Quoting
    <3>. QED
      BY <3>1, QuotingFacts
  <2>. QED
    BY <1>1, <2>1, <2>2 DEF PairInv, PendOK
<1>9. VenueOn /\ AskedOn /\ OmOn
  BY <1>0, Unmoved DEF OmOn, PairInv, PairTypes
<1>10. CoverOK'
  <2>1. Sending(work) = {}
    BY <1>0 DEF Sending
  <2>. QED
    BY <1>0, <1>1, <1>7, <1>9, <2>1, StillCovered
<1>. QED
  BY <1>0, <1>1, <1>6, <1>8, <1>9, <1>10, QuietStep
-----------------------------------------------------------------------------
(* The steps of a quote.                                                       *)
LEMMA StayFollows ==
  ASSUME PairInv
  PROVE  Follows(desk, desk, {})
BY LegsAlone DEF PairInv, PairTypes, Tidy

(* A price that moved pulls the pair; otherwise the cycle goes on.              *)
LEMMA DecideStep ==
  ASSUME PairInv, Decide
  PROVE  PairInv'
<1>1. work # <<>> /\ Head(work).step \in QuoteSteps
  BY DEF Decide, At, QuoteSteps
<1>2. Quoting(work) /\ Quoting(Tail(work)) /\ \A x \in StepRec : x.step \in QuoteSteps => Quoting(<<x>>)
  BY <1>1, QuotingTail
<1>3. UNCHANGED <<venue, asked, om, stack>>
  BY DEF Decide
<1>4. VenueOn /\ AskedOn
  BY <1>3, Unmoved
<1>. DEFINE other == AdoptedOn(desk, Sides)
            e == EachLeg(desk, Sides, Adopted, LAMBDA l : AskCancel(l, "TheoMove"))
<1>5. Follows(desk, EnqueueCancel(e, other), {})
  <2>1. Tidy(desk)
    BY DEF PairInv, PairTypes
  <2>2. other = Resting(desk, Sides) /\ other \in SUBSET Orders
    BY <2>1, RestingLegs DEF Resting
  <2>3. Follows(desk, e, other)
    BY <2>1, <2>2, RestAsked
  <2>. HIDE DEF e, other
  <2>4. Follows(e, EnqueueCancel(e, other), {}) /\ other \subseteq Calls(EnqueueCancel(e, other))
    BY <2>2, <2>3, CancelsQueued DEF Follows
  <2>. QED
    BY <2>3, <2>4, FollowsCalled
<1>6. (desk' = EnqueueCancel(e, other) /\ work' = Tail(work))
      \/ (desk' = desk /\ work' = <<Step("cycle", None, "BUY")>>)
  BY DEF Decide
<1>. HIDE DEF e, other
<1>7. Quoting(work')
  <2>1. Step("cycle", None, "BUY") \in StepRec /\ Step("cycle", None, "BUY").step \in QuoteSteps
    BY DEF Step, StepRec, QuoteSteps, Ids, Sides
  <2>. QED
    BY <1>2, <1>6, <2>1
<1>8. Follows(desk, desk', {})
  BY <1>5, <1>6, StayFollows
<1>. QED
  BY <1>2, <1>3, <1>4, <1>7, <1>8, QuotingStep DEF Follows

(* The position that is taken over.                                            *)
LEMMA MismatchStep ==
  ASSUME PairInv, work # <<>>, Head(work).step \in QuoteSteps, Mismatch(VenueNet), UNCHANGED <<om, stack>>
  PROVE  PairInv'
<1>1. Quoting(work) /\ Quoting(Tail(work))
  BY QuotingTail
<1>2. VenueNet \in Int /\ Tidy(desk) /\ desk.net \in Int
  BY Finitely DEF PairInv, PairTypes, Tidy, DeskRec
<1>3. Grow(VenueNet) \in Sides /\ Larger(VenueNet, desk.net) \in Int
  BY <1>2 DEF Grow, Sides, Larger
<1>4. work' = Tail(work)
  BY DEF Mismatch
<1>5. VenueOn /\ AskedOn /\ Follows(desk, desk', {o \in Orders : venue'[o] # "live"})
  <2>. DEFINE n == Larger(VenueNet, desk.net)
              X == {o \in Orders : venue'[o] # "live"}
  <2>1. CASE Mag(VenueNet) > Mag(desk.net)
    <3>1. PICK r \in CancelTop(Grow(VenueNet), FALSE) : AtVenue(r) /\ desk' = [r.desk EXCEPT !.net = n]
      BY <2>1 DEF Mismatch
    <3>2. VenueOn /\ AskedOn /\ Follows(desk, r.desk, X)
      BY <1>3, <3>1, TopCancelled
    <3>. HIDE DEF n
    <3>3. Follows(r.desk, desk', {})
      BY <1>3, <3>1, <3>2, NetSet DEF Follows, n
    <3>. QED
      BY <3>2, <3>3 DEF Follows
  <2>2. CASE ~ (Mag(VenueNet) > Mag(desk.net))
    <3>1. desk' = [desk EXCEPT !.net = n] /\ UNCHANGED <<venue, asked>>
      BY <2>2 DEF Mismatch
    <3>2. VenueOn /\ AskedOn
      BY <3>1, Unmoved
    <3>. HIDE DEF n
    <3>3. Follows(desk, desk', {})
      BY <1>2, <1>3, <3>1, NetSet DEF n
    <3>. QED
      BY <3>2, <3>3 DEF Follows
  <2>. QED
    BY <2>1, <2>2
<1>. QED
  BY <1>1, <1>4, <1>5, QuotingStep

(* The plan of a cycle.                                                        *)
LEMMA BidFirstSides ==
  ASSUME NEW S
  PROVE  /\ BidFirst(S) \in Seq(Sides) /\ \A i \in DOMAIN BidFirst(S) : BidFirst(S)[i] \in Sides
         /\ DOMAIN BidFirst(S) = 1 .. Len(BidFirst(S)) /\ Len(BidFirst(S)) \in Nat
<1>. DEFINE a == IF "BUY" \in S THEN <<"BUY">> ELSE <<>>
            b == IF "SELL" \in S THEN <<"SELL">> ELSE <<>>
<1>0. a \in Seq(Sides) /\ b \in Seq(Sides)
  <2>1. "BUY" \in Sides /\ "SELL" \in Sides
    BY DEF Sides
  <2>2. <<"BUY">> \in Seq(Sides) /\ <<"SELL">> \in Seq(Sides) /\ <<>> \in Seq(Sides)
    BY <2>1
  <2>. QED
    BY <2>2
<1>. HIDE DEF a, b
<1>1. BidFirst(S) \in Seq(Sides)
  <2>1. a \o b \in Seq(Sides)
    BY <1>0
  <2>. QED
    BY <2>1 DEF BidFirst, a, b
<1>. QED
  BY <1>1

(* Two quoting jobs in a row are a quoting job.                                 *)
LEMMA QuotingConcat ==
  ASSUME NEW u, NEW v, Quoting(u), Quoting(v)
  PROVE  Quoting(u \o v)
<1>1. u \in Seq(StepRec) /\ v \in Seq(StepRec)
  BY DEF Quoting
<1>2. u \o v \in Seq(StepRec)
  BY <1>1
<1>3. ASSUME NEW i \in DOMAIN (u \o v)
      PROVE  (\E j \in DOMAIN u : (u \o v)[i] = u[j]) \/ (\E j \in DOMAIN v : (u \o v)[i] = v[j])
  <2>1. CASE i <= Len(u)
    BY <1>1, <2>1
  <2>2. CASE i > Len(u)
    <3>1. i - Len(u) \in DOMAIN v /\ (u \o v)[i] = v[i - Len(u)]
      BY <1>1, <2>2
    <3>. QED
      BY <3>1
  <2>. QED
    BY <1>1, <2>1, <2>2
<1>. QED
  BY <1>2, <1>3 DEF Quoting

(* What the cycle plans is a quoting job.                                       *)
LEMMA PlanQuotes ==
  ASSUME PairInv, NEW W
  PROVE  Quoting(Plan(W))
<1>. DEFINE All(k, S) == [i \in DOMAIN BidFirst(S) |-> Step(k, None, BidFirst(S)[i])]
            a == All("drop", Sides \ Wanted(desk.net))
            b == IF AtCap(desk.net) THEN All("clean", {Opp(Grow(desk.net))}) ELSE <<>>
            c == All("replace", W)
<1>1. ASSUME NEW k \in QuoteSteps, NEW S
      PROVE  Quoting(All(k, S))
  <2>1. \A i \in DOMAIN BidFirst(S) : Step(k, None, BidFirst(S)[i]) \in StepRec
                                   /\ Step(k, None, BidFirst(S)[i]).step = k
    BY BidFirstSides, StepFacts
  <2>2. All(k, S) \in Seq(StepRec)
    BY <2>1, BidFirstSides
  <2>. QED
    BY <2>1, <2>2 DEF Quoting
<1>2. Quoting(a) /\ Quoting(b) /\ Quoting(c)
  <2>1. Quoting(<<>>)
    BY DEF Quoting
  <2>2. "drop" \in QuoteSteps /\ "clean" \in QuoteSteps /\ "replace" \in QuoteSteps
    BY DEF QuoteSteps
  <2>. HIDE DEF All
  <2>. QED
    BY <1>1, <2>1, <2>2
<1>3. Plan(W) = a \o b \o c
  BY DEF Plan
<1>. HIDE DEF a, b, c
<1>4. Quoting(a \o b)
  BY <1>2, QuotingConcat
<1>. QED
  BY <1>2, <1>3, <1>4, QuotingConcat

(* The cycle gives up, takes over a position, or plans.                         *)
LEMMA CycleStep ==
  ASSUME PairInv, Cycle
  PROVE  PairInv'
<1>1. work # <<>> /\ Head(work).step \in QuoteSteps /\ UNCHANGED <<om, stack>>
  BY DEF Cycle, At, QuoteSteps
<1>2. CASE Mismatch(VenueNet)
  BY <1>1, <1>2, MismatchStep
<1>3. CASE UNCHANGED <<venue, asked, desk>> /\ (work' = <<>> \/ \E W \in SUBSET Wanted(desk.net) : work' = Plan(W))
  <2>1. Quoting(work) /\ VenueOn /\ AskedOn
    BY <1>1, <1>3, QuotingTail, Unmoved
  <2>2. Quoting(work')
    <3>1. Quoting(<<>>)
      BY DEF Quoting
    <3>. QED
      BY <1>3, <3>1, PlanQuotes
  <2>3. Follows(desk, desk', {})
    BY <1>3, StayFollows
  <2>. QED
    BY <1>1, <2>1, <2>2, <2>3, QuotingStep DEF Follows
<1>. QED
  BY <1>2, <1>3 DEF Cycle

(* The steps that cancel at the gateway.                                        *)
LEMMA TopSteps ==
  ASSUME PairInv, Drop \/ Clean \/ Replace
  PROVE  PairInv'
<1>1. work # <<>> /\ Head(work).step \in QuoteSteps /\ UNCHANGED <<om, stack>>
  BY DEF Drop, Clean, Replace, At, QuoteSteps
<1>2. /\ Quoting(work) /\ Quoting(Tail(work)) /\ Head(work).side \in Sides
      /\ \A x \in StepRec : x.step \in QuoteSteps => Quoting(<<x>> \o Tail(work))
  BY <1>1, QuotingTail
<1>3. PICK reset \in BOOLEAN : \E r \in CancelTop(Head(work).side, reset) : AtVenue(r) /\ desk' = r.desk
  BY DEF Drop, Clean, Replace
<1>4. VenueOn /\ AskedOn /\ Follows(desk, desk', {o \in Orders : venue'[o] # "live"})
  BY <1>2, <1>3, TopCancelled
<1>5. Quoting(work')
  <2>1. \A k \in {"scrub", "wanted"} :
          /\ Step(k, None, Head(work).side) \in StepRec /\ Step(k, None, Head(work).side).step \in QuoteSteps
    BY <1>2 DEF Step, StepRec, QuoteSteps, Ids
  <2>2. \/ work' = Tail(work)
        \/ work' = <<Step("scrub", None, Head(work).side)>> \o Tail(work)
        \/ work' = <<Step("wanted", None, Head(work).side)>> \o Tail(work)
    BY DEF Drop, Clean, Replace
  <2>. QED
    BY <1>2, <2>1, <2>2
<1>. QED
  BY <1>1, <1>2, <1>4, <1>5, QuotingStep

(* What is left on a side is swept.                                             *)
LEMMA ScrubStep ==
  ASSUME PairInv, Scrub
  PROVE  PairInv'
<1>1. work # <<>> /\ Head(work).step \in QuoteSteps /\ UNCHANGED <<om, stack>>
  BY DEF Scrub, At, QuoteSteps
<1>2. Quoting(work) /\ Quoting(Tail(work)) /\ Quoting(<<>>)
  BY <1>1, QuotingTail DEF Quoting
<1>3. PICK swept \in Sweeps(desk, desk.net) : Sweep(swept) /\ desk' = DropLegs(desk, swept)
  BY DEF Scrub
<1>4. VenueOn /\ AskedOn /\ Follows(desk, desk', {})
  BY <1>3, Swept, LegsDropped DEF PairInv, PairTypes
<1>5. Quoting(work')
  BY <1>2 DEF Scrub
<1>. QED
  BY <1>1, <1>2, <1>4, <1>5, QuotingStep DEF Follows

(* The check that the leg is still wanted.                                      *)
LEMMA WantedStep ==
  ASSUME PairInv, StillWanted
  PROVE  PairInv'
<1>1. work # <<>> /\ Head(work).step \in QuoteSteps /\ UNCHANGED <<venue, asked, desk, om, stack>>
  BY DEF StillWanted, At, QuoteSteps
<1>2. /\ Quoting(work) /\ Quoting(Tail(work)) /\ Head(work).side \in Sides
      /\ \A x \in StepRec : x.step \in QuoteSteps => Quoting(<<x>> \o Tail(work))
  BY <1>1, QuotingTail
<1>3. Quoting(work')
  <2>1. /\ Step("place", None, Head(work).side) \in StepRec
        /\ Step("place", None, Head(work).side).step \in QuoteSteps
    BY <1>2 DEF Step, StepRec, QuoteSteps, Ids
  <2>. QED
    BY <1>2, <2>1 DEF StillWanted
<1>. QED
  BY <1>1, <1>2, <1>3, Unmoved, StayFollows, QuotingStep DEF Follows

(* The check of the venue's position just before placing.                       *)
LEMMA FreshStep ==
  ASSUME PairInv, Fresh
  PROVE  PairInv'
<1>1. work # <<>> /\ Head(work).step \in QuoteSteps /\ UNCHANGED <<om, stack>>
  BY DEF Fresh, At, QuoteSteps
<1>2. CASE Mismatch(VenueNet)
  BY <1>1, <1>2, MismatchStep
<1>3. CASE UNCHANGED <<venue, asked, desk>>
           /\ (\/ work' = <<>>
               \/ work' = (IF AtCap(desk.net) THEN <<Step("clean", None, Opp(Grow(desk.net)))>> ELSE <<>>)
                    \o <<Step("forget", None, "BUY")>>)
  <2>1. Quoting(work) /\ VenueOn /\ AskedOn
    BY <1>1, <1>3, QuotingTail, Unmoved
  <2>2. Grow(desk.net) \in Sides
    BY DEF Grow, Sides
  <2>. DEFINE x == Step("clean", None, Opp(Grow(desk.net)))
              y == Step("forget", None, "BUY")
  <2>3. x \in StepRec /\ y \in StepRec /\ x.step \in QuoteSteps /\ y.step \in QuoteSteps
    <3>1. \A s \in Sides : \A k \in QuoteSteps : Step(k, None, s) \in StepRec /\ Step(k, None, s).step = k
      BY StepFacts
    <3>2. "clean" \in QuoteSteps /\ "forget" \in QuoteSteps /\ "BUY" \in Sides /\ Opp(Grow(desk.net)) \in Sides
      BY <2>2, Names DEF QuoteSteps, Sides
    <3>. QED
      BY <3>1, <3>2
  <2>. HIDE DEF x, y
  <2>4. work' = <<>> \/ work' = (IF AtCap(desk.net) THEN <<x>> ELSE <<>>) \o <<y>>
    BY <1>3 DEF x, y
  <2>5. Quoting(work')
    <3>1. Quoting(<<>>) /\ Quoting(<<x>>) /\ Quoting(<<y>>)
      BY <2>3 DEF Quoting
    <3>2. Quoting(IF AtCap(desk.net) THEN <<x>> ELSE <<>>)
      BY <3>1
    <3>. QED
      BY <2>4, <3>1, <3>2, QuotingConcat
  <2>6. Follows(desk, desk', {})
    BY <1>3, StayFollows
  <2>. QED
    BY <1>1, <2>1, <2>5, <2>6, QuotingStep DEF Follows
<1>. QED
  BY <1>2, <1>3 DEF Fresh
-----------------------------------------------------------------------------
(* What is left of a job.                                                      *)
LEMMA TailFacts ==
  ASSUME PairInv, work # <<>>
  PROVE  /\ Smaller(work, Tail(work)) /\ Head(work) = work[1] /\ Head(work) \in StepRec /\ 1 \in DOMAIN work
         /\ \A i \in DOMAIN Tail(work) : Tail(work)[i].step \notin {"answer", "accept"}
         /\ \A o \in Sending(work) : o \in Sending(Tail(work)) \/ (Head(work).step = "cancel" /\ Head(work).ord = o)
         /\ desk.pend = Cardinality(Waits(Tail(work))) + (IF Waiting(Head(work)) THEN 1 ELSE 0)
<1>. DEFINE v == Tail(work)
<1>1. /\ work \in Seq(StepRec) /\ Head(work) = work[1] /\ 1 \in DOMAIN work /\ Head(work) \in StepRec
      /\ v \in Seq(StepRec) /\ DOMAIN v = 1 .. Len(v) /\ Len(v) \in Nat /\ DOMAIN work = 1 .. (Len(v) + 1)
      /\ \A i \in DOMAIN v : v[i] = work[i + 1] /\ i + 1 \in DOMAIN work /\ i + 1 # 1
  BY DEF PairInv, PairTypes
<1>2. /\ Cardinality(Waits(v)) = Cardinality(Waits(work)) - (IF Waiting(work[1]) THEN 1 ELSE 0)
      /\ Cardinality(Waits(v)) \in Nat /\ Cardinality(Waits(work)) \in Nat
  BY <1>1, WaitsTail, WaitsCount
<1>. HIDE DEF v
<1>3. WorkOK(v) /\ \A i \in DOMAIN v : v[i].step \notin {"answer", "accept"}
  <2>1. CASE \A i \in DOMAIN work : work[i].step = "cancel" /\ work[i].ord \in Orders
    BY <1>1, <2>1 DEF WorkOK
  <2>2. CASE \A i \in DOMAIN work : work[i].step \in QuoteSteps \/ (work[i].step = "answer" /\ i = 1)
    <3>1. \A i \in DOMAIN v : v[i].step \in QuoteSteps
      BY <1>1, <2>2
    <3>. QED
      BY <3>1 DEF WorkOK, QuoteSteps
  <2>3. CASE \A i \in DOMAIN work : \/ work[i].step = "submit"
                                    \/ work[i].step \in {"accept", "track"} /\ i = 1
                                    \/ work[i].step = "track" /\ i = 2 /\ work[1].step = "accept"
    <3>1. \A i \in DOMAIN v : v[i].step = "submit" \/ (v[i].step = "track" /\ i = 1)
      BY <1>1, <2>3
    <3>. QED
      BY <3>1 DEF WorkOK
  <2>. QED
    BY <2>1, <2>2, <2>3 DEF PairInv, WorkOK
<1>4. Smaller(work, v)
  BY <1>1, <1>3 DEF Smaller
<1>5. \A o \in Sending(work) : o \in Sending(v) \/ (Head(work).step = "cancel" /\ Head(work).ord = o)
  <2>. SUFFICES ASSUME NEW o \in Sending(work), NEW i \in DOMAIN work, work[i].step = "cancel", work[i].ord = o, i # 1
                PROVE  o \in Sending(v)
    BY <1>1 DEF Sending
  <2>1. i - 1 \in DOMAIN v /\ v[i - 1] = work[(i - 1) + 1] /\ (i - 1) + 1 = i
    BY <1>1
  <2>. QED
    BY <2>1 DEF Sending
<1>. QED
  BY <1>1, <1>2, <1>3, <1>4, <1>5 DEF PairInv, PendOK, v

(* An order is sent.                                                           *)
LEMMA SentStep ==
  ASSUME PairInv, NEW o \in Orders, venue[o] = "unsent", SendOrder(o), UNCHANGED <<asked, om, stack>>,
         Tidy(desk'), Booked(desk') \subseteq Booked(desk), Awaited(desk') \subseteq Awaited(desk) \cup {o},
         Pulled(desk') \subseteq Pulled(desk), Calls(desk) \subseteq Calls(desk'),
         desk'.pend = Cardinality(Waits(work')),
         work' \in Seq(StepRec), WorkOK(work'), Sending(work) \subseteq Sending(work'),
         \A i \in DOMAIN work' : /\ work'[i].step \in {"answer", "accept", "track"} => work'[i].ord = o
                                 /\ work'[i].step = "track" => o \notin Awaited(desk')
  PROVE  PairInv'
<1>1. /\ venue' \in [Orders -> {"unsent", "live", "filled", "dropped", "gone", "refused"}]
      /\ venue'[o] \in {"live", "refused"} /\ \A p \in Orders : p # o => venue'[p] = venue[p]
  BY DEF SendOrder, PairInv, PairTypes
<1>2. PairTypes' /\ WorkOK(work') /\ PendOK'
  BY <1>1 DEF PairInv, PairTypes, PendOK
<1>3. om[o] = "none"
  BY DEF PairInv, SentOK
<1>4. SentOK'
  <2>1. \A p \in Orders : /\ venue'[p] = "unsent" => om'[p] = "none"
                          /\ om'[p] = "final" => venue'[p] \notin {"unsent", "live"}
    BY <1>1, <1>3 DEF PairInv, SentOK
  <2>2. \A p \in Booked(desk') : om'[p] # "none"
    BY DEF PairInv, SentOK
  <2>3. \A p \in Awaited(desk') : venue'[p] # "unsent"
    BY <1>1 DEF PairInv, SentOK, Awaited
  <2>4. \A i \in DOMAIN work' :
          /\ work'[i].step \in {"answer", "accept"} =>
               work'[i].ord \in Orders /\ om'[work'[i].ord] = "none" /\ venue'[work'[i].ord] # "unsent"
          /\ work'[i].step = "track" =>
               work'[i].ord \in Orders /\ venue'[work'[i].ord] # "unsent" /\ work'[i].ord \notin Awaited(desk')
    BY <1>1, <1>3
  <2>. QED
    BY <2>1, <2>2, <2>3, <2>4 DEF SentOK
<1>5. CoverOK'
  <2>. SUFFICES ASSUME stack = "ACTIVE", NEW p \in Pulled(desk'), p \in Orders, venue'[p] = "live"
                PROVE  p \in asked \cup Calls(desk') \cup Sending(work')
    BY DEF CoverOK, Live
  <2>1. p \in Booked(desk)
    BY DEF Pulled, Booked
  <2>2. p # o /\ venue[p] = "live"
    BY <1>1, <1>3, <2>1 DEF PairInv, SentOK
  <2>. QED
    BY <2>2 DEF PairInv, CoverOK, Live
<1>. QED
  BY <1>2, <1>4, <1>5 DEF PairInv

(* Pushing steps on a job.                                                     *)
LEMMA PushFacts ==
  ASSUME NEW w \in Seq(StepRec), NEW x \in StepRec
  PROVE  /\ <<x>> \o w \in Seq(StepRec) /\ (<<x>> \o w)[1] = x
         /\ \A i \in DOMAIN (<<x>> \o w) : i = 1 \/ (i - 1 \in DOMAIN w /\ (<<x>> \o w)[i] = w[i - 1])
         /\ \A i \in DOMAIN w : i + 1 \in DOMAIN (<<x>> \o w) /\ (<<x>> \o w)[i + 1] = w[i]
         /\ Sending(w) \subseteq Sending(<<x>> \o w)
<1>1. /\ <<x>> \o w \in Seq(StepRec) /\ (<<x>> \o w)[1] = x
      /\ \A i \in DOMAIN (<<x>> \o w) : i = 1 \/ (i - 1 \in DOMAIN w /\ (<<x>> \o w)[i] = w[i - 1])
      /\ \A i \in DOMAIN w : i + 1 \in DOMAIN (<<x>> \o w) /\ (<<x>> \o w)[i + 1] = w[i]
  OBVIOUS
<1>2. Sending(w) \subseteq Sending(<<x>> \o w)
  BY <1>1 DEF Sending
<1>. QED
  BY <1>1, <1>2

(* An order is sent and its answer awaited.                                     *)
LEMMA PlaceAction ==
  ASSUME PairInv, Place
  PROVE  PairInv'
<1>. DEFINE s == Head(work).side
            o == NextOrder(s)
            x == Step("answer", o, s)
<1>1. work # <<>> /\ Head(work).step \in QuoteSteps /\ UNCHANGED <<asked, om, stack>>
  BY DEF Place, At, QuoteSteps
<1>2. Quoting(work) /\ Quoting(Tail(work)) /\ s \in Sides
  BY <1>1, QuotingTail
<1>3. Tidy(desk)
  BY DEF PairInv, PairTypes
<1>4. CASE GateOpen(s)
  <2>1. /\ SendOrder(o) /\ desk' = Reserve(desk, s, o) /\ work' = <<x>> \o Tail(work)
    BY <1>4 DEF Place
  <2>2. o \in Orders /\ Side(o) = s /\ venue[o] = "unsent"
    BY <1>2, <1>4, NextIsUnsent DEF GateOpen
  <2>. HIDE DEF o, s
  <2>3. o \in Ids /\ o \notin Awaited(desk) /\ {o} \cap Orders = {o}
    BY <2>2 DEF Ids, PairInv, SentOK
  <2>4. /\ Tidy(desk') /\ desk'.pend = desk.pend + 1 /\ Calls(desk') = Calls(desk)
        /\ Booked(desk') \subseteq Booked(desk) /\ Pulled(desk') \subseteq Pulled(desk)
        /\ Awaited(desk') \subseteq Awaited(desk) \cup {o}
    BY <1>2, <1>3, <2>1, <2>2, <2>3, LegReserved
  <2>5. x \in StepRec /\ x.step = "answer" /\ x.ord = o
    BY <1>2, <2>3 DEF Step, StepRec
  <2>. HIDE DEF x
  <2>. DEFINE v == Tail(work)
  <2>6. v \in Seq(StepRec) /\ \A i \in DOMAIN v : v[i].step \in QuoteSteps
    BY <1>2 DEF Quoting
  <2>7. Cardinality(Waits(work)) = 0 /\ Cardinality(Waits(v)) = 0 /\ Sending(work) = {}
    BY <1>2, QuotingFacts
  <2>. HIDE DEF v
  <2>8. work' \in Seq(StepRec) /\ work'[1] = x /\ \A i \in DOMAIN work' : i = 1 \/ work'[i].step \in QuoteSteps
    <3>1. /\ work' \in Seq(StepRec) /\ work'[1] = x
          /\ \A i \in DOMAIN work' : i = 1 \/ (i - 1 \in DOMAIN v /\ work'[i] = v[i - 1])
      BY <2>1, <2>5, <2>6, PushFacts DEF v
    <3>. QED
      BY <2>6, <3>1
  <2>9. desk'.pend = Cardinality(Waits(work'))
    <3>1. Cardinality(Waits(work')) = Cardinality(Waits(v)) + (IF Waiting(x) THEN 1 ELSE 0)
      BY <2>1, <2>5, <2>6, WaitsPush DEF v
    <3>2. Waiting(x)
      BY <2>5 DEF Waiting
    <3>. QED
      BY <2>4, <2>7, <3>1, <3>2 DEF PairInv, PendOK
  <2>10. WorkOK(work')
    BY <2>5, <2>8 DEF WorkOK
  <2>11. \A i \in DOMAIN work' : /\ work'[i].step \in {"answer", "accept", "track"} => work'[i].ord = o
                                 /\ work'[i].step # "track"
    BY <2>5, <2>8 DEF QuoteSteps
  <2>. QED
    BY <1>1, <2>1, <2>2, <2>4, <2>7, <2>8, <2>9, <2>10, <2>11, SentStep
<1>5. CASE ~ GateOpen(s)
  <2>1. /\ desk' = Unpend(EachLeg(Reserve(desk, s, None), {s},
                              LAMBDA l : l.st = "PLACE_PENDING" /\ l.cid = None, Settled))
        /\ work' = Tail(work) /\ UNCHANGED venue
    BY <1>5 DEF Place
  <2>2. VenueOn /\ AskedOn
    BY <1>1, <2>1, Unmoved
  <2>. HIDE DEF s
  <2>3. Follows(desk, desk', {})
    BY <1>2, <1>3, <2>1, GateClosed
  <2>. QED
    BY <1>1, <1>2, <2>1, <2>2, <2>3, QuotingStep DEF Follows
<1>. QED
  BY <1>4, <1>5

(* An answer comes.                                                            *)
LEMMA AnswerSteps ==
  ASSUME PairInv, Answer \/ Accept
  PROVE  PairInv'
<1>. DEFINE o == Head(work).ord
<1>1. /\ work # <<>> /\ Head(work).step \in {"answer", "accept"} /\ Answered(o, venue[o] # "refused")
      /\ work' = Tail(work) /\ UNCHANGED <<venue, asked, stack>>
  BY DEF Answer, Accept, At
<1>2. /\ Smaller(work, work') /\ \A i \in DOMAIN work' : work'[i].step \notin {"answer", "accept"}
      /\ Sending(work) \subseteq Sending(work') /\ desk.pend = Cardinality(Waits(work')) + 1
      /\ Head(work) = work[1] /\ 1 \in DOMAIN work
  <2>1. Waiting(Head(work)) /\ Head(work).step # "cancel"
    BY <1>1 DEF Waiting
  <2>. QED
    BY <1>1, <2>1, TailFacts
<1>3. o \in Orders /\ om[o] = "none" /\ venue[o] # "unsent"
  BY <1>1, <1>2 DEF PairInv, SentOK
<1>4. o \notin Booked(desk) /\ Tidy(desk)
  BY <1>3 DEF PairInv, PairTypes, SentOK
<1>. HIDE DEF o
<1>5. Cardinality(Waits(work')) \in Nat
  BY <1>2, WaitsCount DEF Smaller
<1>6. /\ Tidy(Unpend(desk)) /\ Unpend(desk).pend = Cardinality(Waits(work'))
      /\ Booked(Unpend(desk)) = Booked(desk) /\ Awaited(Unpend(desk)) = Awaited(desk)
      /\ Calls(Unpend(desk)) = Calls(desk) /\ Pulled(Unpend(desk)) = Pulled(desk)
  <2>1. Unpend(desk) = [desk EXCEPT !.pend = Cardinality(Waits(work'))]
    BY <1>2, <1>5 DEF Unpend
  <2>. QED
    BY <1>4, <1>5, <2>1, PendSet
<1>7. /\ Tidy(desk') /\ desk'.pend = Cardinality(Waits(work'))
      /\ Awaited(desk') \subseteq Awaited(desk) /\ Calls(desk) \subseteq Calls(desk')
      /\ Pulled(desk') \subseteq Pulled(desk) \cup Calls(desk')
      /\ \/ om' = [om EXCEPT ![o] = "active"] /\ Booked(desk') \subseteq Booked(desk) \cup {o}
         \/ om' = [om EXCEPT ![o] = "final"] /\ venue[o] = "refused" /\ Booked(desk') \subseteq Booked(desk)
  <2>1. CASE venue[o] # "refused"
    <3>1. om' = [om EXCEPT ![o] = "active"] /\ desk' = OnAccept(desk, o)
      BY <1>1, <2>1 DEF Answered
    <3>. QED
      BY <1>3, <1>4, <1>6, <3>1, AcceptHandled
  <2>2. CASE venue[o] = "refused"
    <3>1. om' = [om EXCEPT ![o] = "final"]
      BY <1>1, <2>2 DEF Answered
    <3>2. PICK margin \in BOOLEAN : desk' = OnReject(desk, o, margin)
      BY <1>1, <2>2 DEF Answered
    <3>3. Follows(Unpend(desk), desk', {})
      BY <1>3, <1>4, <3>2, RejectHandled
    <3>. QED
      BY <1>6, <2>2, <3>1, <3>3 DEF Follows
  <2>. QED
    BY <2>1, <2>2
<1>8. /\ om' \in [Orders -> {"none", "active", "final"}] /\ \A p \in Orders : p # o => om'[p] = om[p]
      /\ om'[o] = "active" \/ (om'[o] = "final" /\ venue[o] = "refused")
  BY <1>3, <1>7 DEF PairInv, PairTypes
<1>9. PairTypes' /\ WorkOK(work') /\ PendOK'
  BY <1>1, <1>2, <1>7, <1>8 DEF PairInv, PairTypes, Smaller, PendOK
<1>10. SentOK'
  <2>1. \A p \in Orders : /\ venue'[p] = "unsent" => om'[p] = "none"
                          /\ om'[p] = "final" => venue'[p] \notin {"unsent", "live"}
    BY <1>1, <1>3, <1>8 DEF PairInv, SentOK
  <2>2. \A p \in Booked(desk') : om'[p] # "none"
    BY <1>7, <1>8 DEF PairInv, SentOK, Booked
  <2>3. \A p \in Awaited(desk') : venue'[p] # "unsent"
    BY <1>1, <1>7 DEF PairInv, SentOK
  <2>4. \A i \in DOMAIN work' : work'[i].step = "track" => \E j \in DOMAIN work : work'[i] = work[j]
    BY <1>2 DEF Smaller
  <2>5. \A i \in DOMAIN work' : work'[i].step = "track" =>
               work'[i].ord \in Orders /\ venue'[work'[i].ord] # "unsent" /\ work'[i].ord \notin Awaited(desk')
    BY <1>1, <1>7, <2>4 DEF PairInv, SentOK
  <2>. QED
    BY <1>2, <2>1, <2>2, <2>3, <2>5 DEF SentOK
<1>11. CoverOK'
  <2>1. VenueOn /\ AskedOn
    BY <1>1, Unmoved
  <2>. QED
    BY <1>1, <1>2, <1>7, <2>1, StillCovered
<1>. QED
  BY <1>9, <1>10, <1>11 DEF PairInv
-----------------------------------------------------------------------------
(* The fresh pair after a fill.                                                *)
LEMMA ForgetStep ==
  ASSUME PairInv, Forget
  PROVE  PairInv'
<1>. DEFINE two == BidFirst(Wanted(desk.net))
<1>1. /\ work # <<>> /\ Head(work).step \in QuoteSteps /\ UNCHANGED <<venue, asked, om, stack>>
      /\ desk' = [desk EXCEPT !.legs = [s \in Sides |-> <<>>], !.pend = @ + Len(two)]
      /\ work' = [i \in DOMAIN two |-> Step("submit", None, two[i])]
  BY DEF Forget, At, QuoteSteps
<1>2. /\ two \in Seq(Sides) /\ Len(two) \in Nat /\ DOMAIN two = 1 .. Len(two)
      /\ \A i \in DOMAIN two : two[i] \in Sides
  BY BidFirstSides
<1>. HIDE DEF two
<1>3. Quoting(work) /\ Cardinality(Waits(work)) = 0 /\ Sending(work) = {}
  BY <1>1, QuotingTail, QuotingFacts
<1>4. Tidy(desk) /\ desk \in DeskRec
  BY DEF PairInv, PairTypes, Tidy
<1>5. /\ desk' \in DeskRec /\ desk'.pend = desk.pend + Len(two) /\ desk'.queue = desk.queue
      /\ desk'.legs = [s \in Sides |-> <<>>]
  <2>1. [s \in Sides |-> <<>>] \in [Sides -> Seq(LegRec)] /\ desk.pend + Len(two) \in Nat
    BY <1>2, <1>4 DEF DeskRec
  <2>. QED
    BY <1>1, <1>4, <2>1 DEF DeskRec
<1>6. /\ Tidy(desk') /\ Booked(desk') = {} /\ Awaited(desk') = {} /\ Pulled(desk') = {}
      /\ Calls(desk') = Calls(desk)
  BY <1>5 DEF Tidy, LegsOK, Booked, Awaited, Pulled, Calls
<1>7. \A i \in 1 .. Len(two) : work'[i] \in StepRec /\ work'[i].step = "submit"
  BY <1>1, <1>2, StepFacts, SMTT(30)
<1>8. work' \in Seq(StepRec) /\ DOMAIN work' = 1 .. Len(two)
  <2>1. \A i \in 1 .. Len(two) : Step("submit", None, two[i]) \in StepRec
    BY <1>2, StepFacts
  <2>. QED
    BY <1>1, <1>2, <2>1
<1>9. Waits(work') = 1 .. Len(two)
  BY <1>7, <1>8 DEF Waits
<1>10. desk'.pend = Cardinality(Waits(work'))
  <2>1. Cardinality(1 .. Len(two)) = Len(two)
    BY <1>2, FS_Interval
  <2>. QED
    BY <1>2, <1>3, <1>5, <1>9, <2>1 DEF PairInv, PendOK
<1>11. Smaller(work, work') /\ OmOn /\ VenueOn
  BY <1>1, <1>7, <1>8, Unmoved DEF Smaller, WorkOK, OmOn, PairInv, PairTypes
<1>12. CoverOK'
  BY <1>6 DEF CoverOK
<1>. QED
  BY <1>1, <1>6, <1>10, <1>11, <1>12, QuietStep

(* Behind a submit, or the tracking of one, only submits are left.              *)
LEMMA SubmitShape ==
  ASSUME PairInv, work # <<>>, Head(work).step \in {"submit", "track"}
  PROVE  \A i \in DOMAIN Tail(work) : Tail(work)[i].step = "submit"
<1>. DEFINE v == Tail(work)
<1>1. /\ work \in Seq(StepRec) /\ Head(work) = work[1] /\ 1 \in DOMAIN work
      /\ \A i \in DOMAIN v : v[i] = work[i + 1] /\ i + 1 \in DOMAIN work /\ i + 1 # 1
  BY DEF PairInv, PairTypes
<1>. HIDE DEF v
<1>2. \A i \in DOMAIN work : i = 1 \/ work[i].step = "submit"
  BY <1>1 DEF PairInv, WorkOK, QuoteSteps
<1>. QED
  BY <1>1, <1>2 DEF v

(* An order of the new pair is submitted.                                       *)
LEMMA SubmitStep ==
  ASSUME PairInv, Submit
  PROVE  PairInv'
<1>. DEFINE s == Head(work).side
            o == NextOrder(s)
            x == Step("accept", o, s)
            y == Step("track", o, s)
            v == Tail(work)
<1>1. work # <<>> /\ Head(work).step = "submit" /\ UNCHANGED <<asked, om, stack>>
  BY DEF Submit, At
<1>2. /\ Smaller(work, v) /\ \A i \in DOMAIN v : v[i].step = "submit"
      /\ Sending(work) \subseteq Sending(v) /\ desk.pend = Cardinality(Waits(v)) + 1
      /\ s \in Sides
  <2>1. Waiting(Head(work))
    BY <1>1 DEF Waiting
  <2>. QED
    BY <1>1, <2>1, TailFacts, SubmitShape DEF StepRec
<1>3. Tidy(desk) /\ v \in Seq(StepRec)
  BY <1>2 DEF PairInv, PairTypes, Smaller
<1>4. CASE GateOpen(s)
  <2>1. SendOrder(o) /\ UNCHANGED desk /\ work' = <<x, y>> \o v
    BY <1>4 DEF Submit
  <2>2. o \in Orders /\ Side(o) = s /\ venue[o] = "unsent"
    BY <1>2, <1>4, NextIsUnsent DEF GateOpen
  <2>. HIDE DEF o, s, v
  <2>3. o \in Ids /\ o \notin Awaited(desk)
    BY <2>2 DEF Ids, PairInv, SentOK
  <2>4. /\ x \in StepRec /\ x.step = "accept" /\ x.ord = o
        /\ y \in StepRec /\ y.step = "track" /\ y.ord = o
    BY <1>2, <2>3 DEF Step, StepRec
  <2>. HIDE DEF x, y
  <2>. DEFINE u == <<y>> \o v
  <2>5. work' = <<x>> \o u
    <3>. DEFINE L == <<x, y>> \o v
                R == <<x>> \o u
    <3>1. <<x, y>> \in Seq(StepRec) /\ u \in Seq(StepRec) /\ Len(u) = Len(v) + 1 /\ Len(v) \in Nat
      BY <1>3, <2>4
    <3>2. L \in Seq(StepRec) /\ Len(L) = Len(v) + 2 /\ R \in Seq(StepRec) /\ Len(R) = Len(v) + 2
      BY <1>3, <2>4, <3>1
    <3>3. ASSUME NEW i \in 1 .. Len(v) + 2
          PROVE  L[i] = R[i]
      <4>1. L[i] = IF i <= 2 THEN <<x, y>>[i] ELSE v[i - 2]
        BY <1>3, <3>1
      <4>2. R[i] = IF i = 1 THEN x ELSE u[i - 1]
        BY <2>4, <3>1
      <4>3. i # 1 => u[i - 1] = IF i = 2 THEN y ELSE v[i - 2]
        BY <1>3, <2>4
      <4>. QED
        BY <4>1, <4>2, <4>3
    <3>. HIDE DEF L, R
    <3>4. L = R
      BY <3>1, <3>2, <3>3
    <3>. QED
      BY <2>1, <3>4 DEF L, R
  <2>6. /\ u \in Seq(StepRec) /\ u[1] = y /\ Sending(v) \subseteq Sending(u)
        /\ \A i \in DOMAIN u : i = 1 \/ (i - 1 \in DOMAIN v /\ u[i] = v[i - 1])
    BY <1>3, <2>4, PushFacts
  <2>7. Cardinality(Waits(u)) = Cardinality(Waits(v)) /\ Cardinality(Waits(v)) \in Nat
    <3>1. ~ Waiting(y)
      BY <2>4 DEF Waiting
    <3>2. Cardinality(Waits(u)) = Cardinality(Waits(v)) + (IF Waiting(y) THEN 1 ELSE 0)
      BY <1>3, <2>4, WaitsPush
    <3>. QED
      BY <1>3, <3>1, <3>2, WaitsCount
  <2>. HIDE DEF u
  <2>8. /\ work' \in Seq(StepRec) /\ work'[1] = x /\ Sending(u) \subseteq Sending(work')
        /\ \A i \in DOMAIN work' : i = 1 \/ (i - 1 \in DOMAIN u /\ work'[i] = u[i - 1])
    BY <2>4, <2>5, <2>6, PushFacts
  <2>9. desk'.pend = Cardinality(Waits(work'))
    <3>1. Waiting(x)
      BY <2>4 DEF Waiting
    <3>2. Cardinality(Waits(work')) = Cardinality(Waits(u)) + (IF Waiting(x) THEN 1 ELSE 0)
      BY <2>4, <2>5, <2>6, WaitsPush
    <3>. QED
      BY <1>2, <2>1, <2>7, <3>1, <3>2
  <2>10. \A i \in DOMAIN u : (i = 1 /\ u[i] = y) \/ u[i].step = "submit"
    BY <1>2, <2>6
  <2>11. \A i \in DOMAIN work' :
           \/ i = 1 /\ work'[i] = x
           \/ i = 2 /\ work'[i] = y
           \/ work'[i].step = "submit"
    <3>1. ASSUME NEW i \in DOMAIN work', i # 1
          PROVE  (i = 2 /\ work'[i] = y) \/ work'[i].step = "submit"
      <4>1. i - 1 \in DOMAIN u /\ work'[i] = u[i - 1] /\ i \in Nat
        BY <2>8, <3>1
      <4>. QED
        BY <2>10, <4>1
    <3>2. ASSUME NEW i \in DOMAIN work', i = 1
          PROVE  work'[i] = x
      BY <2>8, <3>2
    <3>. QED
      BY <3>1, <3>2
  <2>12. WorkOK(work')
    BY <2>4, <2>8, <2>11 DEF WorkOK
  <2>13. \A i \in DOMAIN work' : /\ work'[i].step \in {"answer", "accept", "track"} => work'[i].ord = o
                                 /\ work'[i].step = "track" => o \notin Awaited(desk')
    BY <2>1, <2>3, <2>4, <2>11
  <2>14. Tidy(desk') /\ Booked(desk') = Booked(desk) /\ Awaited(desk') = Awaited(desk)
         /\ Pulled(desk') = Pulled(desk) /\ Calls(desk') = Calls(desk)
    BY <1>3, <2>1
  <2>15. Sending(work) \subseteq Sending(work')
    BY <1>2, <2>6, <2>8
  <2>. QED
    BY <1>1, <2>1, <2>2, <2>8, <2>9, <2>12, <2>13, <2>14, <2>15, SentStep
<1>5. CASE ~ GateOpen(s)
  <2>1. desk' = Unpend(desk) /\ work' = v /\ UNCHANGED venue
    BY <1>5 DEF Submit
  <2>. HIDE DEF v
  <2>2. Cardinality(Waits(v)) \in Nat
    BY <1>3, WaitsCount
  <2>3. desk' = [desk EXCEPT !.pend = Cardinality(Waits(v))]
    BY <1>2, <2>1, <2>2 DEF Unpend
  <2>4. /\ Tidy(desk') /\ desk'.pend = Cardinality(Waits(v)) /\ Booked(desk') = Booked(desk)
        /\ Awaited(desk') = Awaited(desk) /\ Calls(desk') = Calls(desk) /\ Pulled(desk') = Pulled(desk)
    BY <1>3, <2>2, <2>3, PendSet
  <2>5. VenueOn /\ AskedOn /\ OmOn
    BY <1>1, <2>1, Unmoved DEF OmOn, PairInv, PairTypes
  <2>6. CoverOK'
    BY <1>1, <1>2, <2>1, <2>4, <2>5, StillCovered
  <2>. QED
    BY <1>1, <1>2, <2>1, <2>4, <2>5, <2>6, QuietStep
<1>. QED
  BY <1>4, <1>5

(* A submitted order is tracked, its answer come or not.                        *)
LEMMA TrackStep ==
  ASSUME PairInv, TrackPlace
  PROVE  PairInv'
<1>. DEFINE o == Head(work).ord
            e == Track(desk, o)
            v == Tail(work)
<1>1. /\ work # <<>> /\ Head(work).step = "track" /\ UNCHANGED <<venue, asked, om, stack>>
      /\ work' = v /\ (desk' = e \/ desk' = Refresh(e))
  BY DEF TrackPlace, At
<1>2. /\ Smaller(work, v) /\ \A i \in DOMAIN v : v[i].step = "submit"
      /\ Sending(work) \subseteq Sending(v) /\ desk.pend = Cardinality(Waits(v))
      /\ Head(work) = work[1] /\ 1 \in DOMAIN work
  <2>1. ~ Waiting(Head(work)) /\ Head(work).step # "cancel"
    BY <1>1 DEF Waiting
  <2>2. v \in Seq(StepRec) => Cardinality(Waits(v)) \in Nat
    BY WaitsCount
  <2>. HIDE DEF v
  <2>. QED
    BY <1>1, <2>1, <2>2, TailFacts, SubmitShape DEF v, Smaller
<1>3. o \in Orders /\ venue[o] # "unsent" /\ o \notin Awaited(desk) /\ Tidy(desk)
  BY <1>1, <1>2 DEF PairInv, PairTypes, SentOK
<1>. HIDE DEF o, v
<1>4. /\ Tidy(e) /\ e.pend = desk.pend /\ Calls(e) = Calls(desk)
      /\ Booked(e) \subseteq Booked(desk) /\ Pulled(e) \subseteq Pulled(desk)
      /\ Awaited(e) \subseteq Awaited(desk) \cup {o}
  BY <1>3, LegTracked
<1>. HIDE DEF e
<1>5. Follows(e, desk', {}) /\ Calls(desk') = Calls(e)
  <2>1. Follows(e, Refresh(e), {}) /\ Calls(Refresh(e)) = Calls(e)
    BY <1>4, Refreshed
  <2>2. Follows(e, e, {})
    BY <1>4, LegsAlone DEF Tidy
  <2>. QED
    BY <1>1, <2>1, <2>2
<1>6. /\ Tidy(desk') /\ desk'.pend = desk.pend /\ Calls(desk') = Calls(desk)
      /\ Booked(desk') \subseteq Booked(desk) /\ Pulled(desk') \subseteq Pulled(desk) \cup Calls(desk')
      /\ Awaited(desk') \subseteq Awaited(desk) \cup {o}
  BY <1>4, <1>5 DEF Follows
<1>7. PairTypes' /\ WorkOK(work') /\ PendOK'
  BY <1>1, <1>2, <1>6 DEF PairInv, PairTypes, PendOK, Smaller
<1>8. SentOK'
  BY <1>1, <1>2, <1>3, <1>6 DEF PairInv, SentOK
<1>9. CoverOK'
  BY <1>1, <1>2, <1>6, Unmoved, StillCovered
<1>. QED
  BY <1>7, <1>8, <1>9 DEF PairInv

(* A cancel goes out.                                                          *)
LEMMA CancelStep ==
  ASSUME PairInv, SendCancel
  PROVE  PairInv'
<1>. DEFINE o == Head(work).ord
            v == Tail(work)
<1>1. work # <<>> /\ Head(work).step = "cancel" /\ work' = v /\ stack' = stack
  BY DEF SendCancel, At
<1>2. /\ Smaller(work, v) /\ \A i \in DOMAIN v : v[i].step \notin {"answer", "accept"}
      /\ desk.pend = Cardinality(Waits(v)) /\ Head(work) = work[1] /\ 1 \in DOMAIN work
      /\ \A p \in Sending(work) : p \in Sending(v) \/ p = o
  <2>1. ~ Waiting(Head(work))
    BY <1>1 DEF Waiting
  <2>2. v \in Seq(StepRec) => Cardinality(Waits(v)) \in Nat
    BY WaitsCount
  <2>. HIDE DEF v, o
  <2>. QED
    BY <1>1, <2>1, <2>2, TailFacts DEF v, o, Smaller
<1>3. o \in Orders
  <2>1. work[1].step = "cancel"
    BY <1>1, <1>2
  <2>. QED
    BY <1>2, <2>1 DEF PairInv, WorkOK, QuoteSteps
<1>4. Tidy(desk) /\ PairTypes
  BY DEF PairInv, PairTypes
<1>5. CASE om[o] # "active" \/ stack # "ACTIVE"
  <2>1. UNCHANGED <<venue, asked, om, desk>>
    BY <1>5 DEF SendCancel
  <2>. HIDE DEF o, v
  <2>2. VenueOn /\ AskedOn /\ OmOn
    BY <1>4, <2>1, Unmoved DEF OmOn, PairTypes
  <2>3. CoverOK'
    <3>1. \A p \in Pulled(desk') : p \in Calls(desk) \cup Sending(work) /\ venue'[p] = "live" /\ stack = "ACTIVE" =>
            p \in asked' \cup Calls(desk') \cup Sending(work')
      <4>. SUFFICES ASSUME o \in Pulled(desk), venue[o] = "live", stack = "ACTIVE"
                    PROVE  FALSE
        BY <1>1, <1>2, <2>1
      <4>1. o \in Booked(desk)
        BY DEF Pulled, Booked
      <4>2. om[o] = "final"
        BY <1>3, <1>4, <1>5, <4>1 DEF PairInv, SentOK, PairTypes
      <4>. QED
        BY <1>3, <4>2 DEF PairInv, SentOK
    <3>. QED
      BY <1>1, <2>1, <2>2, <3>1, StillCovered
  <2>. QED
    BY <1>1, <1>2, <1>4, <2>1, <2>2, <2>3, QuietStep
<1>6. CASE ~ (om[o] # "active" \/ stack # "ACTIVE")
  <2>1. PICK a \in CancelAnswers(o) :
               /\ venue' = [venue EXCEPT ![o] = a[1]]
               /\ asked' = IF a[1] = "live" THEN asked \cup {o} ELSE asked \ {o}
               /\ IF a[2] \in {"ok", "benign"}
                  THEN om' = [om EXCEPT ![o] = "final"] /\ desk' = OnCancel(desk, o)
                  ELSE UNCHANGED <<om, desk>>
    BY <1>6 DEF SendCancel
  <2>. HIDE DEF o, v
  <2>2. /\ a[1] = venue[o] \/ (venue[o] = "live" /\ a[1] = "gone")
        /\ a[2] \in {"ok", "benign"} => a[1] # "live"
    BY DEF CancelAnswers
  <2>3. venue[o] # "unsent" /\ om[o] = "active"
    BY <1>3, <1>6 DEF PairInv, SentOK
  <2>4. VenueOn /\ AskedOn /\ venue'[o] = a[1]
    BY <1>3, <1>4, <2>1, <2>2 DEF VenueOn, AskedOn, PairTypes
  <2>5. OmOn
    BY <1>3, <1>4, <2>1, <2>2, <2>3, <2>4 DEF OmOn, PairTypes
  <2>6. Follows(desk, desk', {})
    BY <1>3, <1>4, <2>1, CancelHandled, StayFollows
  <2>7. CoverOK'
    <3>1. venue'[o] = "live" => o \in asked'
      BY <2>1, <2>4
    <3>2. \A p \in Pulled(desk') : p \in Calls(desk) \cup Sending(work) /\ venue'[p] = "live" /\ stack = "ACTIVE" =>
            p \in asked' \cup Calls(desk') \cup Sending(work')
      BY <1>1, <1>2, <2>6, <3>1 DEF Follows
    <3>. QED
      BY <1>1, <2>4, <2>6, <3>2, StillCovered DEF Follows
  <2>. QED
    BY <1>1, <1>2, <2>4, <2>5, <2>6, <2>7, QuietStep DEF Follows
<1>. QED
  BY <1>5, <1>6
-----------------------------------------------------------------------------
(* The invariant.                                                              *)
LEMMA PairInit ==
  ASSUME Init
  PROVE  PairInv
<1>1. \A s \in Sides : /\ <<s, 1>> \in Orders /\ Side(<<s, 1>>) = s /\ <<s, 1>> # None
                       /\ Leg(<<s, 1>>, "ADOPTED") \in LegRec /\ Leg(<<s, 1>>, "ADOPTED").ord = <<s, 1>>
                       /\ Leg(<<s, 1>>, "ADOPTED").st = "ADOPTED"
  BY PairCycleAssumption, Names DEF Orders, Side, Leg, LegRec, Ids
<1>2. \A s \in Sides : /\ <<Leg(<<s, 1>>, "ADOPTED")>> \in Seq(LegRec)
                       /\ desk.legs[s] = <<Leg(<<s, 1>>, "ADOPTED")>>
                       /\ DOMAIN desk.legs[s] = {1} /\ desk.legs[s][1] = Leg(<<s, 1>>, "ADOPTED")
  <2>. SUFFICES ASSUME NEW s \in Sides
                PROVE  /\ <<Leg(<<s, 1>>, "ADOPTED")>> \in Seq(LegRec)
                       /\ desk.legs[s] = <<Leg(<<s, 1>>, "ADOPTED")>>
                       /\ DOMAIN desk.legs[s] = {1} /\ desk.legs[s][1] = Leg(<<s, 1>>, "ADOPTED")
    OBVIOUS
  <2>. DEFINE l == Leg(<<s, 1>>, "ADOPTED")
  <2>1. desk.legs = [t \in Sides |-> <<Leg(<<t, 1>>, "ADOPTED")>>]
    BY DEF Init
  <2>2. desk.legs[s] = <<l>>
    BY <2>1
  <2>3. l \in LegRec
    BY <1>1
  <2>. HIDE DEF l
  <2>4. <<l>> \in Seq(LegRec) /\ DOMAIN <<l>> = {1} /\ <<l>>[1] = l
    BY <2>3
  <2>. QED
    BY <2>2, <2>4 DEF l
<1>3. desk \in DeskRec
  <2>1. /\ [s \in Sides |-> <<Leg(<<s, 1>>, "ADOPTED")>>] \in [Sides -> Seq(LegRec)]
        /\ [s \in Sides |-> <<s, 1>>] \in [Sides -> Ids] /\ <<>> \in Seq(JobRec)
    BY <1>1, <1>2 DEF Ids
  <2>. QED
    BY <2>1 DEF Init, DeskRec
<1>4. Tidy(desk)
  BY <1>1, <1>2, <1>3, ZenonT(30) DEF Tidy, LegsOK
<1>5. PairTypes
  <2>1. work \in Seq(StepRec)
    BY DEF Init
  <2>2. /\ venue \in [Orders -> {"unsent", "live", "filled", "dropped", "gone", "refused"}]
        /\ om \in [Orders -> {"none", "active", "final"}]
    BY DEF Init
  <2>. QED
    BY <1>4, <2>1, <2>2 DEF PairTypes
<1>6. Pulled(desk) = {} /\ Awaited(desk) = {}
  <2>1. \A s \in Sides : \A i \in DOMAIN desk.legs[s] : desk.legs[s][i].st = "ADOPTED"
    BY <1>1, <1>2
  <2>. QED
    BY <2>1 DEF Pulled, Awaited, Awaits
<1>7. \A o \in Booked(desk) : om[o] = "active"
  <2>1. \A s \in Sides : om[<<s, 1>>] = "active"
    BY <1>1 DEF Init
  <2>2. \A s \in Sides : \A i \in DOMAIN desk.legs[s] : desk.legs[s][i].ord = <<s, 1>>
    BY <1>1, <1>2
  <2>. QED
    BY <2>1, <2>2 DEF Booked
<1>8. Quoting(work) /\ work = <<>> /\ desk.pend = 0
  BY DEF Init, Quoting
<1>9. WorkOK(work) /\ PendOK
  BY <1>8, QuotingFacts DEF PendOK
<1>10. SentOK
  BY <1>6, <1>7, <1>8 DEF SentOK, Init
<1>11. CoverOK
  BY <1>6 DEF CoverOK
<1>. QED
  BY <1>5, <1>9, <1>10, <1>11 DEF PairInv

(* Every step keeps the invariant.                                              *)
LEMMA PairStep ==
  ASSUME PairInv, [Next]_vars
  PROVE  PairInv'
<1>1. CASE FeedTick \/ Tick \/ Scan
  BY <1>1, FeedSteps
<1>2. CASE \E o \in Orders : VenueFill(o) \/ VenueDrop(o)
  BY <1>2, VenueSteps
<1>3. CASE Deliver
  BY <1>3, DeliverStep DEF Deliver
<1>4. CASE Missing
  BY <1>4, MissingStep DEF Missing
<1>5. CASE Start
  BY <1>5, StartSteps, StartCancelsStep DEF Start
<1>6. CASE QuoteStep
  BY <1>6, DecideStep, CycleStep, TopSteps, ScrubStep, WantedStep DEF QuoteStep
<1>7. CASE PlaceStep
  BY <1>7, PlaceAction, AnswerSteps, CancelStep DEF PlaceStep
<1>8. CASE RequoteStep
  BY <1>8, FreshStep, ForgetStep, SubmitStep, AnswerSteps, TrackStep DEF RequoteStep
<1>9. CASE UNCHANGED vars
  BY <1>9 DEF vars, PairInv, PairTypes, SentOK, PendOK, CoverOK, Live
<1>. QED
  BY <1>1, <1>2, <1>3, <1>4, <1>5, <1>6, <1>7, <1>8, <1>9 DEF Next, Worker

(* The count of pending accepts is that of the submissions the worker has not   *)
(* got the answer of, whatever the answers, fills and cancels do in between:     *)
(* the gate that lets the next cycle start is never left shut by it.            *)
THEOREM PendingExact == Spec => []PendingAcceptsExact
<1>1. Init => PairInv
  BY PairInit
<1>2. PairInv /\ [Next]_vars => PairInv'
  BY PairStep
<1>3. PairInv => PendingAcceptsExact
  BY DEF PairInv, PendOK, PendingAcceptsExact, Waits
<1>. QED
  BY <1>1, <1>2, <1>3, PTL DEF Spec

(* While the stack is active, a leg that is marked as being cancelled and whose *)
(* order still rests at the venue has a cancel queued, about to be sent or sent.*)
THEOREM PulledCancelled == Spec => []PulledIsCancelled
<1>1. Init => PairInv
  BY PairInit
<1>2. PairInv /\ [Next]_vars => PairInv'
  BY PairStep
<1>3. PairInv => PulledIsCancelled
  <2>. SUFFICES ASSUME PairInv, stack = "ACTIVE", NEW o \in Live, HasOrd(desk, o),
                       LegOf(desk, o).st = "CANCEL_PENDING"
                PROVE  o \in asked \/ CancelWaits(o)
    BY DEF PulledIsCancelled
  <2>1. Tidy(desk) /\ o \in Orders
    BY DEF PairInv, PairTypes, Live
  <2>2. o \in Pulled(desk)
    <3>0. PICK s \in Sides : \E i \in DOMAIN desk.legs[s] : desk.legs[s][i].ord = o
      BY DEF HasOrd, Booked
    <3>1. PICK i \in DOMAIN desk.legs[s] : desk.legs[s][i].ord = o
      BY <3>0
    <3>2. LegOf(desk, o) = desk.legs[s][i]
      BY <2>1, <3>1, LegOfOrder
    <3>. QED
      BY <2>1, <3>1, <3>2 DEF Pulled
  <2>3. o \in asked \cup Calls(desk) \cup Sending(work)
    BY <2>2 DEF PairInv, CoverOK
  <2>. QED
    BY <2>3 DEF Calls, Sending, CancelWaits
<1>. QED
  BY <1>1, <1>2, <1>3, PTL DEF Spec
=============================================================================

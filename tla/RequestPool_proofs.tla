------------------------- MODULE RequestPool_proofs -------------------------
(***************************************************************************)
(* The pool of curl handles for any number of callers and handles: a        *)
(* transfer finds nothing that an earlier request left on its handle (a     *)
(* ping: nothing but the length of a body), and nobody who waits for a      *)
(* handle is forgotten.                                                     *)
(***************************************************************************)
EXTENDS RequestPool, FiniteSetTheorems, TLAPS

Kinds   == {"read", "write", "place", "batch", "modify", "post", "get", "delete"}
Methods == {"GET", "POST", "DELETE"}
Limits  == {"order_op_timeout", "gateway_get_timeout", "request_timeout", "ping_timeout", "none"}
Owner   == Callers \cup {Null, OrdersHeaders}
Stages  == {"idle", "acquiring", "asleep", "sending", "returning", "notifying"}
Option  == [method : Methods, body : Owner, size : Owner, list : Owner, sink : Owner,
            heads : Owner, limit : Limits]

(* There are finitely many callers; a batch has at least one request.        *)
PoolConstants ==
  /\ PoolSize \in Nat /\ WarmConnections \in Nat /\ BatchSize \in Nat \ {0}
  /\ CallsOf \in [Callers -> SUBSET Kinds]
  /\ IsFiniteSet(Callers)

(* More handles than all batches together can hold while they still wait.    *)
Batchers == {c \in Callers : "batch" \in CallsOf[c]}
PoolIsLarge == PoolSize > Cardinality(Batchers) * (BatchSize - 1)

(* The types of the variables.                                               *)
PoolTypes ==
  /\ free \in Seq(Handles) /\ borrowed \in Seq(Handles)
  /\ got \in [Callers -> Seq(Handles)]
  /\ options \in [Handles -> Option]
  /\ doing \in [Callers -> Stages]
  /\ request \in [Callers -> Kinds \cup {NoRequest}]
  /\ pinger \in {"waiting", "warming", "notifying"}

(* How many handles a caller holds at each stage of its request.             *)
StageOf(c) ==
  /\ doing[c] = "idle" => got[c] = <<>>
  /\ doing[c] # "idle" => request[c] \in CallsOf[c] /\ request[c] \in Kinds
  /\ doing[c] \in {"acquiring", "asleep", "notifying"} => Len(got[c]) < Size(request[c])
  /\ doing[c] = "sending" => Len(got[c]) = Size(request[c])
  /\ doing[c] = "returning" => Len(got[c]) > 0 /\ Len(got[c]) <= Size(request[c])
StageOK ==
  /\ \A c \in Callers : StageOf(c)
  /\ pinger # "warming" => borrowed = <<>>

(* A handle is in one place: free, with one caller or with the pinger.       *)
Apart ==
  /\ \A i, j \in DOMAIN free : free[i] = free[j] => i = j
  /\ \A i, j \in DOMAIN borrowed : borrowed[i] = borrowed[j] => i = j
  /\ \A i \in DOMAIN free, j \in DOMAIN borrowed : free[i] # borrowed[j]
  /\ \A c \in Callers : \A i \in DOMAIN got[c] :
       /\ \A j \in DOMAIN free : got[c][i] # free[j]
       /\ \A j \in DOMAIN borrowed : got[c][i] # borrowed[j]
       /\ \A d \in Callers : \A j \in DOMAIN got[d] : got[c][i] = got[d][j] => c = d /\ i = j

(* Every handle is somewhere.                                                *)
Placed(h) ==
  \/ \E i \in DOMAIN free : free[i] = h
  \/ \E i \in DOMAIN borrowed : borrowed[i] = h
  \/ \E c \in Callers : \E i \in DOMAIN got[c] : got[c][i] = h
Covered == \A h \in Handles : Placed(h)

(* What a handle was told for the request it serves.                         *)
Serves(c, k, o) ==
  /\ o.sink = c /\ o.heads \in {c, Null} /\ o.list \in {c, OrdersHeaders}
  /\ o.body = BodyOf(c, k) /\ o.size = o.body
  /\ o.method = Method(k) /\ o.limit = Limit(k)
Pinged(o) ==
  /\ o.method = "GET" /\ o.body = Null /\ o.list = Null /\ o.sink = Null /\ o.heads = Null
  /\ o.limit = "ping_timeout"
OptionsOK ==
  /\ \A c \in Callers : \A i \in DOMAIN got[c] : Serves(c, request[c], options[got[c][i]])
  /\ \A i \in DOMAIN borrowed : Pinged(options[borrowed[i]])

(* The inductive invariant behind NothingLeftOver.                           *)
CleanInv == PoolTypes /\ StageOK /\ Apart /\ OptionsOK

-----------------------------------------------------------------------------
(* A request tells its handle everything that matters to it.                 *)
LEMMA ToldServes ==
  ASSUME PoolConstants, NEW c \in Callers, NEW k \in Kinds, NEW o \in Option
  PROVE  Told(c, k, o) \in Option /\ Serves(c, k, Told(c, k, o))
BY ZenonT(30) DEF Kinds, Option, Methods, Limits, Owner, Told, Serves, General, OrderRequest, ModifyRequest,
       PostGateway, GetGateway, BodyOf, Method, Limit

(* So does a ping, but for the length of the body, which it leaves as it is. *)
LEMMA PingPings ==
  ASSUME NEW o \in Option
  PROVE  /\ Ping(o) \in Option /\ Pinged(Ping(o))
         /\ Ping(o).size = o.size
BY DEF Option, Methods, Limits, Owner, Ping, Pinged

(* The sizes of requests.                                                    *)
LEMMA Sizes ==
  ASSUME PoolConstants, NEW k
  PROVE  /\ Size(k) \in Nat /\ Size(k) > 0
         /\ Size(k) > 1 => k = "batch" /\ Size(k) = BatchSize
BY DEF PoolConstants, Size

(* The first and the last element taken from a sequence.                     *)
LEMMA Ends ==
  ASSUME NEW S, NEW s \in Seq(S), s # <<>>
  PROVE  /\ Front(s) \in Seq(S) /\ Len(Front(s)) = Len(s) - 1
         /\ \A i \in DOMAIN Front(s) : i \in DOMAIN s /\ Front(s)[i] = s[i]
         /\ Last(s) \in S /\ Last(s) = s[Len(s)] /\ Len(s) \in DOMAIN s
         /\ Tail(s) \in Seq(S) /\ Len(Tail(s)) = Len(s) - 1
         /\ \A i \in DOMAIN Tail(s) : i + 1 \in DOMAIN s /\ Tail(s)[i] = s[i + 1]
         /\ Head(s) \in S /\ Head(s) = s[1] /\ 1 \in DOMAIN s
<1>1. Len(s) \in Nat /\ Len(s) > 0 /\ DOMAIN s = 1 .. Len(s)
  OBVIOUS
<1>2. Front(s) \in Seq(S) /\ Len(Front(s)) = Len(s) - 1
  BY <1>1 DEF Front
<1>3. \A i \in DOMAIN Front(s) : i \in DOMAIN s /\ Front(s)[i] = s[i]
  BY <1>1 DEF Front
<1>4. Last(s) \in S /\ Last(s) = s[Len(s)] /\ Len(s) \in DOMAIN s
  BY <1>1 DEF Last
<1>5. Tail(s) \in Seq(S) /\ Len(Tail(s)) = Len(s) - 1
  BY <1>1
<1>6. \A i \in DOMAIN Tail(s) : i + 1 \in DOMAIN s /\ Tail(s)[i] = s[i + 1]
  BY <1>1
<1>7. Head(s) \in S /\ Head(s) = s[1] /\ 1 \in DOMAIN s
  BY <1>1
<1>. QED
  BY <1>2, <1>3, <1>4, <1>5, <1>6, <1>7

-----------------------------------------------------------------------------
(* At the start every handle is free.                                        *)
LEMMA CleanInit ==
  ASSUME PoolConstants, PoolInit
  PROVE  CleanInv /\ Covered
<1>. USE DEF PoolInit, PoolConstants, Handles
<1>1. PoolTypes
  BY DEF PoolTypes, Option, Methods, Owner, Limits, Stages
<1>2. StageOK
  BY DEF StageOK, StageOf
<1>3. Apart
  BY DEF Apart
<1>4. OptionsOK
  BY DEF OptionsOK
<1>5. Covered
  <2>. SUFFICES ASSUME NEW h \in Handles PROVE Placed(h)
    BY DEF Covered
  <2>1. h \in DOMAIN free /\ free[h] = h
    OBVIOUS
  <2>. QED
    BY <2>1 DEF Placed
<1>. QED
  BY <1>1, <1>2, <1>3, <1>4, <1>5 DEF CleanInv

(* A step that moves no handle and changes the request of no caller that     *)
(* holds one.                                                                *)
LEMMA StillStep ==
  ASSUME Apart, OptionsOK, Covered, PoolTypes, UNCHANGED <<free, options, got, borrowed>>,
         \A c \in Callers : got[c] = <<>> \/ request'[c] = request[c]
  PROVE  Apart' /\ OptionsOK' /\ Covered'
<1>1. Apart'
  BY DEF Apart
<1>2. OptionsOK'
  BY DEF OptionsOK, PoolTypes
<1>3. Covered'
  BY DEF Covered, Placed
<1>. QED
  BY <1>1, <1>2, <1>3

(* acquire moves the last free handle to a caller, who sets its options.     *)
LEMMA AcquireStep ==
  ASSUME PoolConstants, CleanInv, Covered, NEW c \in Callers, Acquire(c)
  PROVE  Apart' /\ OptionsOK' /\ Covered'
<1>. USE DEF CleanInv, PoolTypes
<1>. DEFINE h == free[Len(free)]
            F == Front(free)
            G == Append(got[c], h)
<1>1. /\ free # <<>> /\ h \in Handles /\ Len(free) \in DOMAIN free
      /\ F \in Seq(Handles) /\ Len(F) = Len(free) - 1
      /\ \A i \in DOMAIN F : i \in DOMAIN free /\ F[i] = free[i]
      /\ Last(free) = h
  BY Ends DEF Acquire
<1>2. /\ G \in Seq(Handles) /\ Len(G) = Len(got[c]) + 1 /\ G[Len(got[c]) + 1] = h
      /\ \A i \in DOMAIN got[c] : i \in DOMAIN G /\ G[i] = got[c][i]
      /\ \A i \in DOMAIN G : i \in DOMAIN got[c] \/ i = Len(got[c]) + 1
  BY <1>1
<1>3. free' = F /\ got' = [got EXCEPT ![c] = G]
      /\ options' = [options EXCEPT ![h] = Told(c, request[c], options[h])]
      /\ UNCHANGED <<request, borrowed>>
  BY <1>1 DEF Acquire
<1>4. got'[c] = G /\ \A d \in Callers \ {c} : got'[d] = got[d]
  BY <1>3
<1>5. \A i \in DOMAIN F : F[i] # h
  BY <1>1 DEF Apart
<1>6. /\ \A d \in Callers : \A i \in DOMAIN got[d] : got[d][i] # h
      /\ \A i \in DOMAIN borrowed : borrowed[i] # h
  BY <1>1 DEF Apart
<1>. HIDE DEF h, F, G
<1>7. Apart'
  BY <1>1, <1>2, <1>3, <1>4, <1>5, <1>6 DEF Apart
<1>8. OptionsOK'
  <2>1. request[c] \in Kinds
    BY DEF StageOK, StageOf, Acquire
  <2>2. Serves(c, request[c], Told(c, request[c], options[h]))
    BY <1>1, <2>1, ToldServes
  <2>3. options'[h] = Told(c, request[c], options[h]) /\ \A g \in Handles \ {h} : options'[g] = options[g]
    BY <1>1, <1>3
  <2>4. \A d \in Callers : \A i \in DOMAIN got[d] : options'[got[d][i]] = options[got[d][i]]
    BY <1>6, <2>3
  <2>5. \A i \in DOMAIN borrowed : options'[borrowed[i]] = options[borrowed[i]]
    BY <1>6, <2>3
  <2>6. \A i \in DOMAIN G : Serves(c, request[c], options'[G[i]])
    BY <1>2, <2>2, <2>3, <2>4 DEF OptionsOK
  <2>7. \A d \in Callers \ {c} : \A i \in DOMAIN got[d] : Serves(d, request[d], options'[got[d][i]])
    BY <2>4 DEF OptionsOK
  <2>. QED
    BY <1>3, <1>4, <2>5, <2>6, <2>7 DEF OptionsOK
<1>9. Covered'
  <2>. SUFFICES ASSUME NEW x \in Handles PROVE Placed(x)'
    BY DEF Covered, Handles
  <2>1. CASE x = h
    BY <1>2, <1>4, <2>1 DEF Placed
  <2>2. CASE x # h /\ \E i \in DOMAIN free : free[i] = x
    <3>1. PICK i \in DOMAIN free : free[i] = x
      BY <2>2
    <3>2. i \in DOMAIN F
      BY <1>1, <2>2, <3>1 DEF h
    <3>. QED
      BY <1>1, <1>3, <3>1, <3>2 DEF Placed
  <2>3. CASE \E i \in DOMAIN borrowed : borrowed[i] = x
    BY <1>3, <2>3 DEF Placed
  <2>4. ASSUME NEW d \in Callers, NEW i \in DOMAIN got[d], got[d][i] = x
        PROVE  Placed(x)'
    <3>1. CASE d = c
      <4>1. i \in DOMAIN got'[c] /\ got'[c][i] = x
        BY <1>2, <1>4, <2>4, <3>1
      <4>. QED
        BY <4>1 DEF Placed
    <3>2. CASE d # c
      BY <1>4, <2>4, <3>2 DEF Placed
    <3>. QED
      BY <3>1, <3>2
  <2>. QED
    BY <2>1, <2>2, <2>3, <2>4 DEF Covered, Placed
<1>. QED
  BY <1>7, <1>8, <1>9

(* release moves a caller's first handle to the end of the free ones.        *)
LEMMA ReleaseStep ==
  ASSUME PoolConstants, CleanInv, Covered, NEW c \in Callers, Release(c)
  PROVE  Apart' /\ OptionsOK' /\ Covered'
<1>. USE DEF CleanInv, PoolTypes
<1>. DEFINE h == got[c][1]
            F == Append(free, h)
            G == Tail(got[c])
<1>0. got[c] # <<>>
  BY DEF StageOK, StageOf, Release
<1>1. /\ h \in Handles /\ 1 \in DOMAIN got[c] /\ Head(got[c]) = h
      /\ G \in Seq(Handles) /\ Len(G) = Len(got[c]) - 1
      /\ \A i \in DOMAIN G : i + 1 \in DOMAIN got[c] /\ G[i] = got[c][i + 1]
  BY <1>0, Ends
<1>2. /\ F \in Seq(Handles) /\ Len(F) = Len(free) + 1 /\ F[Len(free) + 1] = h
      /\ Len(free) + 1 \in DOMAIN F
      /\ \A i \in DOMAIN free : i \in DOMAIN F /\ F[i] = free[i]
      /\ \A i \in DOMAIN F : i \in DOMAIN free \/ i = Len(free) + 1
  BY <1>1
<1>3. free' = F /\ got' = [got EXCEPT ![c] = G] /\ UNCHANGED <<options, request, borrowed>>
  BY <1>1 DEF Release
<1>4. got'[c] = G /\ \A d \in Callers \ {c} : got'[d] = got[d]
  BY <1>3
<1>5. /\ \A i \in DOMAIN free : free[i] # h
      /\ \A i \in DOMAIN borrowed : borrowed[i] # h
      /\ \A d \in Callers \ {c} : \A i \in DOMAIN got[d] : got[d][i] # h
      /\ \A i \in DOMAIN G : G[i] # h
  BY <1>1, SMTT(30) DEF Apart
<1>6. \A d \in Callers : \A i \in DOMAIN got'[d] : \E j \in DOMAIN got[d] : got'[d][i] = got[d][j]
  <2>. SUFFICES ASSUME NEW d \in Callers, NEW i \in DOMAIN got'[d]
                PROVE  \E j \in DOMAIN got[d] : got'[d][i] = got[d][j]
    OBVIOUS
  <2>. HIDE DEF G
  <2>1. CASE d = c
    BY <1>1, <1>4, <2>1
  <2>2. CASE d # c
    BY <1>4, <2>2
  <2>. QED
    BY <2>1, <2>2
<1>. HIDE DEF h, F, G
<1>7. Apart'
  <2>1. \A i, j \in DOMAIN F : F[i] = F[j] => i = j
    BY <1>2, <1>5 DEF Apart
  <2>2. \A i \in DOMAIN F, j \in DOMAIN borrowed : F[i] # borrowed[j]
    BY <1>2, <1>5 DEF Apart
  <2>3. \A i \in DOMAIN G :
          /\ \A j \in DOMAIN F : G[i] # F[j]
          /\ \A j \in DOMAIN borrowed : G[i] # borrowed[j]
          /\ \A j \in DOMAIN G : G[i] = G[j] => i = j
          /\ \A d \in Callers \ {c} : \A j \in DOMAIN got[d] : G[i] # got[d][j]
    <3>. SUFFICES ASSUME NEW i \in DOMAIN G
                  PROVE  /\ \A j \in DOMAIN F : G[i] # F[j]
                         /\ \A j \in DOMAIN borrowed : G[i] # borrowed[j]
                         /\ \A j \in DOMAIN G : G[i] = G[j] => i = j
                         /\ \A d \in Callers \ {c} : \A j \in DOMAIN got[d] : G[i] # got[d][j]
      OBVIOUS
    <3>1. i + 1 \in DOMAIN got[c] /\ G[i] = got[c][i + 1] /\ i \in Nat
      BY <1>1
    <3>2. \A j \in DOMAIN F : G[i] # F[j]
      BY <1>2, <1>5, <3>1 DEF Apart
    <3>3. \A j \in DOMAIN G : G[i] = G[j] => i = j
      <4>. SUFFICES ASSUME NEW j \in DOMAIN G, G[i] = G[j] PROVE i = j
        OBVIOUS
      <4>1. j + 1 \in DOMAIN got[c] /\ G[j] = got[c][j + 1] /\ j \in Nat
        BY <1>1
      <4>3. \A k, l \in DOMAIN got[c] : got[c][k] = got[c][l] => k = l
        BY DEF Apart
      <4>2. i + 1 = j + 1
        BY <3>1, <4>1, <4>3
      <4>. QED
        BY <3>1, <4>1, <4>2
    <3>. QED
      BY <3>1, <3>2, <3>3 DEF Apart
  <2>4. \A d \in Callers \ {c} : \A i \in DOMAIN got[d], j \in DOMAIN F : got[d][i] # F[j]
    BY <1>2, <1>5 DEF Apart
  <2>. QED
    BY <1>3, <1>4, <2>1, <2>2, <2>3, <2>4 DEF Apart
<1>8. OptionsOK'
  BY <1>3, <1>6 DEF OptionsOK
<1>9. Covered'
  <2>. SUFFICES ASSUME NEW x \in Handles PROVE Placed(x)'
    BY DEF Covered, Handles
  <2>1. CASE x = h
    BY <1>2, <1>3, <2>1 DEF Placed
  <2>2. CASE \E i \in DOMAIN free : free[i] = x
    BY <1>2, <1>3, <2>2 DEF Placed
  <2>3. CASE \E i \in DOMAIN borrowed : borrowed[i] = x
    BY <1>3, <2>3 DEF Placed
  <2>4. ASSUME NEW d \in Callers, NEW i \in DOMAIN got[d], got[d][i] = x, x # h
        PROVE  Placed(x)'
    <3>1. CASE d = c
      <4>1. i - 1 \in DOMAIN G /\ G[i - 1] = x
        BY <1>1, <2>4, <3>1 DEF h
      <4>. QED
        BY <1>4, <4>1 DEF Placed
    <3>2. CASE d # c
      BY <1>4, <2>4, <3>2 DEF Placed
    <3>. QED
      BY <3>1, <3>2
  <2>. QED
    BY <2>1, <2>2, <2>3, <2>4 DEF Covered, Placed
<1>. QED
  BY <1>7, <1>8, <1>9

(* The pinger cuts the free handles in two.                                  *)
LEMMA Segments ==
  ASSUME PoolConstants, PoolTypes, Borrow
  PROVE  \E n \in 0 .. Len(free) : /\ free' = SubSeq(free, 1, n)
                                  /\ borrowed' = SubSeq(free, n + 1, Len(free))
<1>. USE DEF PoolTypes
<1>. DEFINE taken == IF Len(free) < WarmConnections THEN Len(free) ELSE WarmConnections
<1>1. taken \in Nat /\ taken <= Len(free)
  BY DEF PoolConstants
<1>2. /\ borrowed' = SubSeq(free, Len(free) - taken + 1, Len(free))
      /\ free' = SubSeq(free, 1, Len(free) - taken)
  BY DEF Borrow
<1>. HIDE DEF taken
<1>3. Len(free) - taken \in 0 .. Len(free)
  BY <1>1
<1>. QED
  BY <1>2, <1>3

(* The pinger borrows the last free handles and tells them what a ping does. *)
LEMMA BorrowStep ==
  ASSUME PoolConstants, CleanInv, Covered, Borrow
  PROVE  Apart' /\ OptionsOK' /\ Covered'
<1>. USE DEF CleanInv, PoolTypes
<1>1. PICK n \in 0 .. Len(free) : free' = SubSeq(free, 1, n) /\ borrowed' = SubSeq(free, n + 1, Len(free))
  BY Segments
<1>2. /\ borrowed = <<>>
      /\ options' = [g \in Handles |-> IF Contains(borrowed', g) THEN Ping(options[g]) ELSE options[g]]
      /\ UNCHANGED <<got, request>>
  BY DEF Borrow, PingerDue, StageOK
<1>3. /\ free' \in Seq(Handles) /\ Len(free') = n
      /\ \A i \in DOMAIN free' : i \in DOMAIN free /\ free'[i] = free[i] /\ i <= n
  BY <1>1
<1>4. /\ borrowed' \in Seq(Handles) /\ Len(borrowed') = Len(free) - n
      /\ \A i \in DOMAIN borrowed' : n + i \in DOMAIN free /\ borrowed'[i] = free[n + i] /\ i > 0
  BY <1>1
<1>5. Apart'
  BY <1>2, <1>3, <1>4 DEF Apart
<1>6. OptionsOK'
  <2>1. \A c \in Callers : \A i \in DOMAIN got[c] : options'[got[c][i]] = options[got[c][i]]
    <3>1. ASSUME NEW c \in Callers, NEW i \in DOMAIN got[c]
          PROVE  ~Contains(borrowed', got[c][i]) /\ got[c][i] \in Handles
      BY <1>4 DEF Contains, Apart
    <3>. QED
      BY <1>2, <3>1
  <2>2. ASSUME NEW i \in DOMAIN borrowed'
        PROVE  Pinged(options'[borrowed'[i]])
    <3>1. borrowed'[i] \in Handles /\ Contains(borrowed', borrowed'[i])
      BY <1>4 DEF Contains
    <3>. QED
      BY <1>2, <3>1, PingPings
  <2>. QED
    BY <1>2, <2>1, <2>2 DEF OptionsOK
<1>7. Covered'
  <2>. SUFFICES ASSUME NEW x \in Handles PROVE Placed(x)'
    BY DEF Covered, Handles
  <2>1. ASSUME NEW i \in DOMAIN free, free[i] = x
        PROVE  Placed(x)'
    <3>1. CASE i <= n
      <4>1. i \in DOMAIN free' /\ free'[i] = x
        BY <1>3, <2>1, <3>1
      <4>. QED
        BY <4>1 DEF Placed
    <3>2. CASE i > n
      <4>1. i - n \in DOMAIN borrowed' /\ borrowed'[i - n] = x
        BY <1>4, <2>1, <3>2
      <4>. QED
        BY <4>1 DEF Placed
    <3>. QED
      BY <3>1, <3>2
  <2>2. CASE \E c \in Callers : \E i \in DOMAIN got[c] : got[c][i] = x
    BY <1>2, <2>2 DEF Placed
  <2>. QED
    BY <1>2, <2>1, <2>2, SMTT(30) DEF Covered, Placed
<1>. QED
  BY <1>5, <1>6, <1>7

(* The pinger gives the borrowed handles back.                               *)
LEMMA GiveBackStep ==
  ASSUME PoolConstants, CleanInv, Covered, GiveBack
  PROVE  Apart' /\ OptionsOK' /\ Covered'
<1>. USE DEF CleanInv, PoolTypes
<1>1. free' = free \o borrowed /\ borrowed' = <<>> /\ UNCHANGED <<got, options, request>>
  BY DEF GiveBack
<1>2. /\ free' \in Seq(Handles) /\ Len(free') = Len(free) + Len(borrowed)
      /\ \A i \in DOMAIN free : i \in DOMAIN free' /\ free'[i] = free[i]
      /\ \A i \in DOMAIN borrowed : Len(free) + i \in DOMAIN free' /\ free'[Len(free) + i] = borrowed[i]
      /\ \A i \in DOMAIN free' :
           i \notin DOMAIN free => i - Len(free) \in DOMAIN borrowed /\ free'[i] = borrowed[i - Len(free)]
  <2>1. free' \in Seq(Handles) /\ Len(free') = Len(free) + Len(borrowed)
    BY <1>1
  <2>2. \A i \in DOMAIN free : i \in DOMAIN free' /\ free'[i] = free[i]
    BY <1>1
  <2>3. \A i \in DOMAIN borrowed : Len(free) + i \in DOMAIN free' /\ free'[Len(free) + i] = borrowed[i]
    BY <1>1
  <2>4. \A i \in DOMAIN free' :
          i \notin DOMAIN free => i - Len(free) \in DOMAIN borrowed /\ free'[i] = borrowed[i - Len(free)]
    BY <1>1, <2>1
  <2>. QED
    BY <2>1, <2>2, <2>3, <2>4
<1>3. Apart'
  BY <1>1, <1>2, SMTT(30) DEF Apart
<1>4. OptionsOK'
  BY <1>1 DEF OptionsOK
<1>5. Covered'
  <2>. SUFFICES ASSUME NEW x \in Handles PROVE Placed(x)'
    BY DEF Covered, Handles
  <2>1. CASE \E c \in Callers : \E i \in DOMAIN got[c] : got[c][i] = x
    BY <1>1, <2>1 DEF Placed
  <2>2. CASE \E i \in DOMAIN free : free[i] = x
    BY <1>2, <2>2 DEF Placed
  <2>3. CASE \E i \in DOMAIN borrowed : borrowed[i] = x
    BY <1>2, <2>3 DEF Placed
  <2>. QED
    BY <2>1, <2>2, <2>3 DEF Covered, Placed
<1>. QED
  BY <1>3, <1>4, <1>5

-----------------------------------------------------------------------------
(* A handle moves only in these steps; no step changes the request of a      *)
(* caller that holds one.                                                    *)
LEMMA HandlesStep ==
  ASSUME PoolConstants, CleanInv, Covered, PoolNext
  PROVE  Apart' /\ OptionsOK' /\ Covered'
<1>. USE DEF CleanInv
<1>1. ASSUME NEW c \in Callers, NEW k \in CallsOf[c], Request(c, k)
      PROVE  Apart' /\ OptionsOK' /\ Covered'
  <2>1. got[c] = <<>> /\ UNCHANGED <<free, options, got, borrowed>>
        /\ \A d \in Callers \ {c} : request'[d] = request[d]
    BY <1>1 DEF Request, StageOK, StageOf, PoolTypes
  <2>. QED
    BY <2>1, StillStep
<1>2. ASSUME NEW c \in Callers, WakeCaller(c)
      PROVE  Apart' /\ OptionsOK' /\ Covered'
  <2>1. UNCHANGED <<free, options, got, borrowed>>
        /\ \A d \in Callers : got[d] = <<>> \/ request'[d] = request[d]
    BY <1>2 DEF WakeCaller, PoolTypes
  <2>. QED
    BY <2>1, StillStep
<1>3. ASSUME NEW c \in Callers, WaitForHandle(c) \/ Transferred(c)
      PROVE  Apart' /\ OptionsOK' /\ Covered'
  BY <1>3, StillStep DEF WaitForHandle, Transferred
<1>4. ASSUME TimePasses \/ WakeCallers
      PROVE  Apart' /\ OptionsOK' /\ Covered'
  BY <1>4, StillStep DEF TimePasses, WakeCallers
<1>. QED
  BY <1>1, <1>2, <1>3, <1>4, AcquireStep, ReleaseStep, BorrowStep, GiveBackStep DEF PoolNext

(* Every step keeps the types.                                               *)
LEMMA TypesStep ==
  ASSUME PoolConstants, PoolTypes, StageOK, PoolNext
  PROVE  PoolTypes'
<1>. USE DEF PoolTypes, Stages, Handles
<1>1. ASSUME NEW c \in Callers, NEW k \in CallsOf[c], Request(c, k)
      PROVE  PoolTypes'
  BY <1>1 DEF Request, PoolConstants
<1>2. ASSUME NEW c \in Callers, Acquire(c)
      PROVE  PoolTypes'
  <2>1. /\ free # <<>> /\ Front(free) \in Seq(Handles) /\ Last(free) \in Handles
    BY <1>2, Ends DEF Acquire
  <2>2. request[c] \in Kinds
    BY <1>2 DEF Acquire, StageOK, StageOf
  <2>3. Told(c, request[c], options[Last(free)]) \in Option
    BY <2>1, <2>2, ToldServes
  <2>4. options' = [options EXCEPT ![Last(free)] = Told(c, request[c], options[Last(free)])]
    BY <1>2 DEF Acquire
  <2>5. options' \in [Handles -> Option]
    BY <2>1, <2>3, <2>4
  <2>6. free' \in Seq(Handles) /\ got' \in [Callers -> Seq(Handles)]
    BY <1>2, <2>1 DEF Acquire
  <2>7. doing' \in [Callers -> Stages]
    BY <1>2 DEF Acquire
  <2>. QED
    BY <1>2, <2>5, <2>6, <2>7 DEF Acquire
<1>3. ASSUME NEW c \in Callers, WaitForHandle(c) \/ Transferred(c)
      PROVE  PoolTypes'
  BY <1>3 DEF WaitForHandle, Transferred
<1>4. ASSUME NEW c \in Callers, Release(c)
      PROVE  PoolTypes'
  <2>1. got[c] # <<>>
    BY <1>4 DEF Release, StageOK, StageOf
  <2>. QED
    <3>1. Head(got[c]) \in Handles /\ Tail(got[c]) \in Seq(Handles)
      BY <2>1, Ends
    <3>. HIDE DEF Handles
    <3>. QED
      BY <1>4, <3>1 DEF Release
<1>5. ASSUME NEW c \in Callers, WakeCaller(c)
      PROVE  PoolTypes'
  <2>1. doing' \in [Callers -> Stages]
    BY <1>5 DEF WakeCaller
  <2>2. request' \in [Callers -> Kinds \cup {NoRequest}]
    BY <1>5 DEF WakeCaller
  <2>. QED
    BY <1>5, <2>1, <2>2 DEF WakeCaller
<1>6. ASSUME TimePasses \/ WakeCallers \/ GiveBack
      PROVE  PoolTypes'
  <2>1. CASE TimePasses
    BY <2>1 DEF TimePasses
  <2>2. CASE WakeCallers
    BY <2>2 DEF WakeCallers
  <2>3. CASE GiveBack
    BY <2>3 DEF GiveBack
  <2>. QED
    BY <1>6, <2>1, <2>2, <2>3
<1>7. ASSUME Borrow
      PROVE  PoolTypes'
  <2>1. \A h \in Handles : Ping(options[h]) \in Option
    BY PingPings
  <2>2. options' \in [Handles -> Option]
    BY <1>7, <2>1 DEF Borrow
  <2>3. free' \in Seq(Handles) /\ borrowed' \in Seq(Handles)
    <3>1. PICK n \in 0 .. Len(free) : free' = SubSeq(free, 1, n) /\ borrowed' = SubSeq(free, n + 1, Len(free))
      BY <1>7, Segments
    <3>. HIDE DEF Handles
    <3>. QED
      BY <3>1
  <2>. QED
    BY <1>7, <2>2, <2>3 DEF Borrow
<1>. QED
  BY <1>1, <1>2, <1>3, <1>4, <1>5, <1>6, <1>7 DEF PoolNext

(* Every step keeps the number of handles a caller holds in its bounds.      *)
LEMMA StageStep ==
  ASSUME PoolConstants, PoolTypes, StageOK, PoolNext
  PROVE  StageOK'
<1>. USE DEF PoolTypes, Stages, StageOK
<1>1. ASSUME NEW c \in Callers, NEW k \in CallsOf[c], Request(c, k)
      PROVE  StageOK'
  BY <1>1, Sizes DEF Request, StageOf, PoolConstants
<1>2. ASSUME NEW c \in Callers, Acquire(c)
      PROVE  StageOK'
  <2>1. Size(request[c]) \in Nat /\ Len(got[c]) < Size(request[c])
    BY <1>2, Sizes DEF Acquire, StageOf
  <2>2. Len(got'[c]) = Len(got[c]) + 1
    BY <1>2, Ends DEF Acquire
  <2>3. doing'[c] = IF Len(got'[c]) = Size(request[c]) THEN "sending" ELSE "acquiring"
    BY <1>2 DEF Acquire
  <2>4. StageOf(c)'
    BY <1>2, <2>1, <2>2, <2>3 DEF Acquire, StageOf
  <2>5. \A d \in Callers \ {c} : StageOf(d)'
    BY <1>2 DEF Acquire, StageOf
  <2>. QED
    BY <1>2, <2>4, <2>5 DEF Acquire
<1>3. ASSUME NEW c \in Callers, WaitForHandle(c) \/ Transferred(c)
      PROVE  StageOK'
  BY <1>3, Sizes DEF WaitForHandle, Transferred, StageOf
<1>4. ASSUME NEW c \in Callers, Release(c)
      PROVE  StageOK'
  <2>1. Size(request[c]) \in Nat /\ Len(got[c]) <= Size(request[c]) /\ got[c] # <<>>
    BY <1>4, Sizes DEF Release, StageOf
  <2>2. Len(got'[c]) = Len(got[c]) - 1
    BY <1>4, <2>1, Ends DEF Release
  <2>3. StageOf(c)'
    BY <1>4, <2>1, <2>2 DEF Release, StageOf
  <2>4. \A d \in Callers \ {c} : StageOf(d)'
    BY <1>4 DEF Release, StageOf
  <2>. QED
    BY <1>4, <2>3, <2>4 DEF Release
<1>5. ASSUME NEW c \in Callers, WakeCaller(c)
      PROVE  StageOK'
  <2>1. UNCHANGED <<got, pinger, borrowed>>
    BY <1>5 DEF WakeCaller
  <2>2. doing'[c] = (IF got[c] = <<>> THEN "idle" ELSE "returning")
        /\ request'[c] = (IF got[c] = <<>> THEN NoRequest ELSE request[c])
    BY <1>5 DEF WakeCaller, In
  <2>3. \A d \in Callers \ {c} :
          /\ doing'[d] = doing[d] \/ (doing[d] = "asleep" /\ doing'[d] = "acquiring")
          /\ request'[d] = request[d]
    <3>1. CASE In("asleep") = {}
      BY <1>5, <3>1 DEF WakeCaller
    <3>2. ASSUME NEW w \in In("asleep"),
                 doing' = [[doing EXCEPT ![c] = IF got[c] = <<>> THEN "idle" ELSE "returning"]
                             EXCEPT ![w] = "acquiring"]
          PROVE  \A d \in Callers \ {c} :
                   doing'[d] = doing[d] \/ (doing[d] = "asleep" /\ doing'[d] = "acquiring")
      BY <3>2 DEF In
    <3>3. \A d \in Callers \ {c} : request'[d] = request[d]
      BY <1>5 DEF WakeCaller
    <3>. QED
      BY <1>5, <3>1, <3>2, <3>3 DEF WakeCaller
  <2>4. StageOf(c)'
    BY <1>5, <2>1, <2>2, Sizes DEF StageOf, WakeCaller
  <2>5. \A d \in Callers \ {c} : StageOf(d)'
    BY <2>1, <2>3 DEF StageOf
  <2>. QED
    BY <2>1, <2>4, <2>5
<1>6. ASSUME TimePasses \/ WakeCallers \/ GiveBack \/ Borrow
      PROVE  StageOK'
  <2>1. UNCHANGED <<got, request>>
    BY <1>6 DEF TimePasses, WakeCallers, GiveBack, Borrow
  <2>2. \A d \in Callers : doing'[d] = doing[d] \/ (doing[d] = "asleep" /\ doing'[d] = "acquiring")
    BY <1>6 DEF TimePasses, WakeCallers, GiveBack, Borrow
  <2>3. pinger' # "warming" => borrowed' = <<>>
    <3>1. CASE Borrow
      <4>. DEFINE taken == IF Len(free) < WarmConnections THEN Len(free) ELSE WarmConnections
      <4>1. /\ borrowed' = SubSeq(free, Len(free) - taken + 1, Len(free))
            /\ pinger' = IF taken = 0 THEN "waiting" ELSE "warming"
        BY <3>1 DEF Borrow
      <4>2. Len(free) \in Nat
        OBVIOUS
      <4>. HIDE DEF taken
      <4>. SUFFICES ASSUME taken = 0 PROVE borrowed' = <<>>
        BY <4>1
      <4>3. borrowed' = SubSeq(free, Len(free) + 1, Len(free))
        BY <4>1, <4>2
      <4>. QED
        BY <4>2, <4>3
    <3>. QED
      BY <1>6, <3>1 DEF TimePasses, WakeCallers, GiveBack
  <2>. QED
    BY <2>1, <2>2, <2>3 DEF StageOf
<1>. QED
  BY <1>1, <1>2, <1>3, <1>4, <1>5, <1>6 DEF PoolNext

(* Every step keeps the handles where they are looked after.                 *)
LEMMA CleanStep ==
  ASSUME PoolConstants, CleanInv, Covered, [PoolNext]_poolState
  PROVE  CleanInv' /\ Covered'
<1>1. CASE PoolNext
  BY <1>1, HandlesStep, TypesStep, StageStep DEF CleanInv
<1>2. CASE UNCHANGED poolState
  BY <1>2 DEF poolState, CleanInv, PoolTypes, StageOK, StageOf, Apart, OptionsOK, Covered, Placed
<1>. QED
  BY <1>1, <1>2

(* During a transfer its handle has nothing left of the requests it served   *)
(* before: every kind of request sets every option that another one sets. A  *)
(* ping keeps the length of a body, and nothing else.                        *)
THEOREM HandlesAreClean ==
  ASSUME PoolConstants
  PROVE  PoolSpec => []NothingLeftOver
<1>1. PoolInit => CleanInv /\ Covered
  BY CleanInit
<1>2. CleanInv /\ Covered /\ [PoolNext]_poolState => CleanInv' /\ Covered'
  BY CleanStep
<1>3. CleanInv => NothingLeftOver
  <2>. SUFFICES ASSUME CleanInv PROVE NothingLeftOver
    OBVIOUS
  <2>1. \A i \in DOMAIN borrowed : Pinged(options[borrowed[i]])
    BY DEF CleanInv, OptionsOK
  <2>2. \A c \in Callers : \A i \in DOMAIN got[c] : Serves(c, request[c], options[got[c][i]])
    BY DEF CleanInv, OptionsOK
  <2>. QED
    BY <2>1, <2>2 DEF NothingLeftOver, Serves, Pinged, In
<1>. QED
  BY <1>1, <1>2, <1>3, PTL DEF PoolSpec

-----------------------------------------------------------------------------
(* Those that are about to take a handle, or to wake somebody who will.      *)
Stirring == In("acquiring") \cup In("notifying")

(* While somebody sleeps there are no more free handles than callers that    *)
(* stir, unless the pinger is about to wake them all.                        *)
Attended ==
  In("asleep") # {} /\ pinger # "notifying" => Len(free) <= Cardinality(Stirring)

(* Sizes of sets of callers.                                                 *)
LEMMA Counts ==
  ASSUME PoolConstants, NEW A \in SUBSET Callers
  PROVE  /\ IsFiniteSet(A) /\ Cardinality(A) \in Nat
         /\ \A B \in SUBSET A : Cardinality(B) <= Cardinality(A)
         /\ \A c \in Callers \ A : Cardinality(A \cup {c}) = Cardinality(A) + 1
         /\ \A c \in A : Cardinality(A \ {c}) = Cardinality(A) - 1
<1>1. IsFiniteSet(A) /\ Cardinality(A) \in Nat
  BY FS_Subset, FS_CardinalityType DEF PoolConstants
<1>. QED
  BY <1>1, FS_Subset, FS_AddElement, FS_RemoveElement

(* Every step keeps a free handle attended to.                               *)
LEMMA AttendedStep ==
  ASSUME PoolConstants, PoolTypes, StageOK, Attended, PoolNext
  PROVE  Attended'
<1>. USE DEF PoolTypes, Stages
<1>0. Len(free) \in Nat
  OBVIOUS
<1>00. Stirring \in SUBSET Callers /\ Stirring' \in SUBSET Callers
  BY DEF Stirring, In
<1>. DEFINE n == Cardinality(Stirring)
            m == Cardinality(Stirring')
<1>01. n \in Nat /\ m \in Nat
  BY <1>00, Counts
<1>1. ASSUME NEW c \in Callers, NEW k \in CallsOf[c], Request(c, k)
      PROVE  Attended'
  <2>1. Stirring \subseteq Stirring'
    BY <1>1 DEF Request, Stirring, In
  <2>2. In("asleep")' = In("asleep") /\ UNCHANGED <<free, pinger>>
    BY <1>1 DEF Request, In
  <2>3. n <= m
    BY <1>00, <2>1, Counts
  <2>. HIDE DEF Stirring
  <2>. QED
    BY <1>0, <1>01, <2>2, <2>3 DEF Attended
<1>2. ASSUME NEW c \in Callers, Acquire(c)
      PROVE  Attended'
  <2>1. Len(free') = Len(free) - 1
    BY <1>2, Ends DEF Acquire
  <2>2. c \in Stirring /\ Stirring \ {c} \subseteq Stirring'
    BY <1>2 DEF Acquire, Stirring, In
  <2>3. In("asleep")' = In("asleep") /\ UNCHANGED pinger
    BY <1>2 DEF Acquire, In
  <2>4. Cardinality(Stirring \ {c}) = n - 1
    BY <1>00, <2>2, Counts
  <2>5. Cardinality(Stirring \ {c}) <= m
    BY <1>00, <2>2, Counts
  <2>. QED
    BY <1>0, <1>01, <2>1, <2>3, <2>4, <2>5 DEF Attended
<1>3. ASSUME NEW c \in Callers, WaitForHandle(c)
      PROVE  Attended'
  <2>1. Len(free') = 0
    BY <1>3 DEF WaitForHandle
  <2>. QED
    BY <1>01, <2>1 DEF Attended
<1>4. ASSUME NEW c \in Callers, Transferred(c)
      PROVE  Attended'
  <2>1. In("asleep")' = In("asleep") /\ Stirring' = Stirring /\ UNCHANGED <<free, pinger>>
    BY <1>4 DEF Transferred, Stirring, In
  <2>. QED
    BY <2>1 DEF Attended
<1>5. ASSUME NEW c \in Callers, Release(c)
      PROVE  Attended'
  <2>1. Len(free') = Len(free) + 1
    BY <1>5 DEF Release
  <2>2. c \notin Stirring /\ Stirring' = Stirring \cup {c}
    BY <1>5 DEF Release, Stirring, In
  <2>3. In("asleep")' = In("asleep") /\ UNCHANGED pinger
    BY <1>5 DEF Release, In
  <2>4. m = n + 1
    BY <1>00, <2>2, Counts
  <2>. QED
    BY <1>0, <1>01, <2>1, <2>3, <2>4 DEF Attended
<1>6. ASSUME NEW c \in Callers, WakeCaller(c)
      PROVE  Attended'
  <2>1. UNCHANGED <<free, pinger>>
    BY <1>6 DEF WakeCaller
  <2>2. CASE In("asleep") = {}
    <3>1. In("asleep")' = {}
      BY <1>6, <2>2 DEF WakeCaller, In
    <3>. QED
      BY <3>1 DEF Attended
  <2>3. ASSUME NEW w \in In("asleep"),
               doing' = [[doing EXCEPT ![c] = IF got[c] = <<>> THEN "idle" ELSE "returning"]
                           EXCEPT ![w] = "acquiring"]
        PROVE  Attended'
    <3>1. c \in Stirring /\ w \in Callers \ Stirring /\ w # c
      BY <1>6 DEF WakeCaller, Stirring, In
    <3>2. (Stirring \cup {w}) \ {c} = Stirring'
      BY <1>6, <2>3, <3>1 DEF WakeCaller, Stirring, In
    <3>3. m = n
      <4>. DEFINE W == Stirring \cup {w}
      <4>1. Cardinality(W) = n + 1 /\ W \in SUBSET Callers /\ c \in W
        BY <1>00, <3>1, Counts
      <4>2. W \ {c} = Stirring'
        BY <3>2
      <4>. HIDE DEF W
      <4>3. Cardinality(W \ {c}) = Cardinality(W) - 1
        BY <4>1, Counts
      <4>4. m = Cardinality(W \ {c})
        BY <4>2, Zenon
      <4>. QED
        BY <1>01, <4>1, <4>3, <4>4
    <3>. QED
      BY <2>1, <2>3, <3>3 DEF Attended
  <2>. QED
    BY <1>6, <2>2, <2>3 DEF WakeCaller
<1>7. ASSUME Borrow
      PROVE  Attended'
  <2>1. Len(free') <= Len(free) /\ Len(free') \in Nat
    BY <1>7, <1>0, Segments
  <2>2. In("asleep")' = In("asleep") /\ Stirring' = Stirring /\ pinger # "notifying"
    BY <1>7 DEF Borrow, PingerDue, In, Stirring
  <2>. QED
    BY <1>0, <1>01, <2>1, <2>2 DEF Attended
<1>8. ASSUME TimePasses
      PROVE  Attended'
  BY <1>8 DEF TimePasses, Attended, Stirring, In
<1>9. ASSUME GiveBack
      PROVE  Attended'
  BY <1>9 DEF GiveBack, Attended
<1>10. ASSUME WakeCallers
       PROVE  Attended'
  <2>1. In("asleep")' = {}
    BY <1>10 DEF WakeCallers, In
  <2>. QED
    BY <2>1 DEF Attended
<1>. QED
  BY <1>1, <1>2, <1>3, <1>4, <1>5, <1>6, <1>7, <1>8, <1>9, <1>10 DEF PoolNext

(* When no handle is free and the pinger has none, a caller has all that it  *)
(* needs: the callers that still wait, or have given one back, are batches   *)
(* and hold at most one handle less than a batch each, which leaves some.    *)
LEMMA SomeoneFinishes ==
  ASSUME PoolConstants, PoolIsLarge, CleanInv, Covered, free = <<>>, pinger # "warming"
  PROVE  In("sending") \cup In("returning") # {}
<1>. SUFFICES ASSUME In("sending") \cup In("returning") = {} PROVE FALSE
  OBVIOUS
<1>. DEFINE Held == Batchers \X (1 .. (BatchSize - 1))
            holds(h, x) == x[2] \in DOMAIN got[x[1]] /\ got[x[1]][x[2]] = h
            where == [h \in Handles |-> CHOOSE x \in Held : holds(h, x)]
<1>1. ASSUME NEW h \in Handles
      PROVE  \E x \in Held : holds(h, x)
  <2>1. PICK c \in Callers : \E i \in DOMAIN got[c] : got[c][i] = h
    BY <1>1 DEF Covered, Placed, CleanInv, StageOK
  <2>2. PICK i \in DOMAIN got[c] : got[c][i] = h
    BY <2>1
  <2>3. got[c] \in Seq(Handles) /\ i \in 1 .. Len(got[c])
    BY DEF CleanInv, PoolTypes
  <2>4. doing[c] \in {"acquiring", "asleep", "notifying"}
    BY <2>2, <2>3 DEF CleanInv, PoolTypes, StageOK, StageOf, Stages, In
  <2>5. request[c] \in CallsOf[c] /\ Len(got[c]) < Size(request[c])
    BY <2>4 DEF CleanInv, StageOK, StageOf
  <2>6. Size(request[c]) > 1
    BY <2>3, <2>5, Sizes
  <2>7. request[c] = "batch" /\ Size(request[c]) = BatchSize
    BY <2>6, Sizes
  <2>8. <<c, i>> \in Held
    BY <2>3, <2>5, <2>7 DEF Batchers, PoolConstants
  <2>9. holds(h, <<c, i>>)
    BY <2>2
  <2>. QED
    BY <2>8, <2>9
<1>2. \A h \in Handles : where[h] \in Held /\ holds(h, where[h])
  <2>. HIDE DEF Held, holds
  <2>. QED
    BY <1>1
<1>3. where \in Injection(Handles, Held)
  <2>1. \A g, h \in Handles : where[g] = where[h] => g = h
    BY <1>2
  <2>2. where \in [Handles -> Held]
    BY <1>2
  <2>. HIDE DEF where, Held
  <2>. QED
    BY <2>1, <2>2 DEF Injection, IsInjective
<1>4. /\ IsFiniteSet(Held)
      /\ Cardinality(Held) = Cardinality(Batchers) * (BatchSize - 1)
  <2>1. Batchers \in SUBSET Callers
    BY DEF Batchers
  <2>2. IsFiniteSet(Batchers) /\ Cardinality(Batchers) \in Nat
    BY <2>1, Counts
  <2>3. IsFiniteSet(1 .. (BatchSize - 1)) /\ Cardinality(1 .. (BatchSize - 1)) = BatchSize - 1
    BY FS_Interval DEF PoolConstants
  <2>4. IsFiniteSet(Held) /\ Cardinality(Held) = Cardinality(Batchers) * Cardinality(1 .. (BatchSize - 1))
    BY <2>2, <2>3, FS_Product
  <2>. QED
    BY <2>3, <2>4
<1>5. Cardinality(Handles) = PoolSize
  BY FS_Interval DEF PoolConstants, Handles
<1>6. PoolSize <= Cardinality(Batchers) * (BatchSize - 1)
  <2>. HIDE DEF where, Held
  <2>. QED
    BY <1>3, <1>4, <1>5, FS_Injection
<1>. QED
  <2>1. Cardinality(Batchers) \in Nat
    BY Counts DEF Batchers
  <2>. QED
    BY <1>6, <2>1 DEF PoolIsLarge, PoolConstants

(* A caller that sleeps for a handle is not forgotten: while a handle is     *)
(* free somebody is awake to take it or about to be woken, and while none is *)
(* free one of those that hold them can finish without another. The pool has *)
(* more handles than all batches together can hold while they wait; nothing  *)
(* else is asked of its size, or of how many callers there are.              *)
THEOREM NobodyIsForgotten ==
  ASSUME PoolConstants, PoolIsLarge
  PROVE  PoolSpec => []PoolServes
<1>. DEFINE Inv == CleanInv /\ Covered /\ Attended
<1>1. PoolInit => Inv
  BY CleanInit DEF PoolInit, Attended, In
<1>2. Inv /\ [PoolNext]_poolState => Inv'
  <2>. SUFFICES ASSUME Inv, [PoolNext]_poolState PROVE Inv'
    OBVIOUS
  <2>1. CleanInv' /\ Covered'
    BY CleanStep
  <2>2. CASE PoolNext
    BY <2>1, <2>2, AttendedStep DEF CleanInv
  <2>3. CASE UNCHANGED poolState
    BY <2>1, <2>3 DEF poolState, Attended, Stirring, In
  <2>. QED
    BY <2>2, <2>3
<1>3. Inv => PoolServes
  <2>. SUFFICES ASSUME Inv, In("asleep") # {} PROVE
         IF free # <<>>
         THEN In("acquiring") # {} \/ In("notifying") # {} \/ pinger = "notifying"
         ELSE In("sending") \cup In("returning") # {} \/ pinger = "warming"
    BY DEF PoolServes
  <2>1. CASE free = <<>>
    BY <2>1, SomeoneFinishes
  <2>2. CASE free # <<>> /\ pinger # "notifying"
    <3>1. Len(free) \in Nat /\ Len(free) > 0
      BY <2>2 DEF CleanInv, PoolTypes
    <3>2. Len(free) <= Cardinality(Stirring)
      BY <2>2 DEF Attended
    <3>3. Stirring # {}
      BY <3>1, <3>2, FS_EmptySet
    <3>. QED
      BY <2>2, <3>3 DEF Stirring
  <2>. QED
    BY <2>1, <2>2
<1>. QED
  BY <1>1, <1>2, <1>3, PTL DEF PoolSpec

=============================================================================

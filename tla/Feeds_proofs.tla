---------------------------- MODULE Feeds_proofs ----------------------------
(***************************************************************************)
(* The external feeds for any number of symbols, feed threads, callbacks,   *)
(* stacks and sources: no order rests on a dark source, no callback runs    *)
(* after its unregistration, no health flag outlives its connection, and    *)
(* errors in a row blank every quote.                                       *)
(***************************************************************************)
EXTENDS ExternalFeed, FeedCallbacks, FeedGuardian, FiniteSetTheorems, TLAPS

-----------------------------------------------------------------------------
(* FeedGuardian.                                                             *)

(* Every guarded stack quotes an instrument of the configuration.            *)
GuardConstants == AxOf \in [GuardedStacks -> GuardedAx]

(* Orders are of guarded stacks.                                             *)
RestsOK == \A o \in rests : o.stack \in GuardedStacks

(* A source is called dark, or is on its way to be, only while it is down.   *)
DownOK == \A f \in dark \cup readDown : f \in Sources /\ ~sourceUp[f]

(* What the running heartbeat has read as down rests only on instruments it   *)
(* still has to cancel.                                                      *)
BeatOK ==
  \A o \in rests :
    Src(o.stack) \in readDown /\ AxOf[o.stack] \notin toCancel => o.id \in inFlightThen

(* The inductive invariant behind DownIsDark.                                *)
GuardInv ==
  /\ sourceUp \in [Sources -> BOOLEAN]
  /\ feeds \in {"multi", "single"}
  /\ toCancel \subseteq GuardedAx
  /\ RestsOK
  /\ DownOK
  /\ BeatOK
  /\ DownIsDark

(* A step that neither adds an order nor calls a source down, and takes no    *)
(* instrument off the list, keeps the invariant.                             *)
LEMMA GuardFrame ==
  ASSUME GuardInv, UNCHANGED <<feeds, sourceUp>>, toCancel' = toCancel,
         rests' \subseteq rests, inFlightThen' = inFlightThen,
         dark' = dark, readDown' = readDown
  PROVE  GuardInv'
BY DEF GuardInv, RestsOK, DownOK, BeatOK, DownIsDark, Src

(* The start of a heartbeat that is to cancel every instrument on which an    *)
(* order priced from a source that is down may rest.                         *)
LEMMA HeartbeatStep ==
  ASSUME GuardInv, NEW stage, NEW xs \in SUBSET GuardedAx, Heartbeat(stage, xs),
         \A s \in GuardedStacks : Src(s) \in Sources /\ ~sourceUp[Src(s)] => AxOf[s] \in xs
  PROVE  GuardInv'
<1>. USE DEF GuardInv
<1>1. readDown' = {f \in Sources : ~sourceUp[f]} /\ toCancel' = xs
  BY DEF Heartbeat
<1>2. UNCHANGED <<feeds, sourceUp, rests, dark, inFlightThen>>
  BY DEF Heartbeat
<1>3. BeatOK'
  BY <1>1, <1>2 DEF BeatOK, RestsOK, Src
<1>. QED
  BY <1>1, <1>2, <1>3 DEF RestsOK, DownOK, DownIsDark, Src

(* Every step keeps the guardian's invariant.                                *)
LEMMA GuardStep ==
  ASSUME GuardConstants, GuardInv, [GuardNext]_guardState
  PROVE  GuardInv'
<1>1. ASSUME NEW f \in Sources, SourceChanges(f)
      PROVE  GuardInv'
  BY <1>1 DEF SourceChanges, GuardInv, RestsOK, DownOK, BeatOK, DownIsDark, Src
<1>2. ASSUME NEW s \in GuardedStacks, PriceChecked(s) \/ CycleEnds(s) \/ ShowTracked(s) \/ ResetStack(s)
      PROVE  GuardInv'
  BY <1>2, GuardFrame DEF PriceChecked, CycleEnds, ShowTracked, ResetStack
<1>3. ASSUME NEW s \in GuardedStacks, CancelAllAndReset(s)
      PROVE  GuardInv'
  BY <1>3, GuardFrame DEF CancelAllAndReset
<1>4. ASSUME NEW s \in GuardedStacks, PlaceAfterCheck(s)
      PROVE  GuardInv'
  <2>. DEFINE o == [id |-> count + 1, stack |-> s]
  <2>1. rests' = rests \cup {o} /\ UNCHANGED <<feeds, sourceUp, toCancel, dark, readDown>>
    BY <1>4 DEF PlaceAfterCheck
  <2>2. inFlightThen' = IF sourceUp[Src(s)] THEN inFlightThen ELSE inFlightThen \cup {o.id}
    BY <1>4 DEF PlaceAfterCheck
  <2>3. RestsOK' /\ DownOK'
    BY <2>1 DEF GuardInv, RestsOK, DownOK
  <2>4. Src(s) \in dark \cup readDown => o.id \in inFlightThen'
    BY <2>2 DEF GuardInv, DownOK
  <2>5. inFlightThen \subseteq inFlightThen' /\ o.stack = s
    BY <2>2
  <2>. HIDE DEF o
  <2>6. BeatOK' /\ DownIsDark'
    BY <2>1, <2>4, <2>5 DEF GuardInv, BeatOK, DownIsDark, Src
  <2>. QED
    BY <2>1, <2>3, <2>6 DEF GuardInv
<1>5. ASSUME NEW x \in GuardedAx, CancelSymbol(x)
      PROVE  GuardInv'
  <2>1. /\ toCancel' = toCancel \ {x} /\ UNCHANGED <<feeds, sourceUp, dark, inFlightThen>>
        /\ \/ rests' = rests \ OnAx(x) /\ readDown' = readDown
           \/ rests' = rests /\ readDown' = {}
    BY <1>5 DEF CancelSymbol
  <2>. QED
    BY <2>1 DEF GuardInv, RestsOK, DownOK, BeatOK, DownIsDark, Src, OnAx
<1>6. CASE SocketDown \/ TransportDown
  BY <1>6, HeartbeatStep DEF SocketDown, TransportDown, Everything, GuardConstants
<1>7. CASE FeedsDown
  <2>1. feeds = "multi" /\ Heartbeat("cancel", SourcesDown)
    BY <1>7 DEF FeedsDown
  <2>2. SourcesDown \subseteq GuardedAx
    BY DEF SourcesDown, GuardConstants
  <2>3. \A s \in GuardedStacks : ~sourceUp[Src(s)] => AxOf[s] \in SourcesDown
    BY <2>1 DEF SourcesDown, Src
  <2>. QED
    BY <2>1, <2>2, <2>3, HeartbeatStep
<1>8. CASE NothingDown
  <2>1. feeds = "multi" /\ SourcesDown = {}
    BY <1>8 DEF NothingDown
  <2>2. \A s \in GuardedStacks : sourceUp[Src(s)]
    BY <2>1 DEF SourcesDown, Src
  <2>3. /\ dark' = dark \cup {f \in Sources : ~sourceUp[f]}
        /\ UNCHANGED <<feeds, sourceUp, rests, toCancel, readDown, inFlightThen>>
    BY <1>8 DEF NothingDown
  <2>. QED
    BY <2>2, <2>3 DEF GuardInv, RestsOK, DownOK, BeatOK, DownIsDark, Src
<1>9. CASE BeginReset
  <2>1. /\ toCancel = {} /\ dark' = dark \cup readDown /\ readDown' = {}
        /\ UNCHANGED <<feeds, sourceUp, rests, toCancel, inFlightThen>>
    BY <1>9 DEF BeginReset
  <2>. QED
    BY <2>1 DEF GuardInv, RestsOK, DownOK, BeatOK, DownIsDark, Src
<1>10. CASE HeartbeatEnds
  BY <1>10, GuardFrame DEF HeartbeatEnds
<1>11. CASE UNCHANGED guardState
  BY <1>11, GuardFrame DEF guardState
<1>. QED
  BY <1>1, <1>2, <1>3, <1>4, <1>5, <1>6, <1>7, <1>8, <1>9, <1>10, <1>11 DEF GuardNext

(* No order rests on a dark source, for any number of stacks, instruments and *)
(* sources and any flapping of them, but for those of cycles that had asked   *)
(* before the outage.                                                        *)
THEOREM DarkAfterHeartbeat ==
  ASSUME GuardConstants
  PROVE  GuardSpec => []DownIsDark
<1>1. GuardInit => GuardInv
  BY DEF GuardInit, GuardInv, RestsOK, DownOK, BeatOK, DownIsDark
<1>2. GuardInv /\ [GuardNext]_guardState => GuardInv'
  BY GuardStep
<1>3. GuardInv => DownIsDark
  BY DEF GuardInv
<1>. QED
  BY <1>1, <1>2, <1>3, PTL DEF GuardSpec
-----------------------------------------------------------------------------
(* FeedCallbacks.                                                            *)

(* Feed threads and strategies are finitely many; no callback is called       *)
(* "free", which stands for the mutex that nobody holds.                     *)
CbConstants ==
  /\ IsFiniteSet(FeedThreads) /\ IsFiniteSet(Early)
  /\ Early \subseteq Callbacks /\ "free" \notin Callbacks

Once(s) == \A i, j \in 1..Len(s) : s[i] = s[j] => i = j

(* The elements of a sequence that is not empty are its head and those of its *)
(* tail, in which the head does not come again.                              *)
LEMMA HeadTail ==
  ASSUME NEW S, NEW s \in Seq(S), s # <<>>
  PROVE  /\ Head(s) \in S /\ Tail(s) \in Seq(S)
         /\ \A e : Contains(s, e) <=> e = Head(s) \/ Contains(Tail(s), e)
         /\ Once(s) => Once(Tail(s)) /\ ~Contains(Tail(s), Head(s))
<1>1. /\ Head(s) = s[1] /\ Head(s) \in S /\ Tail(s) \in Seq(S) /\ Len(Tail(s)) = Len(s) - 1
      /\ Len(s) \in Nat /\ Len(s) > 0
  OBVIOUS
<1>2. \A i \in 1..Len(Tail(s)) : Tail(s)[i] = s[i + 1]
  BY <1>1
<1>3. ASSUME NEW e
      PROVE  Contains(s, e) <=> e = Head(s) \/ Contains(Tail(s), e)
  <2>1. ASSUME NEW i \in 1..Len(s), s[i] = e, i # 1
        PROVE  Contains(Tail(s), e)
    <3>1. i - 1 \in 1..Len(Tail(s)) /\ (i - 1) + 1 = i
      BY <1>1, <2>1
    <3>2. Tail(s)[i - 1] = s[(i - 1) + 1]
      BY <1>2, <3>1
    <3>. QED
      BY <2>1, <3>1, <3>2 DEF Contains
  <2>2. ASSUME NEW i \in 1..Len(Tail(s)), Tail(s)[i] = e
        PROVE  Contains(s, e)
    <3>1. i + 1 \in 1..Len(s) /\ s[i + 1] = e
      BY <1>1, <1>2, <2>2
    <3>. QED
      BY <3>1 DEF Contains
  <2>3. 1 \in 1..Len(s)
    BY <1>1
  <2>. QED
    BY <1>1, <2>1, <2>2, <2>3 DEF Contains
<1>4. ASSUME Once(s)
      PROVE  Once(Tail(s)) /\ ~Contains(Tail(s), Head(s))
  <2>1. \A i \in 1..Len(Tail(s)) : i + 1 \in 1..Len(s) /\ i + 1 # 1
    BY <1>1
  <2>2. ~Contains(Tail(s), Head(s))
    <3>. SUFFICES ASSUME NEW i \in 1..Len(Tail(s)), Tail(s)[i] = Head(s)
                  PROVE  FALSE
      BY DEF Contains
    <3>1. s[i + 1] = s[1] /\ 1 \in 1..Len(s)
      BY <1>1, <1>2
    <3>. QED
      BY <1>4, <2>1, <3>1 DEF Once
  <2>3. Once(Tail(s))
    <3>. SUFFICES ASSUME NEW i \in 1..Len(Tail(s)), NEW j \in 1..Len(Tail(s)),
                         Tail(s)[i] = Tail(s)[j]
                  PROVE  i = j
      BY DEF Once
    <3>1. s[i + 1] = s[j + 1]
      BY <1>2
    <3>2. i + 1 = j + 1
      BY <1>4, <2>1, <3>1 DEF Once
    <3>. QED
      BY <3>2, <1>1
  <2>. QED
    BY <2>2, <2>3
<1>. QED
  BY <1>1, <1>3, <1>4

(* A new element at the end.                                                 *)
LEMMA AppendOnce ==
  ASSUME NEW S, NEW s \in Seq(S), NEW e \in S
  PROVE  /\ Append(s, e) \in Seq(S)
         /\ \A x : Contains(Append(s, e), x) <=> x = e \/ Contains(s, x)
         /\ Once(s) /\ ~Contains(s, e) => Once(Append(s, e))
<1>1. /\ Append(s, e) \in Seq(S) /\ Len(Append(s, e)) = Len(s) + 1 /\ Len(s) \in Nat
      /\ Append(s, e)[Len(s) + 1] = e
  OBVIOUS
<1>2. \A i \in 1..Len(s) : Append(s, e)[i] = s[i]
  OBVIOUS
<1>3. \A i \in 1..(Len(s) + 1) : i \in 1..Len(s) \/ i = Len(s) + 1
  BY <1>1
<1>4. \A i \in 1..Len(s) : i \in 1..(Len(s) + 1) /\ i # Len(s) + 1
  BY <1>1
<1>5. Len(s) + 1 \in 1..(Len(s) + 1)
  BY <1>1
<1>6. \A x : Contains(Append(s, e), x) <=> x = e \/ Contains(s, x)
  BY <1>1, <1>2, <1>3, <1>4, <1>5, Zenon DEF Contains
<1>7. Once(s) /\ ~Contains(s, e) => Once(Append(s, e))
  BY <1>1, <1>2, <1>3, Zenon DEF Contains, Once
<1>. QED
  BY <1>1, <1>6, <1>7

(* The removal of one element.                                               *)
LEMMA RemoveOnce ==
  ASSUME NEW S, NEW s \in Seq(S), NEW k \in 1..Len(s)
  PROVE  /\ RemoveAt(s, k) \in Seq(S)
         /\ \A x : Contains(RemoveAt(s, k), x) => Contains(s, x)
         /\ Once(s) => Once(RemoveAt(s, k)) /\ ~Contains(RemoveAt(s, k), s[k])
<1>. DEFINE a == SubSeq(s, 1, k - 1)
            b == SubSeq(s, k + 1, Len(s))
            r == a \o b
            from(i) == IF i < k THEN i ELSE i + 1
<1>1. Len(s) \in Nat /\ k \in Nat /\ 1 <= k /\ k <= Len(s)
  OBVIOUS
<1>2. a \in Seq(S) /\ Len(a) = k - 1 /\ \A i \in 1..(k - 1) : a[i] = s[i]
  BY <1>1
<1>3. b \in Seq(S) /\ Len(b) = Len(s) - k /\ \A i \in 1..(Len(s) - k) : b[i] = s[k + i]
  BY <1>1
<1>0. RemoveAt(s, k) = r
  BY DEF RemoveAt
<1>. HIDE DEF a, b
<1>4. /\ r \in Seq(S) /\ Len(r) = Len(s) - 1
      /\ \A i \in 1..Len(r) : r[i] = IF i <= k - 1 THEN a[i] ELSE b[i - (k - 1)]
  BY <1>1, <1>2, <1>3
<1>5. \A i \in 1..Len(r) : r[i] = s[from(i)] /\ from(i) \in 1..Len(s) /\ from(i) # k
  <2>. SUFFICES ASSUME NEW i \in 1..Len(r)
                PROVE  r[i] = s[from(i)] /\ from(i) \in 1..Len(s) /\ from(i) # k
    OBVIOUS
  <2>1. CASE i < k
    <3>1. i \in 1..(k - 1)
      BY <1>1, <1>4, <2>1
    <3>2. r[i] = a[i]
      BY <1>1, <1>4, <3>1
    <3>. QED
      BY <1>1, <1>2, <1>4, <2>1, <3>1, <3>2
  <2>2. CASE ~(i < k)
    <3>1. i - (k - 1) \in 1..(Len(s) - k) /\ k + (i - (k - 1)) = i + 1
      BY <1>1, <1>4, <2>2
    <3>2. r[i] = b[i - (k - 1)]
      BY <1>1, <1>4, <2>2, <3>1
    <3>3. r[i] = s[k + (i - (k - 1))]
      BY <1>3, <3>1, <3>2
    <3>. QED
      BY <1>1, <1>4, <2>2, <3>1, <3>3
  <2>. QED
    BY <2>1, <2>2
<1>6. \A i, j \in 1..Len(r) : from(i) = from(j) => i = j
  BY <1>1, <1>4
<1>. HIDE DEF r, from
<1>7. \A x : Contains(r, x) => Contains(s, x)
  BY <1>5 DEF Contains
<1>8. Once(s) => Once(r) /\ ~Contains(r, s[k])
  BY <1>5, <1>6 DEF Contains, Once
<1>. QED
  BY <1>0, <1>4, <1>7, <1>8

(* The first listing of the callbacks.                                       *)
LEMMA FirstListing ==
  ASSUME CbConstants
  PROVE  SetToSeq(Early) \in Seq(Callbacks) /\ Once(SetToSeq(Early))
         /\ \A c : Contains(SetToSeq(Early), c) => c \in Early
<1>. DEFINE n == Cardinality(Early)
            s == SetToSeq(Early)
<1>1. n \in Nat /\ ExistsBijection(1..n, Early)
  BY FS_CardinalityType DEF CbConstants
<1>2. \E f \in [1..n -> Early] : IsInjective(f)
  BY <1>1, Zenon DEF ExistsBijection, Bijection, Injection
<1>3. s \in [1..n -> Early] /\ IsInjective(s)
  BY <1>2, Zenon DEF SetToSeq
<1>. HIDE DEF n, s
<1>4. s \in Seq(Early) /\ Len(s) = n
  BY <1>1, <1>3
<1>. QED
  BY <1>1, <1>3, <1>4 DEF Once, IsInjective, Contains, CbConstants, s

(* The thread has yet to run the callback, or runs it.                       *)
Holds(t, c) ==
  \/ caller[t].at \in {"call", "unpin"} /\ Contains(caller[t].todo, c)
  \/ caller[t].at = "wake" /\ Contains(Tail(caller[t].todo), c)
Holders(c) == {t \in FeedThreads : Holds(t, c)}

(* The thread is about to wake the strategy of the callback.                 *)
Wakes(t, c) == caller[t].at = "wake" /\ Head(caller[t].todo) = c

CallerOK(t) ==
  /\ caller[t].todo \in Seq(Callbacks) /\ Once(caller[t].todo)
  /\ caller[t].todo = <<>> <=> caller[t].at = "idle"

LeaverOK(c) ==
  /\ Contains(entries, c) => leaver[c] = "registered"
  /\ leaver[c] = "returned" => inFlight[c] = 0
  /\ leaver[c] = "doze" => mutex = c
  /\ leaver[c] \in {"doze", "asleep"} => Pinned(c) \/ \E t \in FeedThreads : Wakes(t, c)

(* The inductive invariant behind CallbackDrained: the count of a callback is *)
(* the number of threads that hold it.                                       *)
CbInv ==
  /\ entries \in Seq(Callbacks) /\ Once(entries)
  /\ inFlight \in [Callbacks -> Nat]
  /\ caller \in [FeedThreads -> [at : {"idle", "call", "unpin", "wake"}, todo : Seq(Callbacks)]]
  /\ leaver \in [Callbacks -> {"new", "registered", "test", "doze", "asleep", "returned"}]
  /\ \A t \in FeedThreads : CallerOK(t)
  /\ \A c \in Callbacks : LeaverOK(c) /\ inFlight[c] = Cardinality(Holders(c))

(* Finitely many threads hold a callback.                                    *)
LEMMA HoldersFinite ==
  ASSUME CbConstants, NEW c
  PROVE  IsFiniteSet(Holders(c)) /\ Cardinality(Holders(c)) \in Nat
BY FS_Subset, FS_CardinalityType DEF Holders, CbConstants

(* The invariant holds at the start.                                         *)
LEMMA CbFirst ==
  ASSUME CbConstants, CbInit
  PROVE  CbInv
<1>1. entries \in Seq(Callbacks) /\ Once(entries) /\ \A c : Contains(entries, c) => c \in Early
  BY FirstListing DEF CbInit
<1>2. /\ inFlight \in [Callbacks -> Nat]
      /\ caller \in [FeedThreads -> [at : {"idle", "call", "unpin", "wake"}, todo : Seq(Callbacks)]]
      /\ leaver \in [Callbacks -> {"new", "registered", "test", "doze", "asleep", "returned"}]
  BY DEF CbInit
<1>3. \A t \in FeedThreads : CallerOK(t)
  <2>1. Once(<<>>) /\ <<>> \in Seq(Callbacks)
    BY DEF Once
  <2>. QED
    BY <2>1 DEF CbInit, CallerOK
<1>4. ASSUME NEW c \in Callbacks
      PROVE  LeaverOK(c) /\ inFlight[c] = Cardinality(Holders(c))
  <2>1. Holders(c) = {}
    BY DEF CbInit, Holders, Holds
  <2>2. LeaverOK(c)
    BY <1>1 DEF CbInit, LeaverOK
  <2>. QED
    BY <2>1, <2>2, FS_EmptySet DEF CbInit
<1>. QED
  BY <1>1, <1>2, <1>3, <1>4 DEF CbInv

(* A step of a strategy leaves the threads and the counts alone.             *)
LEMMA LeaverStep ==
  ASSUME CbConstants, CbInv, NEW c \in Callbacks,
         RegisterCallback(c) \/ Erase(c) \/ TestDrained(c) \/ FallAsleep(c)
  PROVE  CbInv'
<1>1. UNCHANGED <<inFlight, caller>>
  BY DEF RegisterCallback, Erase, TestDrained, FallAsleep
<1>2. /\ \A t \in FeedThreads : CallerOK(t)'
      /\ \A d \in Callbacks : inFlight'[d] = Cardinality(Holders(d)')
      /\ \A d \in Callbacks : Pinned(d)' = Pinned(d) /\ \A t \in FeedThreads : Wakes(t, d)' = Wakes(t, d)
  BY <1>1 DEF CbInv, CallerOK, Holders, Holds, Pinned, Wakes
<1>. SUFFICES /\ entries' \in Seq(Callbacks) /\ Once(entries)'
              /\ leaver' \in [Callbacks -> {"new", "registered", "test", "doze", "asleep", "returned"}]
              /\ \A d \in Callbacks : LeaverOK(d)'
  BY <1>1, <1>2 DEF CbInv
<1>3. CASE RegisterCallback(c)
  <2>1. /\ leaver[c] = "new" /\ entries' = Append(entries, c) /\ UNCHANGED mutex
        /\ leaver' = [leaver EXCEPT ![c] = "registered"]
    BY <1>3 DEF RegisterCallback
  <2>2. ~Contains(entries, c)
    BY <2>1 DEF CbInv, LeaverOK
  <2>3. /\ entries' \in Seq(Callbacks) /\ Once(entries)'
        /\ \A x : Contains(entries', x) <=> x = c \/ Contains(entries, x)
    BY <2>1, <2>2, AppendOnce DEF CbInv
  <2>. QED
    BY <1>1, <1>2, <2>1, <2>3 DEF CbInv, LeaverOK
<1>4. CASE Erase(c)
  <2>1. PICK i \in DOMAIN entries : entries[i] = c /\ entries' = RemoveAt(entries, i)
    BY <1>4 DEF Erase
  <2>2. leaver[c] = "registered" /\ leaver' = [leaver EXCEPT ![c] = "test"] /\ UNCHANGED mutex
    BY <1>4 DEF Erase
  <2>3. i \in 1..Len(entries)
    BY DEF CbInv
  <2>4. /\ entries' \in Seq(Callbacks) /\ Once(entries)' /\ ~Contains(entries', c)
        /\ \A x : Contains(entries', x) => Contains(entries, x)
    BY <2>1, <2>3, RemoveOnce DEF CbInv
  <2>. QED
    BY <1>1, <1>2, <2>2, <2>4 DEF CbInv, LeaverOK
<1>5. CASE TestDrained(c)
  <2>1. UNCHANGED entries /\ leaver[c] = "test" /\ mutex = "free"
    BY <1>5 DEF TestDrained, Unheld
  <2>2. CASE Pinned(c)
    BY <1>1, <1>2, <1>5, <2>1, <2>2 DEF TestDrained, CbInv, LeaverOK, CbConstants
  <2>3. CASE ~Pinned(c)
    <3>1. inFlight[c] = 0
      BY <2>3 DEF CbInv, Pinned
    <3>. QED
      BY <1>1, <1>2, <1>5, <2>1, <2>3, <3>1 DEF TestDrained, CbInv, LeaverOK
  <2>. QED
    BY <2>2, <2>3
<1>6. CASE FallAsleep(c)
  <2>1. /\ UNCHANGED entries /\ leaver[c] = "doze" /\ mutex' = "free"
        /\ leaver' = [leaver EXCEPT ![c] = "asleep"]
    BY <1>6 DEF FallAsleep
  <2>2. mutex = c
    BY <2>1 DEF CbInv, LeaverOK
  <2>3. \A d \in Callbacks \ {c} : leaver[d] # "doze"
    BY <2>2 DEF CbInv, LeaverOK
  <2>. QED
    BY <1>1, <1>2, <2>1, <2>3 DEF CbInv, LeaverOK
<1>. QED
  BY <1>3, <1>4, <1>5, <1>6

(* A thread that pins takes hold of every registered callback.               *)
LEMMA PinStep ==
  ASSUME CbConstants, CbInv, NEW t \in FeedThreads, Pin(t)
  PROVE  CbInv'
<1>1. /\ caller[t].at = "idle" /\ entries # <<>> /\ UNCHANGED <<entries, mutex, leaver>>
      /\ caller' = [caller EXCEPT ![t] = [at |-> "call", todo |-> entries]]
      /\ inFlight' = [c \in Callbacks |-> IF Contains(entries, c) THEN inFlight[c] + 1 ELSE inFlight[c]]
  BY DEF Pin
<1>2. /\ caller' \in [FeedThreads -> [at : {"idle", "call", "unpin", "wake"}, todo : Seq(Callbacks)]]
      /\ inFlight' \in [Callbacks -> Nat]
  BY <1>1 DEF CbInv
<1>3. \A u \in FeedThreads : CallerOK(u)'
  BY <1>1 DEF CbInv, CallerOK
<1>4. ASSUME NEW c \in Callbacks
      PROVE  LeaverOK(c)' /\ inFlight'[c] = Cardinality(Holders(c)')
  <2>1. ~Holds(t, c) /\ (Holds(t, c)' <=> Contains(entries, c))
    BY <1>1 DEF CbInv, Holds
  <2>2. \A u \in FeedThreads \ {t} : /\ Holds(u, c)' = Holds(u, c)
                                      /\ Wakes(u, c)' = Wakes(u, c)
    BY <1>1 DEF CbInv, Holds, Wakes
  <2>3. ~Wakes(t, c) /\ ~Wakes(t, c)'
    BY <1>1 DEF CbInv, Wakes
  <2>4. CASE Contains(entries, c)
    <3>1. Holders(c)' = Holders(c) \cup {t} /\ t \notin Holders(c)
      BY <2>1, <2>2, <2>4 DEF Holders
    <3>2. Cardinality(Holders(c)') = Cardinality(Holders(c)) + 1
      BY <3>1, HoldersFinite, FS_AddElement
    <3>3. leaver[c] = "registered"
      BY <2>4 DEF CbInv, LeaverOK
    <3>. QED
      BY <1>1, <2>4, <3>2, <3>3 DEF CbInv, LeaverOK
  <2>5. CASE ~Contains(entries, c)
    <3>1. Holders(c)' = Holders(c)
      BY <2>1, <2>2, <2>5 DEF Holders
    <3>2. inFlight'[c] = inFlight[c]
      BY <1>1, <2>5
    <3>. QED
      BY <1>1, <2>2, <2>3, <2>5, <3>1, <3>2 DEF CbInv, LeaverOK, Pinned
  <2>. QED
    BY <2>4, <2>5
<1>. QED
  BY <1>1, <1>2, <1>3, <1>4 DEF CbInv

(* A thread that has run a callback lets go of it; the last one will wake.   *)
LEMMA UnpinStep ==
  ASSUME CbConstants, CbInv, NEW t \in FeedThreads, Unpin(t)
  PROVE  CbInv'
<1>0. PICK todo, c : todo = caller[t].todo /\ c = Head(todo)
  OBVIOUS
<1>1. /\ caller[t].at = "unpin" /\ UNCHANGED <<entries, mutex, leaver>>
      /\ inFlight' = [inFlight EXCEPT ![c] = @ - 1]
      /\ caller' = [caller EXCEPT ![t] = IF inFlight[c] = 1 THEN [@ EXCEPT !.at = "wake"]
                                                            ELSE Further(todo)]
  BY <1>0 DEF Unpin
<1>2. todo \in Seq(Callbacks) /\ Once(todo) /\ todo # <<>>
  BY <1>0, <1>1 DEF CbInv, CallerOK
<1>3. /\ c \in Callbacks /\ Tail(todo) \in Seq(Callbacks) /\ Once(Tail(todo))
      /\ \A e : Contains(todo, e) <=> e = c \/ Contains(Tail(todo), e)
      /\ ~Contains(Tail(todo), c)
  BY <1>0, <1>2, HeadTail
<1>4. caller'[t] = IF inFlight[c] = 1 THEN [at |-> "wake", todo |-> todo] ELSE Further(todo)
  BY <1>0, <1>1 DEF CbInv
<1>5. /\ caller'[t] \in [at : {"idle", "call", "unpin", "wake"}, todo : Seq(Callbacks)]
      /\ CallerOK(t)'
  <2>1. <<>> \in Seq(Callbacks) /\ Once(<<>>)
    BY DEF Once
  <2>2. CASE inFlight[c] = 1
    BY <1>2, <1>4, <2>2 DEF CallerOK
  <2>3. CASE inFlight[c] # 1 /\ Tail(todo) = <<>>
    BY <1>4, <2>1, <2>3 DEF CallerOK, Further
  <2>4. CASE inFlight[c] # 1 /\ Tail(todo) # <<>>
    BY <1>3, <1>4, <2>4 DEF CallerOK, Further
  <2>. QED
    BY <2>2, <2>3, <2>4
<1>6. \A u \in FeedThreads \ {t} : caller'[u] = caller[u]
  BY <1>1 DEF CbInv
<1>7. \A u \in FeedThreads : CallerOK(u)'
  BY <1>5, <1>6 DEF CbInv, CallerOK
<1>8. ASSUME NEW e \in Callbacks
      PROVE  /\ Holds(t, e) <=> Contains(todo, e)
             /\ Holds(t, e)' <=> Contains(Tail(todo), e)
  <2>1. ~Contains(<<>>, e)
    BY DEF Contains
  <2>2. CASE inFlight[c] = 1
    BY <1>0, <1>1, <1>4, <2>2 DEF Holds
  <2>3. CASE inFlight[c] # 1 /\ Tail(todo) = <<>>
    <3>1. caller'[t].at = "idle"
      BY <1>4, <2>3 DEF Further
    <3>. QED
      BY <1>0, <1>1, <2>1, <2>3, <3>1 DEF Holds
  <2>4. CASE inFlight[c] # 1 /\ Tail(todo) # <<>>
    BY <1>0, <1>1, <1>4, <2>4 DEF Holds, Further
  <2>. QED
    BY <2>2, <2>3, <2>4
<1>9. \A e \in Callbacks, u \in FeedThreads \ {t} : /\ Holds(u, e)' = Holds(u, e)
                                                   /\ Wakes(u, e)' = Wakes(u, e)
  BY <1>6 DEF Holds, Wakes
<1>10. inFlight[c] = Cardinality(Holders(c)) /\ inFlight[c] \in Nat /\ t \in Holders(c)
  BY <1>3, <1>8 DEF CbInv, Holders
<1>11. Holders(c)' = Holders(c) \ {t}
  BY <1>3, <1>8, <1>9 DEF Holders
<1>12. inFlight'[c] = Cardinality(Holders(c)') /\ inFlight'[c] \in Nat
  <2>1. Cardinality(Holders(c)') = Cardinality(Holders(c)) - 1 /\ Cardinality(Holders(c)') \in Nat
    BY <1>10, <1>11, HoldersFinite, FS_RemoveElement, FS_Subset, FS_CardinalityType
  <2>2. inFlight'[c] = inFlight[c] - 1
    BY <1>1, <1>3 DEF CbInv
  <2>. QED
    BY <1>10, <2>1, <2>2
<1>13. LeaverOK(c)'
  <2>1. inFlight'[c] = inFlight[c] - 1
    BY <1>1, <1>3 DEF CbInv
  <2>2. CASE inFlight[c] = 1
    BY <1>0, <1>1, <1>3, <1>4, <2>1, <2>2 DEF CbInv, LeaverOK, Wakes
  <2>3. CASE inFlight[c] # 1
    <3>1. Cardinality(Holders(c)) # 0
      BY <1>10, HoldersFinite, FS_EmptySet
    <3>2. inFlight'[c] > 0 /\ inFlight[c] # 0
      BY <1>10, <2>1, <2>3, <3>1
    <3>. QED
      BY <1>1, <1>3, <3>2 DEF CbInv, LeaverOK, Pinned
  <2>. QED
    BY <2>2, <2>3
<1>14. ASSUME NEW e \in Callbacks, e # c
       PROVE  LeaverOK(e)' /\ inFlight'[e] = Cardinality(Holders(e)')
  <2>1. inFlight'[e] = inFlight[e]
    BY <1>1, <1>14 DEF CbInv
  <2>2. Holders(e)' = Holders(e)
    BY <1>3, <1>8, <1>9, <1>14 DEF Holders
  <2>3. \A u \in FeedThreads : Wakes(u, e) => u # t
    BY <1>1 DEF Wakes
  <2>. QED
    BY <1>1, <1>9, <2>1, <2>2, <2>3 DEF CbInv, LeaverOK, Pinned
<1>15. /\ inFlight' \in [Callbacks -> Nat]
       /\ caller' \in [FeedThreads -> [at : {"idle", "call", "unpin", "wake"}, todo : Seq(Callbacks)]]
  <2>1. \A e \in Callbacks : inFlight'[e] \in Nat
    BY <1>1, <1>12 DEF CbInv
  <2>2. \A u \in FeedThreads : caller'[u] \in [at : {"idle", "call", "unpin", "wake"}, todo : Seq(Callbacks)]
    BY <1>5, <1>6 DEF CbInv
  <2>3. DOMAIN inFlight' = Callbacks /\ inFlight' = [e \in Callbacks |-> inFlight'[e]]
    BY <1>1 DEF CbInv
  <2>4. caller' = [u \in FeedThreads |-> caller'[u]]
    BY <1>1 DEF CbInv
  <2>. QED
    BY <2>1, <2>2, <2>3, <2>4
<1>. QED
  BY <1>1, <1>7, <1>12, <1>13, <1>14, <1>15 DEF CbInv

(* The notification wakes every strategy that sleeps.                        *)
LEMMA WakeStep ==
  ASSUME CbConstants, CbInv, NEW t \in FeedThreads, Wake(t)
  PROVE  CbInv'
<1>0. PICK todo : todo = caller[t].todo
  OBVIOUS
<1>1. /\ caller[t].at = "wake" /\ mutex = "free" /\ leaver' = Woken
      /\ UNCHANGED <<entries, inFlight, mutex>>
      /\ caller' = [caller EXCEPT ![t] = Further(todo)]
  BY <1>0 DEF Wake, Unheld
<1>2. todo \in Seq(Callbacks) /\ Once(todo) /\ todo # <<>>
  BY <1>0, <1>1 DEF CbInv, CallerOK
<1>3. Tail(todo) \in Seq(Callbacks) /\ Once(Tail(todo))
  BY <1>2, HeadTail
<1>4. caller'[t] = Further(todo)
  BY <1>1 DEF CbInv
<1>5. /\ caller'[t] \in [at : {"idle", "call", "unpin", "wake"}, todo : Seq(Callbacks)]
      /\ CallerOK(t)'
  <2>1. <<>> \in Seq(Callbacks) /\ Once(<<>>)
    BY DEF Once
  <2>2. CASE Tail(todo) = <<>>
    BY <1>4, <2>1, <2>2 DEF CallerOK, Further
  <2>3. CASE Tail(todo) # <<>>
    BY <1>3, <1>4, <2>3 DEF CallerOK, Further
  <2>. QED
    BY <2>2, <2>3
<1>6. \A u \in FeedThreads \ {t} : caller'[u] = caller[u]
  BY <1>1 DEF CbInv
<1>7. \A u \in FeedThreads : CallerOK(u)'
  BY <1>5, <1>6 DEF CbInv, CallerOK
<1>8. ASSUME NEW e \in Callbacks
      PROVE  Holds(t, e) <=> Holds(t, e)'
  <2>1. ~Contains(<<>>, e)
    BY DEF Contains
  <2>2. CASE Tail(todo) = <<>>
    <3>1. caller'[t].at = "idle"
      BY <1>4, <2>2 DEF Further
    <3>. QED
      BY <1>0, <1>1, <2>1, <2>2, <3>1 DEF Holds
  <2>3. CASE Tail(todo) # <<>>
    BY <1>0, <1>1, <1>4, <2>3 DEF Holds, Further
  <2>. QED
    BY <2>2, <2>3
<1>9. \A e \in Callbacks : Holders(e)' = Holders(e)
  BY <1>6, <1>8 DEF Holders, Holds
<1>10. \A e \in Callbacks : LeaverOK(e)'
  <2>1. \A e \in Callbacks : leaver[e] # "doze"
    BY <1>1 DEF CbInv, LeaverOK, CbConstants
  <2>. QED
    BY <1>1, <2>1 DEF CbInv, LeaverOK, Woken
<1>11. /\ caller' \in [FeedThreads -> [at : {"idle", "call", "unpin", "wake"}, todo : Seq(Callbacks)]]
       /\ leaver' \in [Callbacks -> {"new", "registered", "test", "doze", "asleep", "returned"}]
  BY <1>1, <1>5, <1>6 DEF CbInv, Woken
<1>. QED
  BY <1>1, <1>7, <1>9, <1>10, <1>11 DEF CbInv

(* Every step keeps the invariant of the callbacks.                          *)
LEMMA CbStep ==
  ASSUME CbConstants, CbInv, [CbNext]_cbState
  PROVE  CbInv'
<1>1. ASSUME NEW t \in FeedThreads, Call(t)
      PROVE  CbInv'
  <2>1. /\ caller[t].at = "call" /\ caller' = [caller EXCEPT ![t].at = "unpin"]
        /\ UNCHANGED <<entries, inFlight, mutex, leaver>>
    BY <1>1 DEF Call
  <2>2. \A u \in FeedThreads : caller'[u].todo = caller[u].todo /\ (u # t => caller'[u] = caller[u])
    BY <2>1 DEF CbInv
  <2>3. caller'[t].at = "unpin"
    BY <2>1 DEF CbInv
  <2>4. \A c \in Callbacks, u \in FeedThreads : /\ Holds(u, c)' <=> Holds(u, c)
                                                /\ Wakes(u, c)' <=> Wakes(u, c)
    BY <2>1, <2>2, <2>3 DEF Holds, Wakes
  <2>5. \A c \in Callbacks : LeaverOK(c)' /\ inFlight'[c] = Cardinality(Holders(c)')
    BY <2>1, <2>4, ZenonT(30) DEF CbInv, Holders, LeaverOK, Pinned
  <2>6. \A u \in FeedThreads : CallerOK(u)'
    BY <2>1, <2>2, <2>3 DEF CbInv, CallerOK
  <2>7. caller' \in [FeedThreads -> [at : {"idle", "call", "unpin", "wake"}, todo : Seq(Callbacks)]]
    BY <2>1 DEF CbInv
  <2>. QED
    BY <2>1, <2>5, <2>6, <2>7 DEF CbInv
<1>2. CASE UNCHANGED cbState
  <2>1. UNCHANGED <<entries, inFlight, mutex, caller, leaver>>
    BY <1>2 DEF cbState
  <2>2. \A c \in Callbacks : Holders(c)' = Holders(c) /\ LeaverOK(c)' = LeaverOK(c)
    BY <2>1 DEF Holders, Holds, LeaverOK, Wakes, Pinned
  <2>3. \A t \in FeedThreads : CallerOK(t)' = CallerOK(t)
    BY <2>1 DEF CallerOK
  <2>. QED
    BY <2>1, <2>2, <2>3 DEF CbInv
<1>. QED
  BY <1>1, <1>2, LeaverStep, PinStep, UnpinStep, WakeStep DEF CbNext

(* For any number of feed threads and callbacks: once unregisterCallback has  *)
(* returned nobody runs the callback or will run it, and a strategy that      *)
(* waits for that is never left without a wake-up to come.                   *)
THEOREM CallbacksDrain ==
  ASSUME CbConstants
  PROVE  CbSpec => []CallbackDrained
<1>1. CbInit => CbInv
  BY CbFirst
<1>2. CbInv /\ [CbNext]_cbState => CbInv'
  BY CbStep
<1>3. CbInv => CallbackDrained
  <2>. SUFFICES ASSUME CbInv, NEW c \in Callbacks
                PROVE  /\ leaver[c] = "returned" =>
                            \A t \in FeedThreads : \/ ~Contains(caller[t].todo, c)
                                                   \/ caller[t].at = "wake" /\ Head(caller[t].todo) = c
                       /\ leaver[c] = "asleep" =>
                            \/ Pinned(c)
                            \/ \E t \in FeedThreads : caller[t].at = "wake" /\ Head(caller[t].todo) = c
    BY DEF CallbackDrained
  <2>1. ASSUME leaver[c] = "returned", NEW t \in FeedThreads, Contains(caller[t].todo, c)
        PROVE  caller[t].at = "wake" /\ Head(caller[t].todo) = c
    <3>1. Cardinality(Holders(c)) = 0
      BY <2>1 DEF CbInv, LeaverOK
    <3>2. ~Holds(t, c)
      BY <3>1, HoldersFinite, FS_EmptySet DEF Holders
    <3>3. caller[t].todo \in Seq(Callbacks) /\ caller[t].todo # <<>>
      BY <2>1 DEF CbInv, CallerOK, Contains
    <3>4. caller[t].at = "wake"
      BY <2>1, <3>2, <3>3 DEF CbInv, CallerOK, Holds
    <3>. QED
      BY <2>1, <3>2, <3>3, <3>4, HeadTail DEF Holds
  <2>2. leaver[c] = "asleep" => Pinned(c) \/ \E t \in FeedThreads : Wakes(t, c)
    BY DEF CbInv, LeaverOK
  <2>. QED
    BY <2>1, <2>2 DEF Wakes
<1>. QED
  BY <1>1, <1>2, <1>3, PTL DEF CbSpec
-----------------------------------------------------------------------------
(* ExternalFeed.                                                             *)

(* Some errors are tolerated; a symbol has a name; and no symbol of the FIX   *)
(* feed is quoted by another feed too.                                       *)
FeedConstants ==
  /\ ErrorsToBlank \in Nat \ {0}
  /\ None \notin Symbols
  /\ NeonSymbols \cap (HlSymbols \cup MetSymbols) = {}

FeedTypes ==
  /\ setup \in {"multi", "fix", "rest"}
  /\ up \in [neon : BOOLEAN, hl : BOOLEAN, met : BOOLEAN]
  /\ logged \in BOOLEAN /\ live \in BOOLEAN
  /\ quotes \in [Symbols -> Nat] /\ session \in Nat
  /\ streak \in Nat /\ errors \in Nat

(* A quote of the FIX connection that is open now.                           *)
QuotedNow == \E s \in NeonSymbols : quotes[s] = session

(* With one feed over REST the FIX thread never runs.                        *)
FixOK ==
  /\ setup = "rest" => fix = "off"
  /\ fix = "mark" => QuotedNow

(* With a single feed the counted errors in a row are those of the streak     *)
(* until the quotes are blanked, and from then on nothing is quoted.         *)
StreakOK ==
  /\ streak < ErrorsToBlank /\ errors <= ErrorsToBlank
  /\ ~Multi => IF errors < ErrorsToBlank THEN streak = errors
                                         ELSE quotes = NoQuotes /\ last = None /\ told = "invalid"
  /\ Multi => told # "invalid" /\ (told = "quote" => last # None)

(* Before start no thread of the feeds runs.                                 *)
Unstarted == fix = "off" /\ aux = "off" => met = "off"

(* With Unstarted, the inductive invariant behind UpIsFresh and Blanked.     *)
FeedInv == FeedTypes /\ FixOK /\ UpIsFresh /\ StreakOK

(* What an error does to the quotes.                                         *)
LEMMA ErrorStep ==
  ASSUME FeedConstants, FeedInv, UNCHANGED setup, RecordError
  PROVE  /\ StreakOK' /\ streak' \in Nat /\ errors' \in Nat /\ quotes' \in [Symbols -> Nat]
         /\ Multi => UNCHANGED quotes
<1>. USE DEF FeedInv, FeedTypes, StreakOK, RecordError, Counted, Multi, FeedConstants
<1>1. CASE setup = "multi"
  BY <1>1
<1>2. CASE setup # "multi" /\ streak + 1 < ErrorsToBlank
  BY <1>2
<1>3. CASE setup # "multi" /\ ~(streak + 1 < ErrorsToBlank)
  <2>1. /\ streak' = 0 /\ last' = None /\ quotes' = NoQuotes /\ told' = "invalid"
        /\ errors' = IF errors = ErrorsToBlank THEN errors ELSE errors + 1
    BY <1>3 DEF InvalidateQuote
  <2>2. streak' \in Nat /\ errors' \in Nat /\ quotes' \in [Symbols -> Nat]
    BY <2>1 DEF NoQuotes
  <2>3. errors' = ErrorsToBlank
    BY <1>3, <2>1
  <2>. QED
    BY <1>3, <2>1, <2>2, <2>3 DEF NoQuotes
<1>. QED
  BY <1>1, <1>2, <1>3

(* What a quote does to them; the FIX quotes of this connection stay when     *)
(* another feed publishes.                                                   *)
LEMMA QuoteStep ==
  ASSUME FeedConstants, FeedInv, UNCHANGED setup, NEW s \in Symbols, NEW from \in Nat,
         PublishQuote(s, from)
  PROVE  /\ StreakOK' /\ streak' \in Nat /\ errors' \in Nat /\ quotes' \in [Symbols -> Nat]
         /\ QuotedNow /\ session' = session /\ (s \notin NeonSymbols \/ from = session) => QuotedNow'
<1>. USE DEF FeedInv, FeedTypes, FeedConstants, PublishQuote
<1>1. StreakOK' /\ streak' \in Nat /\ errors' \in Nat /\ quotes' \in [Symbols -> Nat]
  BY DEF StreakOK, Multi
<1>2. QuotedNow /\ session' = session /\ (s \notin NeonSymbols \/ from = session) => QuotedNow'
  BY DEF QuotedNow, Symbols
<1>. QED
  BY <1>1, <1>2

(* Steps of the FIX thread.                                                  *)
LEMMA FixStep ==
  ASSUME FeedConstants, FeedInv,
         \/ FixConnect \/ Dialled \/ Logon \/ Mark \/ Dropped \/ Close \/ Retry
         \/ \E s \in NeonSymbols : Quoted(s)
  PROVE  FeedInv'
<1>. USE DEF FeedInv
<1>0. UNCHANGED <<setup, met, live>>
  BY DEF FixConnect, Dialled, Logon, Mark, Dropped, Close, Retry, Quoted, FixRest
<1>1. ASSUME UNCHANGED Quotes, UNCHANGED session \/ (~up'.neon /\ session' \in Nat),
             up' \in [neon : BOOLEAN, hl : BOOLEAN, met : BOOLEAN], up'.met = up.met,
             logged' \in BOOLEAN, setup = "rest" => fix' = "off",
             up'.neon => fix' \in {"session", "mark"} /\ QuotedNow, fix' # "mark",
             logged' => fix' \in {"session", "mark"}
      PROVE  FeedInv'
  <2>1. UNCHANGED <<quotes, last, streak, told, errors>>
    BY <1>1 DEF Quotes
  <2>2. FeedTypes'
    BY <1>0, <1>1, <2>1 DEF FeedTypes
  <2>3. FixOK' /\ UpIsFresh'
    BY <1>0, <1>1, <2>1 DEF FixOK, UpIsFresh, QuotedNow
  <2>4. StreakOK'
    BY <1>0, <2>1 DEF StreakOK, Multi, NoQuotes
  <2>. QED
    BY <2>2, <2>3, <2>4
<1>2. ASSUME FixError, UNCHANGED session, fix # "off", fix' # "mark"
      PROVE  FeedInv'
  <2>1. RecordError /\ logged' = FALSE /\ up' = [up EXCEPT !.neon = FALSE]
    BY <1>2 DEF FixError
  <2>2. /\ ~up'.neon /\ up'.met = up.met
        /\ up' \in [neon : BOOLEAN, hl : BOOLEAN, met : BOOLEAN]
    BY <2>1 DEF FeedTypes
  <2>3. /\ StreakOK' /\ streak' \in Nat /\ errors' \in Nat /\ quotes' \in [Symbols -> Nat]
    BY <1>0, <2>1, ErrorStep
  <2>4. FeedTypes'
    BY <1>0, <1>2, <2>1, <2>2, <2>3 DEF FeedTypes
  <2>5. FixOK' /\ UpIsFresh'
    BY <1>0, <1>2, <2>1, <2>2 DEF FixOK, UpIsFresh
  <2>. QED
    BY <2>3, <2>4, <2>5
<1>. USE DEF FeedTypes, FixOK, UpIsFresh, SessionState
<1>3. CASE FixConnect
  <2>1. /\ session' = session + 1 /\ up' = [up EXCEPT !.neon = FALSE] /\ logged' = FALSE
        /\ fix = "connect" /\ fix' = "dial" /\ UNCHANGED Quotes
    BY <1>3 DEF FixConnect
  <2>2. session' \in Nat
    BY <2>1 DEF FeedTypes
  <2>3. up \in [neon : BOOLEAN, hl : BOOLEAN, met : BOOLEAN]
    BY DEF FeedTypes
  <2>4. ~up'.neon /\ up'.met = up.met
        /\ up' \in [neon : BOOLEAN, hl : BOOLEAN, met : BOOLEAN]
    BY <2>1, <2>3
  <2>. QED
    BY <1>1, <2>1, <2>2, <2>4
<1>4. CASE Dialled
  BY <1>1, <1>2, <1>4 DEF Dialled
<1>5. CASE Logon
  <2>1. fix = "session" /\ UNCHANGED session
    BY <1>5 DEF Logon
  <2>2. CASE FixError /\ fix' = "close"
    BY <1>2, <2>1, <2>2
  <2>3. CASE SessionState(TRUE) /\ UNCHANGED fix /\ UNCHANGED Quotes
    <3>1. logged' = TRUE /\ up' = up /\ fix' = fix
      BY <2>3 DEF SessionState
    <3>2. up \in [neon : BOOLEAN, hl : BOOLEAN, met : BOOLEAN]
      BY DEF FeedTypes
    <3>3. up.neon => QuotedNow
      BY DEF UpIsFresh, QuotedNow
    <3>. QED
      BY <1>1, <2>1, <2>3, <3>1, <3>2, <3>3
  <2>. QED
    BY <1>5, <2>2, <2>3 DEF Logon
<1>6. CASE Mark
  BY <1>1, <1>6 DEF Mark
<1>7. CASE Dropped
  BY <1>2, <1>7 DEF Dropped
<1>8. CASE Close
  BY <1>1, <1>8 DEF Close
<1>9. CASE Retry
  BY <1>1, <1>9 DEF Retry
<1>10. ASSUME NEW s \in NeonSymbols, Quoted(s)
       PROVE  FeedInv'
  <2>1. /\ fix = "session" /\ fix' = "mark" /\ UNCHANGED <<session, up, logged>>
        /\ PublishQuote(s, session)
    BY <1>10 DEF Quoted
  <2>2. /\ StreakOK' /\ streak' \in Nat /\ errors' \in Nat /\ quotes' \in [Symbols -> Nat]
    BY <1>0, <2>1, QuoteStep DEF Symbols
  <2>3. QuotedNow'
    BY <2>1 DEF PublishQuote, QuotedNow, Symbols
  <2>. QED
    BY <1>0, <2>1, <2>2, <2>3 DEF QuotedNow
<1>. QED
  BY <1>3, <1>4, <1>5, <1>6, <1>7, <1>8, <1>9, <1>10

(* A step of the other threads or of the manager that publishes a quote of     *)
(* another feed, counts an error with one feed over REST, or leaves the       *)
(* quotes alone.                                                             *)
LEMMA OtherFeedStep ==
  ASSUME FeedConstants, FeedInv, UNCHANGED <<setup, session>>,
         \/ UNCHANGED Quotes
         \/ \E s \in HlSymbols \cup MetSymbols : PublishQuote(s, 1)
         \/ setup = "rest" /\ RecordError,
         up' \in [neon : BOOLEAN, hl : BOOLEAN, met : BOOLEAN],
         logged' \in BOOLEAN, live' \in BOOLEAN,
         UNCHANGED fix \/ (fix = "off" /\ fix' # "mark" /\ (setup = "rest" => fix' = "off")),
         up'.neon => up.neon, logged' => logged,
         up'.met => met' = "publish" \/ (met' = "open" /\ live')
  PROVE  FeedInv'
<1>. USE DEF FeedInv
<1>1. /\ StreakOK' /\ streak' \in Nat /\ errors' \in Nat /\ quotes' \in [Symbols -> Nat]
      /\ QuotedNow /\ setup # "rest" => QuotedNow'
  <2>1. CASE UNCHANGED Quotes
    BY <2>1 DEF Quotes, StreakOK, Multi, NoQuotes, QuotedNow, FeedTypes
  <2>2. CASE \E s \in HlSymbols \cup MetSymbols : PublishQuote(s, 1)
    <3>1. PICK s \in HlSymbols \cup MetSymbols : PublishQuote(s, 1)
      BY <2>2
    <3>2. s \in Symbols /\ s \notin NeonSymbols /\ 1 \in Nat
      BY DEF Symbols, FeedConstants
    <3>. QED
      BY <3>1, <3>2, QuoteStep
  <2>3. CASE setup = "rest" /\ RecordError
    BY <2>3, ErrorStep
  <2>. QED
    BY <2>1, <2>2, <2>3
<1>2. FeedTypes'
  BY <1>1 DEF FeedTypes
<1>3. FixOK'
  BY <1>1 DEF FixOK
<1>4. UpIsFresh'
  <2>1. up'.neon => fix' \in {"session", "mark"} /\ QuotedNow'
    BY <1>1 DEF UpIsFresh, FixOK, QuotedNow
  <2>2. logged' => fix' \in {"session", "mark"}
    BY DEF UpIsFresh
  <2>. QED
    BY <2>1, <2>2 DEF UpIsFresh, QuotedNow
<1>. QED
  BY <1>1, <1>2, <1>3, <1>4

(* A thread that was started never goes back to where it was before.         *)
LEMMA UnstartedStep ==
  ASSUME Unstarted, [FeedNext]_feedState
  PROVE  Unstarted'
<1>. USE DEF Unstarted
<1>1. CASE Start \/ StartAgain \/ Stop
  BY <1>1 DEF Start, StartAgain, Stop
<1>2. CASE \/ FixConnect \/ Dialled \/ Logon \/ Mark \/ Dropped \/ Close \/ Retry
           \/ \E s \in NeonSymbols : Quoted(s)
  <2>1. UNCHANGED <<aux, met>>
    BY <1>2 DEF FixConnect, Dialled, Logon, Mark, Dropped, Close, Retry, Quoted, FixRest
  <2>2. fix # "off"
    BY <1>2 DEF FixConnect, Dialled, Logon, Mark, Dropped, Close, Retry, Quoted
  <2>3. fix' # "off"
    BY <1>2 DEF FixConnect, Dialled, Logon, Mark, Dropped, Close, Retry, Quoted
  <2>. QED
    BY <2>1, <2>2, <2>3
<1>3. CASE HlPoll \/ HlMark \/ HlFails \/ RestFails \/ AuxEnds
           \/ \E s \in HlSymbols : HlMatch(s) \/ RestQuote(s)
  BY <1>3 DEF HlPoll, HlMark, HlFails, RestFails, AuxEnds, HlMatch, RestQuote, AuxRest
<1>4. CASE MetRoutes \/ MetOpen \/ MetMessage \/ MetLost \/ MetEnds
           \/ \E s \in MetSymbols : MetPublish(s)
  BY <1>4 DEF MetRoutes, MetOpen, MetMessage, MetLost, MetEnds, MetPublish, MetRest
<1>5. CASE UNCHANGED feedState
  BY <1>5 DEF feedState
<1>. QED
  BY <1>1, <1>2, <1>3, <1>4, <1>5 DEF FeedNext

(* Every step keeps the invariant of the feeds.                              *)
LEMMA FeedStep ==
  ASSUME FeedConstants, FeedInv, Unstarted, [FeedNext]_feedState
  PROVE  FeedInv'
<1>. USE DEF FeedInv, FeedTypes, UpIsFresh
<1>1. CASE Start \/ StartAgain \/ Stop
  <2>0. UNCHANGED <<setup, session, live>> /\ UNCHANGED Quotes
    BY <1>1 DEF Start, StartAgain, Stop, Quotes
  <2>1. CASE Start
    <3>1. UNCHANGED <<up, logged>> /\ fix = "off" /\ fix' # "mark"
          /\ (setup = "rest" => fix' = "off")
      BY <2>1 DEF Start
    <3>2. met' = "publish" \/ (met' = "open" /\ live') \/ ~up.met
      BY <2>1 DEF Start, Unstarted
    <3>. QED
      BY <2>0, <3>1, <3>2, OtherFeedStep
  <2>2. CASE StartAgain
    <3>1. UNCHANGED <<fix, met>> /\ up' = [up EXCEPT !.neon = FALSE] /\ logged' = FALSE
      BY <2>2 DEF StartAgain
    <3>2. ~up'.neon /\ up'.met = up.met
          /\ up' \in [neon : BOOLEAN, hl : BOOLEAN, met : BOOLEAN]
      BY <3>1
    <3>. QED
      BY <2>0, <3>1, <3>2, OtherFeedStep
  <2>3. CASE Stop
    <3>1. UNCHANGED <<up, logged, fix, met>>
      BY <2>3 DEF Stop
    <3>. QED
      BY <2>0, <3>1, OtherFeedStep
  <2>. QED
    BY <1>1, <2>1, <2>2, <2>3
<1>2. CASE \/ FixConnect \/ Dialled \/ Logon \/ Mark \/ Dropped \/ Close \/ Retry
           \/ \E s \in NeonSymbols : Quoted(s)
  BY <1>2, FixStep
<1>3. CASE HlPoll \/ HlMark \/ HlFails \/ RestFails \/ AuxEnds
           \/ \E s \in HlSymbols : HlMatch(s) \/ RestQuote(s)
  <2>1. /\ UNCHANGED <<setup, fix, met, session, logged, live>>
        /\ up' \in [neon : BOOLEAN, hl : BOOLEAN, met : BOOLEAN]
        /\ up'.neon = up.neon /\ up'.met = up.met
    BY <1>3 DEF HlPoll, HlMark, HlFails, RestFails, AuxEnds, HlMatch, RestQuote, AuxRest
  <2>2. \/ UNCHANGED Quotes
        \/ \E s \in HlSymbols \cup MetSymbols : PublishQuote(s, 1)
        \/ setup = "rest" /\ RecordError
    BY <1>3 DEF HlPoll, HlMark, HlFails, RestFails, AuxEnds, HlMatch, RestQuote, Quotes
  <2>. QED
    BY <2>1, <2>2, OtherFeedStep
<1>4. CASE MetRoutes \/ MetOpen \/ MetMessage \/ MetLost \/ MetEnds
           \/ \E s \in MetSymbols : MetPublish(s)
  <2>1. /\ UNCHANGED <<setup, fix, session, logged>> /\ live' \in BOOLEAN
        /\ up' \in [neon : BOOLEAN, hl : BOOLEAN, met : BOOLEAN]
        /\ up'.neon = up.neon
    BY <1>4 DEF MetRoutes, MetOpen, MetMessage, MetLost, MetEnds, MetPublish, MetRest
  <2>2. \/ UNCHANGED Quotes
        \/ \E s \in HlSymbols \cup MetSymbols : PublishQuote(s, 1)
    BY <1>4 DEF MetRoutes, MetOpen, MetMessage, MetLost, MetEnds, MetPublish
  <2>3. up'.met => met' = "publish" \/ (met' = "open" /\ live')
    BY <1>4 DEF MetRoutes, MetOpen, MetMessage, MetLost, MetEnds, MetPublish
  <2>. QED
    BY <2>1, <2>2, <2>3, OtherFeedStep
<1>5. CASE UNCHANGED feedState
  BY <1>5, OtherFeedStep DEF feedState, Quotes
<1>. QED
  BY <1>1, <1>2, <1>3, <1>4, <1>5 DEF FeedNext

(* The feeds' invariant holds always.                                        *)
LEMMA FeedInvariant ==
  ASSUME FeedConstants
  PROVE  FeedSpec => [](FeedInv /\ Unstarted)
<1>1. FeedInit => FeedInv /\ Unstarted
  <2>. SUFFICES ASSUME FeedInit PROVE FeedInv /\ Unstarted
    OBVIOUS
  <2>1. NoQuotes \in [Symbols -> Nat]
    BY DEF NoQuotes
  <2>2. FeedTypes
    BY <2>1 DEF FeedInit, FeedTypes
  <2>3. FixOK /\ UpIsFresh
    BY DEF FeedInit, FixOK, UpIsFresh
  <2>4. StreakOK
    BY DEF FeedInit, StreakOK, Multi, None, FeedConstants
  <2>. QED
    BY <2>2, <2>3, <2>4 DEF FeedInv, FeedInit, Unstarted
<1>2. FeedInv /\ Unstarted /\ [FeedNext]_feedState => (FeedInv /\ Unstarted)'
  BY FeedStep, UnstartedStep
<1>. QED
  BY <1>1, <1>2, PTL DEF FeedSpec

(* A health flag that is up speaks of the connection the feed has now, for    *)
(* any symbols and any number of reconnections.                              *)
THEOREM FlagsAreFresh ==
  ASSUME FeedConstants
  PROVE  FeedSpec => []UpIsFresh
<1>1. FeedInv => UpIsFresh
  BY DEF FeedInv
<1>. QED
  BY <1>1, FeedInvariant, PTL

(* As many errors in a row as configured leave nothing quoted with a single    *)
(* feed; with several, no error of one blanks the others.                    *)
THEOREM ErrorsBlank ==
  ASSUME FeedConstants
  PROVE  FeedSpec => []Blanked
<1>1. FeedInv => Blanked
  BY DEF FeedInv, FeedTypes, StreakOK, Blanked, GetTheo, NoQuotes, FeedConstants
<1>. QED
  BY <1>1, FeedInvariant, PTL
=============================================================================

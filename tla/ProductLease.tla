---------------------------- MODULE ProductLease ----------------------------
(***************************************************************************)
(* The stacks that quote one AX product, and what keeps two threads from    *)
(* placing for it at once (src/strategy/MakeMarketStrategy.cpp):            *)
(*   - the placement lease of the product, a name kept under gate.mu        *)
(*     (MmAxProductPlacementGate), claimed with a deadline, by quote cycles *)
(*     when the product is quiet and by the venue converge when it is free; *)
(*   - the recursive mm_cycle_mutex_ of every stack, which a job takes all  *)
(*     of, in the order of the objects' addresses; some jobs hold their own *)
(*     stack's mutex already when they start taking the others.             *)
(* Three kinds of thread meet here: the mover worker (quote cycles and fill *)
(* re-quotes), the main loop's timer (periodic converge at the cap, position*)
(* reconcile) and the desk thread, which tears a stack down.                *)
(*                                                                          *)
(* Modelled in the off/shadow PositionBook mode, in which all these paths   *)
(* are live (in enforce mode converge and sync return early). Stacks are    *)
(* numbered in the order of their addresses. gate.mu is held only for one   *)
(* step at a time. force_released_owner is left out: it is set only for a   *)
(* stack that has stopped running, and read only next to isRunning().       *)
(***************************************************************************)
EXTENDS Integers, FiniteSets, FiniteSetsExt

CONSTANTS
  N,           \* how many stacks quote the product
  Threads,     \* the threads that run jobs
  Jobs,        \* Jobs[t]: the kinds of job thread t runs
  Degraded,    \* the stacks that have neither a bid nor an ask (0/0)
  MaxLegs,     \* a pair: two orders per placement
  MaxTeardowns \* bound: how many stacks the desk may remove

Stacks   == 1..N
JobKinds == {"cycle", "requote", "converge", "reconcile"}
None     == 0

ASSUME ProductLeaseAssumption ==
  /\ N \in Nat \ {0}
  /\ Jobs \in [Threads -> SUBSET JobKinds]
  /\ Degraded \subseteq Stacks
  /\ MaxLegs \in Nat /\ MaxTeardowns \in Nat

VARIABLES
  lease,    \* gate.lease_owner, None when empty
  stale,    \* the expiry conditions hold for the owner (TTL, or long inactive)
  pending,  \* mm_pending_accepts_ of each stack
  busy,     \* the stacks with a cancel in flight that is not yet too old to count
  running,  \* the stacks whose running_ is set
  desk,     \* how far the desk has removed each stack
  pc,       \* where each thread is
  job,      \* the kind of its job
  me,       \* the stack the job runs for
  ref,      \* ref_mm of the converge it runs
  want,     \* the stacks whose mutex it collects
  held,     \* the stacks whose mutex it holds
  legs      \* the orders it has yet to submit

gate    == <<lease, stale>>
stacks  == <<pending, busy, running, desk>>
locking == <<want, held>>
thread  == <<job, me>>
vars    == <<gate, stacks, pc, thread, ref, locking, legs>>

Registered == {s \in Stacks : desk[s] # "gone"}

(* No placement activity on the product, once the pending counts of the      *)
(* stacks of C are zeroed.                                                   *)
Quiet(C) == busy = {} /\ \A s \in Registered \ C : pending[s] = 0
Expirable == lease # None /\ (stale \/ lease \notin Registered)

LockPhases == {"own", "scrub", "pull", "diff", "locks"}
Missing(t) == IF pc[t] = "own" THEN {me[t]} \ held[t] ELSE want[t] \ held[t]
Target(t)  == Min(Missing(t))
Free(t, s) == \A u \in Threads \ {t} : s \notin held[u]

(* What a job keeps locked when it lets the collected mutexes go.            *)
Base(t) == CASE job[t] = "cycle"    -> held[t]
             [] job[t] = "converge" -> {}
             [] OTHER               -> {me[t]}

(* Where a job goes on after a converge.                                     *)
Resume(t) == CASE job[t] = "cycle"   -> "ready"
               [] job[t] = "requote" -> "clean"
               [] OTHER              -> "drop"

Goto(t, label) == pc' = [pc EXCEPT ![t] = label]

(* Fault: a job collects its own stack only.                                 *)
CollectedOwn(t) == {me[t]}

(* The stacks of the product now; the job's own if none is registered.       *)
Collected(t) == IF Registered # {} THEN Registered ELSE {me[t]}
Collect(t)   == want' = [want EXCEPT ![t] = Collected(t)]

Init ==
  /\ lease = None /\ stale = FALSE
  /\ pending = [s \in Stacks |-> 0]
  /\ busy = {}
  /\ running = Stacks
  /\ desk = [s \in Stacks |-> "no"]
  /\ pc = [t \in Threads |-> "idle"]
  /\ job = [t \in Threads |-> "cycle"]
  /\ me = [t \in Threads |-> 1]
  /\ ref = [t \in Threads |-> 1]
  /\ want = [t \in Threads |-> {}]
  /\ held = [t \in Threads |-> {}]
  /\ legs = [t \in Threads |-> 0]
-----------------------------------------------------------------------------
(* The start of a job.                                                       *)

StartLabel(kind) == CASE kind = "cycle"    -> "lease"
                      [] kind = "converge" -> "claim"
                      [] OTHER             -> "own"

Start(t, kind, s) ==
  /\ pc[t] = "idle"
  /\ kind \in Jobs[t]
  /\ s \in running
  /\ Goto(t, StartLabel(kind))
  /\ job' = [job EXCEPT ![t] = kind]
  /\ me' = [me EXCEPT ![t] = s]
  /\ UNCHANGED <<gate, stacks, ref, locking, legs>>

TakeOwn(t) ==
  /\ pc[t] = "own"
  /\ Free(t, me[t])
  /\ held' = [held EXCEPT ![t] = @ \cup {me[t]}]
  /\ IF job[t] = "requote"
       THEN Goto(t, "work") /\ UNCHANGED want
       ELSE Goto(t, "scrub") /\ Collect(t)
  /\ UNCHANGED <<gate, stacks, thread, ref, legs>>

(* A fill re-quote at the position cap cancels the reduce side of every      *)
(* stack before it places (mmEnsureAtCapReduceSideVenueClean).               *)
Scrub(t) ==
  /\ pc[t] = "work"
  /\ Goto(t, "scrub")
  /\ Collect(t)
  /\ UNCHANGED <<gate, stacks, thread, ref, held, legs>>

(* ... and converges as long as the venue shows too many rows. A quote cycle *)
(* does that under its own lease and locks.                                  *)
Converge(t) ==
  /\ pc[t] = "clean" \/ (pc[t] = "ready" /\ job[t] = "cycle")
  /\ Goto(t, "claim")
  /\ UNCHANGED <<gate, stacks, thread, ref, locking, legs>>

(* On to the lease, or one of the gates before it refuses.                   *)
Proceed(t) ==
  /\ pc[t] \in {"work", "clean"}
  /\ pc' \in {[pc EXCEPT ![t] = "lease"], [pc EXCEPT ![t] = "drop"]}
  /\ UNCHANGED <<gate, stacks, thread, ref, locking, legs>>
-----------------------------------------------------------------------------
(* The mutexes.                                                              *)

AllHeld(t) == pc[t] \in LockPhases \ {"own"} /\ want[t] \subseteq held[t]

LockNext(t) ==
  /\ pc[t] \in LockPhases \ {"own"}
  /\ Missing(t) # {}
  /\ Free(t, Target(t))
  /\ held' = [held EXCEPT ![t] = @ \cup {Target(t)}]
  /\ UNCHANGED <<gate, stacks, pc, thread, ref, want, legs>>

(* All are held: do the work under them. A scrub (cancel or sync), a pull    *)
(* and a converge's venue diff then let the collected mutexes go.            *)
Worked(t) ==
  /\ AllHeld(t)
  /\ \/ pc[t] = "scrub" /\ Goto(t, IF job[t] = "requote" THEN "clean" ELSE "claim")
     \/ pc[t] = "pull" /\ Goto(t, Resume(t))
     \/ pc[t] = "diff" /\ Goto(t, "giveback")
  /\ held' = [held EXCEPT ![t] = Base(t)]
  /\ UNCHANGED <<gate, stacks, thread, ref, want, legs>>

Ready(t) ==
  /\ pc[t] = "locks"
  /\ AllHeld(t)
  /\ Goto(t, "ready")
  /\ UNCHANGED <<gate, stacks, thread, ref, locking, legs>>
-----------------------------------------------------------------------------
(* The lease.                                                                *)

(* Every turn of mmAcquireProductPlacementLease first zeroes the pending     *)
(* counts that have not changed for 5 s: those of the stacks of C.           *)
StaleClear(C) == pending' = [s \in Stacks |-> IF s \in C THEN 0 ELSE pending[s]]

(* mmTryAtomicClaimProductPlacementLeaseLocked: an expired owner is cleared; *)
(* the claim is granted when the product is quiet or the waiter is 0/0,      *)
(* whoever owns the lease then.                                              *)
Acquire(t) ==
  /\ pc[t] = "lease"
  /\ \E C \in SUBSET Registered : StaleClear(C) /\ (Quiet(C) \/ me[t] \in Degraded)
  /\ lease' = me[t] /\ stale' = FALSE
  /\ IF job[t] = "cycle" /\ me[t] \notin running
       THEN Goto(t, "release") /\ UNCHANGED want
       ELSE Goto(t, "locks") /\ Collect(t)
  /\ UNCHANGED <<busy, running, desk, thread, ref, held, legs>>

Expire == lease' = (IF Expirable THEN None ELSE lease) /\ stale' = (stale /\ ~Expirable)

(* Not granted up to the deadline.                                           *)
Denied(t) ==
  /\ pc[t] = "lease"
  /\ \E C \in SUBSET Registered : StaleClear(C) /\ ~Quiet(C) /\ me[t] \notin Degraded
  /\ IF lease # me[t] THEN Expire ELSE UNCHANGED gate
  /\ Goto(t, "drop")
  /\ UNCHANGED <<busy, running, desk, thread, ref, locking, legs>>

(* mmConvergeProductBookOnAx claims for the first stack of the product,      *)
(* which may be unregistered while it waits for the lease.                   *)
Pin(t) ==
  /\ pc[t] = "claim"
  /\ IF Registered = {}
       THEN Goto(t, Resume(t)) /\ UNCHANGED ref
       ELSE Goto(t, "claiming") /\ ref' = [ref EXCEPT ![t] = Min(Registered)]
  /\ UNCHANGED <<gate, stacks, thread, locking, legs>>

Claim(t) ==
  /\ pc[t] = "claiming"
  /\ lease \in {None, ref[t]} \/ Expirable
  /\ lease' = ref[t] /\ stale' = FALSE
  /\ Goto(t, "diff")
  /\ Collect(t)
  /\ UNCHANGED <<stacks, thread, ref, held, legs>>

(* Past the deadline: at the cap the tracked legs are pulled without the     *)
(* lease.                                                                    *)
ClaimDenied(t) ==
  /\ pc[t] = "claiming"
  /\ lease \notin {None, ref[t]} /\ ~Expirable
  /\ \/ Goto(t, "pull") /\ Collect(t)
     \/ Goto(t, Resume(t)) /\ UNCHANGED want
  /\ UNCHANGED <<gate, stacks, thread, ref, held, legs>>

(* mmReleaseProductPlacementLeaseByName(name): the pending accepts of the    *)
(* stack have come, or are cleared after the wait budget; the lease is given *)
(* up if it is still this stack's.                                           *)
ReleaseByName(name) ==
  /\ pending' = IF name \in Registered THEN [pending EXCEPT ![name] = 0] ELSE pending
  /\ lease' = IF lease = name THEN None ELSE lease
  /\ stale' = (stale /\ lease # name)

GiveBack(t) ==
  /\ pc[t] = "giveback"
  /\ ReleaseByName(ref[t])
  /\ Goto(t, Resume(t))
  /\ UNCHANGED <<busy, running, desk, thread, ref, locking, legs>>

(* Fault: a scope that is left releases nothing.                             *)
ReleaseForgotten(t) ==
  /\ pc[t] = "release"
  /\ Goto(t, "drop")
  /\ UNCHANGED <<gate, stacks, thread, ref, locking, legs>>

(* The scope is left: its destructor runs after the mutexes are let go.      *)
Release(t) ==
  /\ pc[t] = "release"
  /\ ReleaseByName(me[t])
  /\ Goto(t, "drop")
  /\ UNCHANGED <<busy, running, desk, thread, ref, locking, legs>>

Drop(t) ==
  /\ pc[t] = "drop"
  /\ held' = [held EXCEPT ![t] = {}]
  /\ Goto(t, "idle")
  /\ UNCHANGED <<gate, stacks, thread, ref, want, legs>>
-----------------------------------------------------------------------------
(* Placing. A re-quote reserves its accepts together, a cycle one by one.    *)

Add(s, k) == pending' = [pending EXCEPT ![s] = @ + k]

(* Fault: the count is taken down without looking whether it is above zero.  *)
TakeOneUnguarded(s) == pending' = [pending EXCEPT ![s] = @ - 1]

TakeOne(s) == pending' = [pending EXCEPT ![s] = IF @ > 0 THEN @ - 1 ELSE 0]

Begin(t) ==
  /\ pc[t] = "ready"
  /\ \E k \in 0..MaxLegs :
       /\ legs' = [legs EXCEPT ![t] = k]
       /\ IF job[t] = "requote" THEN Add(me[t], k) ELSE UNCHANGED pending
  /\ Goto(t, "place")
  /\ UNCHANGED <<gate, busy, running, desk, thread, ref, locking>>

(* The gate lets the owner's order through to the wire.                      *)
Submit(t) ==
  /\ pc[t] = "place"
  /\ legs[t] > 0
  /\ lease = me[t] /\ me[t] \in running
  /\ IF job[t] = "cycle" THEN Add(me[t], 1) ELSE UNCHANGED pending
  /\ Goto(t, "wire")
  /\ UNCHANGED <<gate, busy, running, desk, thread, ref, locking, legs>>

(* Fault: a refused order keeps its reservation.                             *)
RefusedKeepsReservation(t) ==
  /\ pc[t] = "place"
  /\ legs[t] > 0
  /\ legs' = [legs EXCEPT ![t] = @ - 1]
  /\ Add(me[t], 1)
  /\ UNCHANGED <<gate, busy, running, desk, pc, thread, ref, locking>>

(* Not the owner any more, stopped, or at the cap: the reservation is undone.*)
Refused(t) ==
  /\ pc[t] = "place"
  /\ legs[t] > 0
  /\ legs' = [legs EXCEPT ![t] = @ - 1]
  /\ IF job[t] = "requote" THEN TakeOne(me[t]) ELSE UNCHANGED pending
  /\ UNCHANGED <<gate, busy, running, desk, pc, thread, ref, locking>>

(* The place call returns; its accept or reject event is delivered on the    *)
(* same thread, unless the stack has dropped its subscriptions.              *)
Answered(t) ==
  /\ pc[t] = "wire"
  /\ legs' = [legs EXCEPT ![t] = @ - 1]
  /\ IF me[t] \in running THEN TakeOne(me[t]) ELSE UNCHANGED pending
  /\ Goto(t, "place")
  /\ UNCHANGED <<gate, busy, running, desk, thread, ref, locking>>

Placed(t) ==
  /\ pc[t] = "place"
  /\ legs[t] = 0
  /\ held' = [held EXCEPT ![t] = IF job[t] = "cycle" THEN {} ELSE {me[t]}]
  /\ Goto(t, "release")
  /\ UNCHANGED <<gate, stacks, thread, ref, want, legs>>
-----------------------------------------------------------------------------
(* The desk removes a stack: stop it, wait for its lease to be let go, force *)
(* that after 5 s, cancel its legs, unregister it.                           *)

Removing == {s \in Stacks : desk[s] \in {"waiting", "released"}}

Teardown(s) ==
  /\ desk[s] = "no" /\ Removing = {}
  /\ Cardinality({u \in Stacks : desk[u] # "no"}) < MaxTeardowns
  /\ desk' = [desk EXCEPT ![s] = "waiting"]
  /\ running' = running \ {s}
  /\ pending' = [pending EXCEPT ![s] = 0]
  /\ UNCHANGED <<gate, busy, pc, thread, ref, locking, legs>>

LeaseSeenReleased(s) ==
  /\ desk[s] = "waiting" /\ lease # s
  /\ desk' = [desk EXCEPT ![s] = "released"]
  /\ UNCHANGED <<gate, pending, busy, running, pc, thread, ref, locking, legs>>

ForceRelease(s) ==
  /\ desk[s] = "waiting" /\ lease = s
  /\ ReleaseByName(s)
  /\ desk' = [desk EXCEPT ![s] = "released"]
  /\ UNCHANGED <<busy, running, pc, thread, ref, locking, legs>>

(* Fault: the teardown takes the stack's cycle mutex to cancel its legs.     *)
UnregisterUnderMutex(s) ==
  /\ desk[s] = "released"
  /\ \A t \in Threads : s \notin held[t]
  /\ pending' = [pending EXCEPT ![s] = 0]
  /\ desk' = [desk EXCEPT ![s] = "gone"]
  /\ UNCHANGED <<gate, busy, running, pc, thread, ref, locking, legs>>

Unregister(s) ==
  /\ desk[s] = "released"
  /\ pending' = [pending EXCEPT ![s] = 0]
  /\ desk' = [desk EXCEPT ![s] = "gone"]
  /\ UNCHANGED <<gate, busy, running, pc, thread, ref, locking, legs>>

(* Time passes for the lease; a cancel goes out (it needs no lease), and is  *)
(* answered or too old to count.                                             *)
Age ==
  /\ lease # None /\ ~stale
  /\ stale' = TRUE
  /\ UNCHANGED <<lease, stacks, pc, thread, ref, locking, legs>>

CancelSent(s) ==
  /\ s \in running \ busy
  /\ busy' = busy \cup {s}
  /\ UNCHANGED <<gate, pending, running, desk, pc, thread, ref, locking, legs>>

CancelSettled(s) ==
  /\ s \in busy
  /\ busy' = busy \ {s}
  /\ UNCHANGED <<gate, pending, running, desk, pc, thread, ref, locking, legs>>
-----------------------------------------------------------------------------
Run(t) ==
  \/ \E kind \in JobKinds, s \in Stacks : Start(t, kind, s)
  \/ TakeOwn(t) \/ Scrub(t) \/ Converge(t) \/ Proceed(t)
  \/ LockNext(t) \/ Worked(t) \/ Ready(t)
  \/ Acquire(t) \/ Denied(t) \/ Pin(t) \/ Claim(t) \/ ClaimDenied(t)
  \/ GiveBack(t) \/ Release(t) \/ Drop(t)
  \/ Begin(t) \/ Submit(t) \/ Refused(t) \/ Answered(t) \/ Placed(t)

Desk(s) == Teardown(s) \/ LeaseSeenReleased(s) \/ ForceRelease(s) \/ Unregister(s)

Next ==
  \/ \E t \in Threads : Run(t)
  \/ \E s \in Stacks : Desk(s) \/ CancelSent(s) \/ CancelSettled(s)
  \/ Age

Spec == Init /\ [][Next]_vars

(* The desk thread is scheduled.                                             *)
FairSpec ==
  /\ Spec
  /\ \A s \in Stacks : WF_vars(LeaseSeenReleased(s) \/ ForceRelease(s) \/ Unregister(s))
-----------------------------------------------------------------------------
Labels == LockPhases \cup {"idle", "work", "clean", "claim", "claiming", "giveback", "lease",
                           "ready", "place", "wire", "release", "drop"}

(* Every variable has its type; the pending count never goes below zero.     *)
TypeOK ==
  /\ lease \in Stacks \cup {None} /\ stale \in BOOLEAN
  /\ pending \in [Stacks -> Nat]
  /\ busy \in SUBSET Stacks /\ running \in SUBSET Stacks
  /\ desk \in [Stacks -> {"no", "waiting", "released", "gone"}]
  /\ pc \in [Threads -> Labels]
  /\ job \in [Threads -> JobKinds]
  /\ me \in [Threads -> Stacks] /\ ref \in [Threads -> Stacks]
  /\ want \in [Threads -> SUBSET Stacks] /\ held \in [Threads -> SUBSET Stacks]
  /\ legs \in [Threads -> Nat]

(* The thread does work for which it must hold the mutex of every stack: it  *)
(* places, or it has collected them for a scrub, a sync, a pull or a diff.   *)
Working(t) ==
  \/ pc[t] \in {"ready", "place", "wire"}
  \/ pc[t] \in LockPhases \ {"own"} /\ want[t] \subseteq held[t]

(* While a thread has an order of a registered stack on the wire, no other   *)
(* thread works on the product's book: the cycle mutexes see to it, even when *)
(* the lease has been taken from the placing thread, and whichever stacks the *)
(* desk unregisters between a collection and the locking of what was         *)
(* collected (mmAcquireAllStacksCycleLocks).                                 *)
PlaceExclusive ==
  \A t, u \in Threads :
    t # u /\ pc[t] = "wire" /\ me[t] \in Registered => ~Working(u)

(* The thread is between a claim for the stack and the release of it.        *)
InScope(t, s) ==
  \/ pc[t] \in {"diff", "giveback"} /\ ref[t] = s
  \/ pc[t] \in {"locks", "ready", "place", "wire", "release"} /\ me[t] = s
  \/ job[t] = "cycle" /\ me[t] = s /\ pc[t] \in {"claim", "claiming", "pull", "diff", "giveback"}

(* The lease is never leaked: its owner's name is always one that some thread *)
(* is going to release, through every denial, early return, forced release,  *)
(* nested converge and take-over.                                            *)
NoLeakedLease == lease # None => \E t \in Threads : InScope(t, lease)

(* A stack's pending accepts never exceed the orders that the job placing    *)
(* for it has yet to submit or to hear of: every path of a placement gives   *)
(* its reservation back before the lease is released, so the release does    *)
(* not have to wait for its timeout, and a finished job never keeps the      *)
(* product from being quiet.                                                 *)
PendingAccounted ==
  \A s \in Registered :
    pending[s] > 0 =>
      \E t \in Threads : me[t] = s /\ pc[t] \in {"place", "wire"} /\ pending[s] <= legs[t]

(* The teardown of a stack ends, even when the jobs that use the stack are   *)
(* blocked on each other's mutexes.                                          *)
TeardownEnds == \A s \in Stacks : desk[s] = "waiting" ~> desk[s] = "gone"

(* No two threads wait for each other's cycle mutexes (they are taken "in    *)
(* the SAME deterministic order (deadlock-free)").                           *)
WaitsFor(t, u) ==
  pc[t] \in LockPhases /\ Missing(t) # {} /\ Target(t) \in held[u]
NoWaitCycle == \A t, u \in Threads : t # u => ~(WaitsFor(t, u) /\ WaitsFor(u, t))
=============================================================================

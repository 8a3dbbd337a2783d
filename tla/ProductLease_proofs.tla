------------------------ MODULE ProductLease_proofs ------------------------
(***************************************************************************)
(* ProductLease for any number of stacks, any set of threads and any jobs:  *)
(* types, the exclusion of the work done under the cycle mutexes, the lease  *)
(* that is never leaked, and the pending accepts that are accounted for.    *)
(* CapConverge, the clean-up that runs under the lease, for any stacks and  *)
(* prices: it spares the stacks' quotes.                                    *)
(***************************************************************************)
EXTENDS ProductLease, CapConverge, WellFoundedInduction, TLAPS

USE ProductLeaseAssumption
USE DEF gate, stacks, locking, thread

(* Phases in which a thread keeps every mutex it has collected: while it     *)
(* places, and in a quote cycle also around a nested converge.               *)
Kept(t) ==
  \/ pc[t] \in {"ready", "place", "wire"}
  \/ job[t] = "cycle" /\ pc[t] \in {"claim", "claiming", "giveback"}

(* Which jobs reach a phase.                                                 *)
JobOK(t) ==
  /\ pc[t] \in {"lease", "locks", "ready", "place", "wire"} => job[t] \in {"cycle", "requote"}
  /\ pc[t] \in {"work", "clean"} => job[t] = "requote"

(* A job that takes its own mutex first keeps it to its end.                 *)
OwnOK(t) ==
  job[t] \in {"requote", "reconcile"} /\ pc[t] \notin {"idle", "own"} => me[t] \in held[t]

(* What is collected covers every stack that is still registered.            *)
CoverOK(t) ==
  Kept(t) \/ pc[t] \in {"scrub", "pull", "diff", "locks"} => Registered \subseteq want[t]

ThreadOK(t) ==
  /\ pc[t] = "wire" => legs[t] > 0
  /\ JobOK(t)
  /\ OwnOK(t)
  /\ Kept(t) => want[t] \subseteq held[t]
  /\ CoverOK(t)

(* A mutex has one holder.                                                   *)
Disjoint == \A t, u \in Threads : t # u => held[t] \cap held[u] = {}

(* The inductive invariant behind PlaceExclusive.                            *)
LockInv == TypeOK /\ Disjoint /\ \A t \in Threads : ThreadOK(t)
-----------------------------------------------------------------------------
(* A set of stacks that is not empty has a least element.                    *)
LEMMA MinStack ==
  ASSUME NEW S, S \subseteq Stacks, S # {}
  PROVE  Min(S) \in S
<1>1. S \subseteq Nat
  BY DEF Stacks
<1>2. \E x \in S : \A y \in S : ~ (<<y, x>> \in OpToRel(<, Nat))
  BY <1>1, NatLessThanWellFounded, WFMin
<1>3. PICK x \in S : \A y \in S : <<y, x>> \notin OpToRel(<, Nat)
  BY <1>2, Zenon
<1>4. \A y \in S : ~ (y < x)
  BY <1>1, <1>3, Zenon DEF OpToRel
<1>5. \A y \in S : x =< y
  BY <1>1, <1>4
<1>. QED
  BY <1>5 DEF Min

(* What a thread collects is a set of stacks that holds the registered ones. *)
LEMMA CollectedStacks ==
  ASSUME NEW t \in Threads, TypeOK
  PROVE  Collected(t) \subseteq Stacks /\ Registered \subseteq Collected(t)
BY DEF Collected, Registered, TypeOK

(* The stack whose mutex a thread takes next.                                *)
LEMMA TargetStack ==
  ASSUME NEW t \in Threads, TypeOK, Missing(t) # {}
  PROVE  Target(t) \in Stacks /\ Target(t) \in Missing(t)
BY MinStack DEF Target, Missing, TypeOK

(* The stack a converge claims for.                                          *)
LEMMA FirstStack ==
  ASSUME Registered # {}
  PROVE  Min(Registered) \in Stacks
BY MinStack DEF Registered
-----------------------------------------------------------------------------
(* A step of one thread leaves the other threads and the desk alone.         *)
LEMMA OthersKept ==
  ASSUME NEW t \in Threads, TypeOK, Run(t)
  PROVE  /\ desk' = desk
         /\ \A u \in Threads \ {t} :
              /\ pc'[u] = pc[u] /\ job'[u] = job[u] /\ me'[u] = me[u]
              /\ ref'[u] = ref[u] /\ legs'[u] = legs[u]
              /\ want'[u] = want[u] /\ held'[u] = held[u]
<1>1. CASE \E kind \in JobKinds, s \in Stacks : Start(t, kind, s)
  BY <1>1 DEF Start, StartLabel, Goto, TypeOK
<1>2. CASE TakeOwn(t)
  BY <1>2 DEF TakeOwn, Collect, Goto, TypeOK
<1>3. CASE Scrub(t)
  BY <1>3 DEF Scrub, Collect, Goto, TypeOK
<1>4. CASE Converge(t)
  BY <1>4 DEF Converge, Goto, TypeOK
<1>5. CASE Proceed(t)
  BY <1>5 DEF Proceed, TypeOK
<1>6. CASE LockNext(t)
  BY <1>6 DEF LockNext, TypeOK
<1>7. CASE Worked(t)
  BY <1>7 DEF Worked, AllHeld, Base, Resume, Goto, TypeOK
<1>8. CASE Ready(t)
  BY <1>8 DEF Ready, AllHeld, Goto, TypeOK
<1>9. CASE Acquire(t)
  BY <1>9 DEF Acquire, StaleClear, Collect, Goto, TypeOK
<1>10. CASE Denied(t)
  BY <1>10 DEF Denied, StaleClear, Expire, Goto, TypeOK
<1>11. CASE Pin(t)
  BY <1>11 DEF Pin, Resume, Goto, TypeOK
<1>12. CASE Claim(t)
  BY <1>12 DEF Claim, Collect, Goto, TypeOK
<1>13. CASE ClaimDenied(t)
  BY <1>13 DEF ClaimDenied, Resume, Collect, Goto, TypeOK
<1>14. CASE GiveBack(t)
  BY <1>14 DEF GiveBack, ReleaseByName, Resume, Goto, TypeOK
<1>15. CASE Release(t)
  BY <1>15 DEF Release, ReleaseByName, Goto, TypeOK
<1>16. CASE Drop(t)
  BY <1>16 DEF Drop, Goto, TypeOK
<1>17. CASE Begin(t)
  BY <1>17 DEF Begin, Add, Goto, TypeOK
<1>18. CASE Submit(t)
  BY <1>18 DEF Submit, Add, Goto, TypeOK
<1>19. CASE Refused(t)
  BY <1>19 DEF Refused, TakeOne, TypeOK
<1>20. CASE Answered(t)
  BY <1>20 DEF Answered, TakeOne, Goto, TypeOK
<1>21. CASE Placed(t)
  BY <1>21 DEF Placed, Goto, TypeOK
<1>. QED
  BY <1>1, <1>2, <1>3, <1>4, <1>5, <1>6, <1>7, <1>8, <1>9, <1>10, <1>11, <1>12, <1>13, <1>14, <1>15, <1>16, <1>17, <1>18, <1>19, <1>20, <1>21 DEF Run

(* Every step of a thread keeps the types.                                   *)
LEMMA TypeStep ==
  ASSUME NEW t \in Threads, TypeOK, ThreadOK(t), Run(t)
  PROVE  TypeOK'
<1>. Collected(t) \subseteq Stacks
  BY CollectedStacks
<1>1. CASE \E kind \in JobKinds, s \in Stacks : Start(t, kind, s)
  BY <1>1 DEF Start, StartLabel, Goto, TypeOK, Labels, LockPhases
<1>2. CASE TakeOwn(t)
  BY <1>2 DEF TakeOwn, Collect, Goto, TypeOK, Labels, LockPhases
<1>3. CASE Scrub(t)
  BY <1>3 DEF Scrub, Collect, Goto, TypeOK, Labels, LockPhases
<1>4. CASE Converge(t)
  BY <1>4 DEF Converge, Goto, TypeOK, Labels, LockPhases
<1>5. CASE Proceed(t)
  BY <1>5 DEF Proceed, TypeOK, Labels, LockPhases
<1>6. CASE LockNext(t)
  BY <1>6, TargetStack DEF LockNext, TypeOK
<1>7. CASE Worked(t)
  BY <1>7 DEF Worked, AllHeld, Base, Resume, Goto, TypeOK, Labels, LockPhases
<1>8. CASE Ready(t)
  BY <1>8 DEF Ready, AllHeld, Goto, TypeOK, Labels, LockPhases
<1>9. CASE Acquire(t)
  <2>1. pending' \in [Stacks -> Nat]
    BY <1>9 DEF Acquire, StaleClear, TypeOK
  <2>2. lease' \in Stacks /\ stale' \in BOOLEAN /\ pc' \in [Threads -> Labels]
    BY <1>9 DEF Acquire, Goto, TypeOK, Labels, LockPhases
  <2>3. want' \in [Threads -> SUBSET Stacks]
    BY <1>9, CollectedStacks DEF Acquire, Collect, TypeOK
  <2>. QED
    BY <1>9, <2>1, <2>2, <2>3 DEF Acquire, TypeOK
<1>10. CASE Denied(t)
  <2>1. pending' \in [Stacks -> Nat]
    BY <1>10 DEF Denied, StaleClear, TypeOK
  <2>2. lease' \in Stacks \cup {None} /\ stale' \in BOOLEAN
    BY <1>10 DEF Denied, Expire, gate, TypeOK
  <2>3. pc' \in [Threads -> Labels]
    BY <1>10 DEF Denied, Goto, TypeOK, Labels
  <2>. QED
    BY <1>10, <2>1, <2>2, <2>3 DEF Denied, TypeOK, locking, thread
<1>11. CASE Pin(t)
  BY <1>11, FirstStack DEF Pin, Resume, Goto, TypeOK, Labels, LockPhases
<1>12. CASE Claim(t)
  BY <1>12 DEF Claim, Collect, Goto, TypeOK, Labels, LockPhases
<1>13. CASE ClaimDenied(t)
  BY <1>13 DEF ClaimDenied, Resume, Collect, Goto, TypeOK, Labels, LockPhases
<1>14. CASE GiveBack(t)
  BY <1>14 DEF GiveBack, ReleaseByName, Resume, Goto, TypeOK, Labels, LockPhases
<1>15. CASE Release(t)
  BY <1>15 DEF Release, ReleaseByName, Goto, TypeOK, Labels, LockPhases
<1>16. CASE Drop(t)
  BY <1>16 DEF Drop, Goto, TypeOK, Labels, LockPhases
<1>17. CASE Begin(t)
  BY <1>17 DEF Begin, Add, Goto, TypeOK, Labels, LockPhases
<1>18. CASE Submit(t)
  BY <1>18 DEF Submit, Add, Goto, TypeOK, Labels, LockPhases
<1>19. CASE Refused(t)
  BY <1>19 DEF Refused, TakeOne, TypeOK, Labels, LockPhases
<1>20. CASE Answered(t)
  BY <1>20 DEF Answered, TakeOne, Goto, TypeOK, Labels, LockPhases, ThreadOK
<1>21. CASE Placed(t)
  BY <1>21 DEF Placed, Goto, TypeOK, Labels, LockPhases
<1>. QED
  BY <1>1, <1>2, <1>3, <1>4, <1>5, <1>6, <1>7, <1>8, <1>9, <1>10, <1>11, <1>12, <1>13, <1>14, <1>15, <1>16, <1>17, <1>18, <1>19, <1>20, <1>21 DEF Run

(* Every step of a thread keeps its own part of the invariant.               *)
LEMMA ThreadStep ==
  ASSUME NEW t \in Threads, TypeOK, ThreadOK(t), Run(t)
  PROVE  ThreadOK(t)'
<1>. desk' = desk
  BY OthersKept
<1>. Registered' = Registered
  BY DEF Registered
<1>. Registered \subseteq Collected(t)
  BY CollectedStacks
<1>1. CASE \E kind \in JobKinds, s \in Stacks : Start(t, kind, s)
  BY <1>1 DEF Start, StartLabel, Goto, TypeOK, ThreadOK, JobOK, OwnOK, CoverOK, Kept, LockPhases
<1>2. CASE TakeOwn(t)
  BY <1>2 DEF TakeOwn, Collect, Goto, TypeOK, ThreadOK, JobOK, OwnOK, CoverOK, Kept, LockPhases
<1>3. CASE Scrub(t)
  BY <1>3 DEF Scrub, Collect, Goto, TypeOK, ThreadOK, JobOK, OwnOK, CoverOK, Kept, LockPhases
<1>4. CASE Converge(t)
  BY <1>4 DEF Converge, Goto, TypeOK, ThreadOK, JobOK, OwnOK, CoverOK, Kept, LockPhases
<1>5. CASE Proceed(t)
  BY <1>5 DEF Proceed, TypeOK, ThreadOK, JobOK, OwnOK, CoverOK, Kept, LockPhases
<1>6. CASE LockNext(t)
  BY <1>6 DEF LockNext, TypeOK, ThreadOK, JobOK, OwnOK, CoverOK, Kept, LockPhases
<1>7. CASE Worked(t)
  BY <1>7 DEF Worked, AllHeld, Base, Resume, Goto, TypeOK, ThreadOK, JobOK, OwnOK, CoverOK, Kept, LockPhases
<1>8. CASE Ready(t)
  BY <1>8 DEF Ready, AllHeld, Goto, TypeOK, ThreadOK, JobOK, OwnOK, CoverOK, Kept, LockPhases
<1>9. CASE Acquire(t)
  BY <1>9 DEF Acquire, StaleClear, Collect, Goto, TypeOK, ThreadOK, JobOK, OwnOK, CoverOK, Kept, LockPhases
<1>10. CASE Denied(t)
  BY <1>10 DEF Denied, StaleClear, Expire, Goto, TypeOK, ThreadOK, JobOK, OwnOK, CoverOK, Kept, LockPhases
<1>11. CASE Pin(t)
  BY <1>11 DEF Pin, Resume, Goto, TypeOK, ThreadOK, JobOK, OwnOK, CoverOK, Kept, LockPhases
<1>12. CASE Claim(t)
  BY <1>12 DEF Claim, Collect, Goto, TypeOK, ThreadOK, JobOK, OwnOK, CoverOK, Kept, LockPhases
<1>13. CASE ClaimDenied(t)
  BY <1>13 DEF ClaimDenied, Resume, Collect, Goto, TypeOK, ThreadOK, JobOK, OwnOK, CoverOK, Kept, LockPhases
<1>14. CASE GiveBack(t)
  BY <1>14 DEF GiveBack, ReleaseByName, Resume, Goto, TypeOK, ThreadOK, JobOK, OwnOK, CoverOK, Kept, LockPhases
<1>15. CASE Release(t)
  BY <1>15 DEF Release, ReleaseByName, Goto, TypeOK, ThreadOK, JobOK, OwnOK, CoverOK, Kept, LockPhases
<1>16. CASE Drop(t)
  BY <1>16 DEF Drop, Goto, TypeOK, ThreadOK, JobOK, OwnOK, CoverOK, Kept, LockPhases
<1>17. CASE Begin(t)
  BY <1>17 DEF Begin, Add, Goto, TypeOK, ThreadOK, JobOK, OwnOK, CoverOK, Kept, LockPhases
<1>18. CASE Submit(t)
  BY <1>18 DEF Submit, Add, Goto, TypeOK, ThreadOK, JobOK, OwnOK, CoverOK, Kept, LockPhases
<1>19. CASE Refused(t)
  BY <1>19 DEF Refused, TakeOne, TypeOK, ThreadOK, JobOK, OwnOK, CoverOK, Kept, LockPhases
<1>20. CASE Answered(t)
  BY <1>20 DEF Answered, TakeOne, Goto, TypeOK, ThreadOK, JobOK, OwnOK, CoverOK, Kept, LockPhases
<1>21. CASE Placed(t)
  BY <1>21 DEF Placed, Goto, TypeOK, ThreadOK, JobOK, OwnOK, CoverOK, Kept, LockPhases
<1>. QED
  BY <1>1, <1>2, <1>3, <1>4, <1>5, <1>6, <1>7, <1>8, <1>9, <1>10, <1>11, <1>12, <1>13, <1>14, <1>15, <1>16, <1>17, <1>18, <1>19, <1>20, <1>21 DEF Run

(* A thread takes only a mutex that is free.                                 *)
LEMMA DisjointStep ==
  ASSUME NEW t \in Threads, TypeOK, ThreadOK(t), Disjoint, Run(t)
  PROVE  Disjoint'
<1>. \A u \in Threads \ {t} : held'[u] = held[u]
  BY OthersKept
<1>1. CASE \E kind \in JobKinds, s \in Stacks : Start(t, kind, s)
  BY <1>1 DEF Start, StartLabel, Goto, TypeOK, ThreadOK, OwnOK, JobOK, Disjoint, Free, LockPhases
<1>2. CASE TakeOwn(t)
  BY <1>2 DEF TakeOwn, Collect, Goto, TypeOK, ThreadOK, OwnOK, JobOK, Disjoint, Free, LockPhases
<1>3. CASE Scrub(t)
  BY <1>3 DEF Scrub, Collect, Goto, TypeOK, ThreadOK, OwnOK, JobOK, Disjoint, Free, LockPhases
<1>4. CASE Converge(t)
  BY <1>4 DEF Converge, Goto, TypeOK, ThreadOK, OwnOK, JobOK, Disjoint, Free, LockPhases
<1>5. CASE Proceed(t)
  BY <1>5 DEF Proceed, TypeOK, ThreadOK, OwnOK, JobOK, Disjoint, Free, LockPhases
<1>6. CASE LockNext(t)
  BY <1>6 DEF LockNext, TypeOK, ThreadOK, OwnOK, JobOK, Disjoint, Free, LockPhases
<1>7. CASE Worked(t)
  <2>1. Base(t) \subseteq held[t]
    BY <1>7 DEF Worked, AllHeld, Base, TypeOK, JobKinds, ThreadOK, OwnOK
  <2>2. held'[t] = Base(t)
    BY <1>7 DEF Worked, TypeOK
  <2>. QED
    BY <2>1, <2>2 DEF Disjoint
<1>8. CASE Ready(t)
  BY <1>8 DEF Ready, AllHeld, Goto, TypeOK, ThreadOK, OwnOK, JobOK, Disjoint, Free, LockPhases
<1>9. CASE Acquire(t)
  BY <1>9 DEF Acquire, StaleClear, Collect, Goto, TypeOK, ThreadOK, OwnOK, JobOK, Disjoint, Free, LockPhases
<1>10. CASE Denied(t)
  BY <1>10 DEF Denied, StaleClear, Expire, Goto, TypeOK, ThreadOK, OwnOK, JobOK, Disjoint, Free, LockPhases
<1>11. CASE Pin(t)
  BY <1>11 DEF Pin, Resume, Goto, TypeOK, ThreadOK, OwnOK, JobOK, Disjoint, Free, LockPhases
<1>12. CASE Claim(t)
  BY <1>12 DEF Claim, Collect, Goto, TypeOK, ThreadOK, OwnOK, JobOK, Disjoint, Free, LockPhases
<1>13. CASE ClaimDenied(t)
  BY <1>13 DEF ClaimDenied, Resume, Collect, Goto, TypeOK, ThreadOK, OwnOK, JobOK, Disjoint, Free, LockPhases
<1>14. CASE GiveBack(t)
  BY <1>14 DEF GiveBack, ReleaseByName, Resume, Goto, TypeOK, ThreadOK, OwnOK, JobOK, Disjoint, Free, LockPhases
<1>15. CASE Release(t)
  BY <1>15 DEF Release, ReleaseByName, Goto, TypeOK, ThreadOK, OwnOK, JobOK, Disjoint, Free, LockPhases
<1>16. CASE Drop(t)
  BY <1>16 DEF Drop, Goto, TypeOK, ThreadOK, OwnOK, JobOK, Disjoint, Free, LockPhases
<1>17. CASE Begin(t)
  BY <1>17 DEF Begin, Add, Goto, TypeOK, ThreadOK, OwnOK, JobOK, Disjoint, Free, LockPhases
<1>18. CASE Submit(t)
  BY <1>18 DEF Submit, Add, Goto, TypeOK, ThreadOK, OwnOK, JobOK, Disjoint, Free, LockPhases
<1>19. CASE Refused(t)
  BY <1>19 DEF Refused, TakeOne, TypeOK, ThreadOK, OwnOK, JobOK, Disjoint, Free, LockPhases
<1>20. CASE Answered(t)
  BY <1>20 DEF Answered, TakeOne, Goto, TypeOK, ThreadOK, OwnOK, JobOK, Disjoint, Free, LockPhases
<1>21. CASE Placed(t)
  BY <1>21 DEF Placed, Goto, TypeOK, ThreadOK, OwnOK, JobOK, Disjoint, Free, LockPhases
<1>. QED
  BY <1>1, <1>2, <1>3, <1>4, <1>5, <1>6, <1>7, <1>8, <1>9, <1>10, <1>11, <1>12, <1>13, <1>14, <1>15, <1>16, <1>17, <1>18, <1>19, <1>20, <1>21 DEF Run

-----------------------------------------------------------------------------
(* A step of the desk or of the environment leaves the threads alone; a       *)
(* stack is only ever unregistered.                                          *)
LEMMA DeskKept ==
  ASSUME TypeOK, NEW s \in Stacks, Desk(s) \/ CancelSent(s) \/ CancelSettled(s) \/ Age
  PROVE  /\ UNCHANGED <<pc, thread, ref, locking, legs>>
         /\ Registered' \subseteq Registered
<1>1. CASE Teardown(s)
  BY <1>1 DEF Teardown, Registered, TypeOK
<1>2. CASE LeaseSeenReleased(s)
  BY <1>2 DEF LeaseSeenReleased, Registered, TypeOK
<1>3. CASE ForceRelease(s)
  BY <1>3 DEF ForceRelease, ReleaseByName, Registered, TypeOK
<1>4. CASE Unregister(s)
  BY <1>4 DEF Unregister, Registered, TypeOK
<1>5. CASE CancelSent(s) \/ CancelSettled(s) \/ Age
  BY <1>5 DEF CancelSent, CancelSettled, Age, Registered
<1>. QED
  BY <1>1, <1>2, <1>3, <1>4, <1>5 DEF Desk

(* Every step of the desk or of the environment keeps the types.             *)
LEMMA DeskTypeStep ==
  ASSUME TypeOK, NEW s \in Stacks, Desk(s) \/ CancelSent(s) \/ CancelSettled(s) \/ Age
  PROVE  TypeOK'
<1>1. CASE Teardown(s)
  BY <1>1 DEF Teardown, TypeOK
<1>2. CASE LeaseSeenReleased(s)
  BY <1>2 DEF LeaseSeenReleased, TypeOK
<1>3. CASE ForceRelease(s)
  BY <1>3 DEF ForceRelease, ReleaseByName, TypeOK
<1>4. CASE Unregister(s)
  BY <1>4 DEF Unregister, TypeOK
<1>5. CASE CancelSent(s) \/ CancelSettled(s)
  BY <1>5 DEF CancelSent, CancelSettled, TypeOK
<1>6. CASE Age
  BY <1>6 DEF Age, TypeOK
<1>. QED
  BY <1>1, <1>2, <1>3, <1>4, <1>5, <1>6 DEF Desk

(* What a thread's part of the invariant says survives a step in which the    *)
(* thread itself does nothing.                                               *)
LEMMA ThreadFrame ==
  ASSUME NEW u \in Threads, ThreadOK(u), Registered' \subseteq Registered,
         pc'[u] = pc[u], job'[u] = job[u], me'[u] = me[u], legs'[u] = legs[u],
         want'[u] = want[u], held'[u] = held[u]
  PROVE  ThreadOK(u)'
BY DEF ThreadOK, JobOK, OwnOK, CoverOK, Kept

(* The locking invariant holds at the start.                                 *)
LEMMA LockInit ==
  ASSUME Init
  PROVE  LockInv
<1>1. TypeOK
  <2>1. 1 \in Stacks
    BY DEF Stacks
  <2>2. lease \in Stacks \cup {None} /\ pending \in [Stacks -> Nat]
    BY DEF Init
  <2>. QED
    BY <2>1, <2>2 DEF Init, TypeOK, Labels, LockPhases, JobKinds
<1>2. Disjoint
  BY DEF Init, Disjoint
<1>3. \A t \in Threads : ThreadOK(t)
  BY DEF Init, ThreadOK, JobOK, OwnOK, CoverOK, Kept
<1>. QED
  BY <1>1, <1>2, <1>3 DEF LockInv

(* Every step keeps the locking invariant: the acting thread by ThreadStep,  *)
(* the others because they are left alone.                                   *)
LEMMA LockStep ==
  ASSUME LockInv, [Next]_vars
  PROVE  LockInv'
<1>. TypeOK /\ Disjoint /\ \A t \in Threads : ThreadOK(t)
  BY DEF LockInv
<1>1. ASSUME NEW t \in Threads, Run(t)
      PROVE  LockInv'
  <2>1. ThreadOK(t)'
    BY <1>1, ThreadStep
  <2>2. Registered' = Registered
    BY <1>1, OthersKept DEF Registered
  <2>3. \A u \in Threads \ {t} : ThreadOK(u)'
    BY <1>1, <2>2, OthersKept, ThreadFrame
  <2>. QED
    BY <1>1, <2>1, <2>3, TypeStep, DisjointStep DEF LockInv
<1>2. ASSUME NEW s \in Stacks, Desk(s) \/ CancelSent(s) \/ CancelSettled(s) \/ Age
      PROVE  LockInv'
  <2>1. \A u \in Threads : ThreadOK(u)'
    BY <1>2, DeskKept, ThreadFrame
  <2>2. Disjoint'
    BY <1>2, DeskKept DEF Disjoint
  <2>. QED
    BY <1>2, <2>1, <2>2, DeskTypeStep DEF LockInv
<1>3. CASE UNCHANGED vars
  <2>1. TypeOK'
    BY <1>3 DEF vars, TypeOK
  <2>2. \A u \in Threads : ThreadOK(u)'
    BY <1>3, ThreadFrame DEF vars, Registered
  <2>3. Disjoint'
    BY <1>3 DEF vars, Disjoint
  <2>. QED
    BY <2>1, <2>2, <2>3 DEF LockInv
<1>4. 1 \in Stacks
  BY DEF Stacks
<1>. QED
  BY <1>1, <1>2, <1>3, <1>4 DEF Next

(* The locking invariant holds always.                                       *)
LEMMA LockInvariant == Spec => []LockInv
BY LockInit, LockStep, PTL DEF Spec

(* Every reachable state has the declared types: no count goes below zero,    *)
(* whatever the threads and the desk do to it.                               *)
THEOREM TypeCorrect == Spec => []TypeOK
<1>1. LockInv => TypeOK
  BY DEF LockInv
<1>. QED
  BY <1>1, LockInvariant, PTL

(* While an order is on the wire nobody else works on the product's book,     *)
(* for any number of stacks, movers and timers and any order of removals.    *)
THEOREM PlacementExclusive == Spec => []PlaceExclusive
<1>1. LockInv => PlaceExclusive
  <2>. SUFFICES ASSUME LockInv, NEW t \in Threads, NEW u \in Threads, t # u,
                       pc[t] = "wire", me[t] \in Registered, Working(u)
                PROVE  FALSE
    BY DEF PlaceExclusive
  <2>1. Registered \subseteq held[t]
    BY DEF LockInv, ThreadOK, CoverOK, Kept
  <2>2. Registered \subseteq held[u]
    BY DEF LockInv, ThreadOK, CoverOK, Kept, Working, LockPhases
  <2>. QED
    BY <2>1, <2>2 DEF LockInv, Disjoint
<1>. QED
  BY <1>1, LockInvariant, PTL
-----------------------------------------------------------------------------
(* A claim comes with a scope; the scope keeps it until it lets it go.       *)
LEMMA ScopeStep ==
  ASSUME NEW t \in Threads, TypeOK, ThreadOK(t), Run(t), NEW o \in Stacks, lease' = o
  PROVE  InScope(t, o)' \/ (lease = o /\ ~InScope(t, o))
<1>1. CASE \E kind \in JobKinds, s \in Stacks : Start(t, kind, s)
  BY <1>1 DEF Start, StartLabel, Goto, InScope, TypeOK, ThreadOK, JobOK
<1>2. CASE TakeOwn(t)
  BY <1>2 DEF TakeOwn, Collect, Goto, InScope, TypeOK, ThreadOK, JobOK
<1>3. CASE Scrub(t)
  BY <1>3 DEF Scrub, Collect, Goto, InScope, TypeOK, ThreadOK, JobOK
<1>4. CASE Converge(t)
  BY <1>4 DEF Converge, Goto, InScope, TypeOK, ThreadOK, JobOK
<1>5. CASE Proceed(t)
  BY <1>5 DEF Proceed, InScope, TypeOK, ThreadOK, JobOK
<1>6. CASE LockNext(t)
  BY <1>6 DEF LockNext, InScope, TypeOK, ThreadOK, JobOK
<1>7. CASE Worked(t)
  BY <1>7 DEF Worked, AllHeld, Base, Resume, Goto, InScope, TypeOK, ThreadOK, JobOK
<1>8. CASE Ready(t)
  BY <1>8 DEF Ready, AllHeld, Goto, InScope, TypeOK, ThreadOK, JobOK
<1>9. CASE Acquire(t)
  BY <1>9 DEF Acquire, StaleClear, Collect, Goto, InScope, TypeOK, ThreadOK, JobOK
<1>10. CASE Denied(t)
  BY <1>10 DEF Denied, StaleClear, Expire, Goto, InScope, TypeOK, ThreadOK, JobOK, None, Stacks
<1>11. CASE Pin(t)
  BY <1>11 DEF Pin, Resume, Goto, InScope, TypeOK, ThreadOK, JobOK
<1>12. CASE Claim(t)
  BY <1>12 DEF Claim, Collect, Goto, InScope, TypeOK, ThreadOK, JobOK
<1>13. CASE ClaimDenied(t)
  BY <1>13 DEF ClaimDenied, Resume, Collect, Goto, InScope, TypeOK, ThreadOK, JobOK
<1>14. CASE GiveBack(t)
  BY <1>14 DEF GiveBack, ReleaseByName, Resume, Goto, InScope, TypeOK, ThreadOK, JobOK, None, Stacks
<1>15. CASE Release(t)
  BY <1>15 DEF Release, ReleaseByName, Goto, InScope, TypeOK, ThreadOK, JobOK, None, Stacks
<1>16. CASE Drop(t)
  BY <1>16 DEF Drop, Goto, InScope, TypeOK, ThreadOK, JobOK
<1>17. CASE Begin(t)
  BY <1>17 DEF Begin, Add, Goto, InScope, TypeOK, ThreadOK, JobOK
<1>18. CASE Submit(t)
  BY <1>18 DEF Submit, Add, Goto, InScope, TypeOK, ThreadOK, JobOK
<1>19. CASE Refused(t)
  BY <1>19 DEF Refused, TakeOne, InScope, TypeOK, ThreadOK, JobOK
<1>20. CASE Answered(t)
  BY <1>20 DEF Answered, TakeOne, Goto, InScope, TypeOK, ThreadOK, JobOK
<1>21. CASE Placed(t)
  BY <1>21 DEF Placed, Goto, InScope, TypeOK, ThreadOK, JobOK
<1>. QED
  BY <1>1, <1>2, <1>3, <1>4, <1>5, <1>6, <1>7, <1>8, <1>9, <1>10, <1>11, <1>12, <1>13, <1>14, <1>15, <1>16, <1>17, <1>18, <1>19, <1>20, <1>21 DEF Run

(* Every step that leaves the lease owned leaves a scope to release it.      *)
LEMMA NoLeakStep ==
  ASSUME LockInv, NoLeakedLease, [Next]_vars
  PROVE  NoLeakedLease'
<1>. TypeOK /\ TypeOK' /\ \A t \in Threads : ThreadOK(t)
  BY LockStep DEF LockInv
<1>. SUFFICES ASSUME NEW o \in Stacks, lease' = o
              PROVE  \E t \in Threads : InScope(t, o)'
  BY DEF NoLeakedLease, TypeOK
<1>0. ASSUME lease = o
      PROVE  \E t \in Threads : InScope(t, o)
  BY <1>0 DEF NoLeakedLease, None, Stacks
<1>1. ASSUME NEW t \in Threads, Run(t)
      PROVE  \E u \in Threads : InScope(u, o)'
  <2>1. CASE InScope(t, o)'
    BY <2>1
  <2>2. CASE lease = o /\ ~InScope(t, o)
    <3>1. PICK u \in Threads : InScope(u, o)
      BY <1>0, <2>2
    <3>2. u # t
      BY <2>2, <3>1
    <3>3. InScope(u, o)'
      BY <1>1, <3>1, <3>2, OthersKept DEF InScope
    <3>. QED
      BY <3>3
  <2>. QED
    BY <1>1, <2>1, <2>2, ScopeStep
<1>2. ASSUME NEW s \in Stacks, Desk(s) \/ CancelSent(s) \/ CancelSettled(s) \/ Age
      PROVE  \E u \in Threads : InScope(u, o)'
  <2>1. lease = o
    BY <1>2 DEF Desk, Teardown, LeaseSeenReleased, ForceRelease, ReleaseByName, Unregister,
                CancelSent, CancelSettled, Age, None, Stacks
  <2>2. PICK u \in Threads : InScope(u, o)
    BY <1>0, <2>1
  <2>3. InScope(u, o)'
    BY <1>2, <2>2, DeskKept DEF InScope
  <2>. QED
    BY <2>3
<1>3. CASE UNCHANGED vars
  <2>1. PICK u \in Threads : InScope(u, o)
    BY <1>0, <1>3 DEF vars
  <2>2. InScope(u, o)'
    BY <1>3, <2>1 DEF vars, InScope
  <2>. QED
    BY <2>2
<1>4. 1 \in Stacks
  BY DEF Stacks
<1>. QED
  BY <1>1, <1>2, <1>3, <1>4 DEF Next

(* The lease's owner always has a thread that is going to release it, for any *)
(* number of threads and stacks.                                             *)
THEOREM LeaseNotLeaked == Spec => []NoLeakedLease
<1>1. Init => NoLeakedLease
  BY DEF Init, NoLeakedLease
<1>. QED
  BY <1>1, LockInvariant, NoLeakStep, PTL DEF Spec
-----------------------------------------------------------------------------
(* The thread has orders of a placement to submit or to hear of.             *)
Places(t) == pc[t] \in {"place", "wire"}

(* What the stack a thread places for may count as pending: a re-quote has    *)
(* reserved its accepts together, a cycle counts the order on the wire; after *)
(* the desk has stopped the stack there is nothing to give back.             *)
CountOK(t) ==
  /\ job[t] = "requote" => pending[me[t]] <= legs[t]
  /\ job[t] = "cycle" => pending[me[t]] <= (IF pc[t] = "wire" THEN 1 ELSE 0)
  /\ pc[t] = "wire" /\ me[t] \notin running => pending[me[t]] = 0

(* The inductive invariant behind PendingAccounted: only a thread that places *)
(* for a registered stack has it count, and no more than that thread's own.  *)
PendingInv ==
  /\ \A s \in Registered : pending[s] > 0 => \E t \in Threads : me[t] = s /\ Places(t)
  /\ \A t \in Threads : Places(t) /\ me[t] \in Registered => CountOK(t)

(* One thread at a time is ready to place, or places, for a registered stack:*)
(* it holds the mutex of every stack.                                        *)
LEMMA OnePlacer ==
  ASSUME LockInv, NEW t \in Threads, NEW u \in Threads, t # u, Registered # {},
         Places(t) \/ pc[t] = "ready", Places(u) \/ pc[u] = "ready"
  PROVE  FALSE
<1>1. Registered \subseteq held[t] /\ Registered \subseteq held[u]
  BY DEF LockInv, ThreadOK, CoverOK, Kept, Places
<1>. QED
  BY <1>1 DEF LockInv, Disjoint

(* A step after which no count is higher and no thread has begun, gone on     *)
(* with or ended a placement keeps the counts accounted for.                 *)
LEMMA CountsKept ==
  ASSUME TypeOK, TypeOK', PendingInv, Registered' \subseteq Registered,
         \A s \in Stacks : pending'[s] <= pending[s],
         \A s \in running \ running' : pending'[s] = 0,
         \A t \in Threads : (Places(t) \/ Places(t)') =>
            pc'[t] = pc[t] /\ me'[t] = me[t] /\ job'[t] = job[t] /\ legs'[t] = legs[t]
  PROVE  PendingInv'
<1>1. ASSUME NEW s \in Registered', pending'[s] > 0
      PROVE  \E t \in Threads : me'[t] = s /\ Places(t)'
  <2>1. pending[s] > 0 /\ s \in Registered
    BY <1>1 DEF Registered, TypeOK
  <2>2. PICK t \in Threads : me[t] = s /\ Places(t)
    BY <2>1 DEF PendingInv
  <2>. QED
    BY <2>2 DEF Places
<1>2. ASSUME NEW t \in Threads, Places(t)', me'[t] \in Registered'
      PROVE  CountOK(t)'
  <2>1. Places(t) /\ me[t] \in Registered /\ me'[t] = me[t] /\ pc'[t] = pc[t]
    BY <1>2 DEF Places
  <2>2. CountOK(t)
    BY <2>1 DEF PendingInv
  <2>3. pending'[me[t]] \in Nat /\ pending[me[t]] \in Nat /\ legs[t] \in Nat /\ me[t] \in Stacks
    BY DEF TypeOK
  <2>4. pending'[me[t]] <= pending[me[t]]
    BY <2>3
  <2>. QED
    BY <1>2, <2>1, <2>2, <2>3, <2>4 DEF CountOK
<1>. QED
  BY <1>1, <1>2 DEF PendingInv

(* Every step of a thread keeps the counts accounted for.                    *)
LEMMA PendingRun ==
  ASSUME LockInv, LockInv', PendingInv, NEW t \in Threads, Run(t)
  PROVE  PendingInv'
<1>. TypeOK /\ TypeOK' /\ Disjoint /\ \A u \in Threads : ThreadOK(u)
  BY DEF LockInv
<1>. Registered' = Registered
  BY OthersKept DEF Registered
<1>a. \A u \in Threads \ {t} : /\ pc'[u] = pc[u] /\ job'[u] = job[u] /\ me'[u] = me[u]
                               /\ legs'[u] = legs[u]
  BY OthersKept
<1>. \A s \in Stacks : pending[s] \in Nat /\ pending'[s] \in Nat
  BY DEF TypeOK
<1>1. ASSUME running' = running, \A s \in Stacks : pending'[s] <= pending[s],
             ~Places(t), ~Places(t)'
      PROVE  PendingInv'
  BY <1>1, <1>a, CountsKept
<1>2. CASE \E kind \in JobKinds, s \in Stacks : Start(t, kind, s)
  BY <1>1, <1>2 DEF Start, StartLabel, Goto, Places, TypeOK, JobKinds
<1>3. CASE TakeOwn(t) \/ Scrub(t) \/ Converge(t) \/ Proceed(t)
  BY <1>1, <1>3 DEF TakeOwn, Scrub, Converge, Proceed, Goto, Places, TypeOK
<1>4. CASE LockNext(t) \/ Worked(t) \/ Ready(t)
  BY <1>1, <1>4 DEF LockNext, Worked, Ready, AllHeld, Resume, LockPhases, Goto, Places, TypeOK
<1>5. CASE Acquire(t) \/ Denied(t)
  <2>1. running' = running /\ ~Places(t) /\ ~Places(t)'
    BY <1>5 DEF Acquire, Denied, Goto, Places, TypeOK
  <2>2. \A s \in Stacks : pending'[s] <= pending[s]
    BY <1>5 DEF Acquire, Denied, StaleClear, TypeOK
  <2>. QED
    BY <1>1, <2>1, <2>2
<1>6. CASE Pin(t) \/ Claim(t) \/ ClaimDenied(t) \/ Drop(t)
  BY <1>1, <1>6 DEF Pin, Claim, ClaimDenied, Drop, Resume, Goto, Places, TypeOK
<1>7. CASE GiveBack(t) \/ Release(t)
  <2>1. running' = running /\ ~Places(t) /\ ~Places(t)'
    BY <1>7 DEF GiveBack, Release, Resume, Goto, Places, TypeOK
  <2>2. \A s \in Stacks : pending'[s] <= pending[s]
    BY <1>7 DEF GiveBack, Release, ReleaseByName, TypeOK
  <2>. QED
    BY <1>1, <2>1, <2>2
<1>8. CASE Begin(t)
  <2>1. PICK k \in 0..MaxLegs :
          /\ legs' = [legs EXCEPT ![t] = k]
          /\ IF job[t] = "requote" THEN Add(me[t], k) ELSE UNCHANGED pending
    BY <1>8 DEF Begin
  <2>2. pc[t] = "ready" /\ pc'[t] = "place" /\ UNCHANGED <<running, job, me>>
    BY <1>8 DEF Begin, Goto, TypeOK
  <2>3. job[t] \in {"cycle", "requote"}
    BY <2>2 DEF ThreadOK, JobOK
  <2>4. \A s \in Registered : pending[s] = 0
    BY <2>2, OnePlacer DEF PendingInv, Places, Registered
  <2>5. \A u \in Threads \ {t} : ~(Places(u) /\ me[u] \in Registered)
    BY <2>2, OnePlacer
  <2>6. \A s \in Stacks \ {me[t]} : pending'[s] = pending[s]
    BY <2>1 DEF Add, TypeOK
  <2>7. me[t] \in Registered => CountOK(t)'
    BY <2>1, <2>2, <2>3, <2>4 DEF CountOK, Add, TypeOK
  <2>8. \A u \in Threads : Places(u)' /\ me'[u] \in Registered' => CountOK(u)'
    BY <1>a, <2>2, <2>5, <2>7 DEF Places
  <2>9. \A s \in Registered : pending'[s] > 0 => s = me'[t] /\ Places(t)'
    BY <2>2, <2>4, <2>6 DEF Places, Registered
  <2>. QED
    BY <2>8, <2>9 DEF PendingInv
<1>9. CASE Submit(t)
  <2>1. pc[t] = "place" /\ pc'[t] = "wire" /\ UNCHANGED <<running, job, me, legs>> /\ me[t] \in running
    BY <1>9 DEF Submit, Goto, TypeOK
  <2>2. job[t] \in {"cycle", "requote"} /\ legs[t] \in Nat /\ me[t] \in Stacks
    BY <2>1 DEF ThreadOK, JobOK, TypeOK
  <2>3. \A u \in Threads \ {t} : ~(Places(u) /\ me[u] \in Registered)
    BY <2>1, OnePlacer DEF Places
  <2>4. \A s \in Stacks \ {me[t]} : pending'[s] = pending[s]
    BY <1>9 DEF Submit, Add, TypeOK
  <2>5. pending'[me[t]] = IF job[t] = "cycle" THEN pending[me[t]] + 1 ELSE pending[me[t]]
    BY <1>9, <2>2 DEF Submit, Add, TypeOK
  <2>6. me[t] \in Registered => CountOK(t)'
    BY <2>1, <2>2, <2>5 DEF PendingInv, CountOK, Places
  <2>7. \A u \in Threads : Places(u)' /\ me'[u] \in Registered' => CountOK(u)'
    BY <1>a, <2>1, <2>3, <2>6 DEF Places
  <2>8. \A s \in Registered : pending'[s] > 0 => \E u \in Threads : me'[u] = s /\ Places(u)'
    BY <1>a, <2>1, <2>4 DEF Places, Registered, PendingInv
  <2>. QED
    BY <2>7, <2>8 DEF PendingInv
<1>10. CASE Refused(t) \/ Answered(t)
  <2>1. Places(t) /\ pc'[t] = "place" /\ UNCHANGED <<running, job, me>>
    BY <1>10 DEF Refused, Answered, Goto, Places, TypeOK
  <2>2. job[t] \in {"cycle", "requote"} /\ legs[t] \in Nat /\ me[t] \in Stacks
    BY <2>1 DEF ThreadOK, JobOK, TypeOK, Places
  <2>3. \A u \in Threads \ {t} : ~(Places(u) /\ me[u] \in Registered)
    BY <2>1, OnePlacer
  <2>4. \A s \in Stacks \ {me[t]} : pending'[s] = pending[s]
    BY <1>10 DEF Refused, Answered, TakeOne, TypeOK
  <2>5. legs[t] > 0 /\ legs'[t] = legs[t] - 1
    BY <1>10 DEF Refused, Answered, ThreadOK, TypeOK
  <2>6. \/ pending'[me[t]] = IF pending[me[t]] > 0 THEN pending[me[t]] - 1 ELSE 0
        \/ pending'[me[t]] = pending[me[t]] /\ job[t] # "requote" /\ pc[t] = "place"
        \/ pending'[me[t]] = pending[me[t]] /\ pc[t] = "wire" /\ me[t] \notin running
    BY <1>10, <2>2 DEF Refused, Answered, TakeOne, TypeOK
  <2>7. me[t] \in Registered => CountOK(t)'
    <3>. SUFFICES ASSUME me[t] \in Registered PROVE CountOK(t)'
      OBVIOUS
    <3>1. CountOK(t)
      BY <2>1 DEF PendingInv
    <3>. QED
      BY <2>1, <2>2, <2>5, <2>6, <3>1 DEF CountOK
  <2>8. \A u \in Threads : Places(u)' /\ me'[u] \in Registered' => CountOK(u)'
    BY <1>a, <2>1, <2>3, <2>7 DEF Places
  <2>9. \A s \in Registered : pending'[s] > 0 => \E u \in Threads : me'[u] = s /\ Places(u)'
    BY <1>a, <2>1, <2>4 DEF Places, Registered, PendingInv
  <2>. QED
    BY <2>8, <2>9 DEF PendingInv
<1>11. CASE Placed(t)
  <2>1. pc[t] = "place" /\ legs[t] = 0 /\ UNCHANGED <<pending, running, job, me>> /\ ~Places(t)'
    BY <1>11 DEF Placed, Goto, Places, TypeOK
  <2>2. job[t] \in {"cycle", "requote"} /\ me[t] \in Stacks
    BY <2>1 DEF ThreadOK, JobOK, TypeOK
  <2>3. me[t] \in Registered => pending[me[t]] = 0
    BY <2>1, <2>2 DEF PendingInv, CountOK, Places
  <2>4. \A u \in Threads \ {t} : Places(u)' /\ me'[u] \in Registered' => CountOK(u)'
    BY <1>a, <2>1 DEF Places, PendingInv, CountOK
  <2>5. \A s \in Registered : pending'[s] > 0 => \E u \in Threads : me'[u] = s /\ Places(u)'
    BY <1>a, <2>1, <2>3 DEF Places, PendingInv
  <2>. QED
    BY <2>1, <2>4, <2>5 DEF PendingInv
<1>. QED
  BY <1>2, <1>3, <1>4, <1>5, <1>6, <1>7, <1>8, <1>9, <1>10, <1>11 DEF Run

(* The desk and the environment only take counts away; a stack that the desk  *)
(* stops has its count zeroed in the same step.                              *)
LEMMA PendingDesk ==
  ASSUME LockInv, LockInv', PendingInv, NEW s \in Stacks,
         Desk(s) \/ CancelSent(s) \/ CancelSettled(s) \/ Age
  PROVE  PendingInv'
<1>. TypeOK /\ TypeOK'
  BY DEF LockInv
<1>1. \A u \in Stacks : pending'[u] <= pending[u]
  BY DEF Desk, Teardown, LeaseSeenReleased, ForceRelease, ReleaseByName, Unregister,
         CancelSent, CancelSettled, Age, TypeOK
<1>2. \A u \in running \ running' : pending'[u] = 0
  BY DEF Desk, Teardown, LeaseSeenReleased, ForceRelease, ReleaseByName, Unregister,
         CancelSent, CancelSettled, Age, TypeOK
<1>. QED
  BY <1>1, <1>2, DeskKept, CountsKept DEF Places

(* Pending accepts are accounted for, for any number of stacks, threads and   *)
(* legs: only the thread that places for a registered stack has it count, and *)
(* never more than that thread will still submit or hear of.                 *)
THEOREM PendingIsAccounted == Spec => []PendingAccounted
<1>1. Init => PendingInv
  BY DEF Init, PendingInv, Places, Registered
<1>2. LockInv /\ LockInv' /\ PendingInv /\ [Next]_vars => PendingInv'
  <2>. SUFFICES ASSUME LockInv, LockInv', PendingInv, [Next]_vars
                PROVE  PendingInv'
    OBVIOUS
  <2>1. CASE UNCHANGED vars
    BY <2>1 DEF vars, PendingInv, Places, CountOK, Registered
  <2>2. 1 \in Stacks
    BY DEF Stacks
  <2>. QED
    BY <2>1, <2>2, PendingRun, PendingDesk DEF Next
<1>3. LockInv /\ PendingInv => PendingAccounted
  <2>. SUFFICES ASSUME LockInv, PendingInv, NEW s \in Registered, pending[s] > 0
                PROVE  \E t \in Threads : me[t] = s /\ Places(t) /\ pending[s] <= legs[t]
    BY DEF PendingAccounted, Places
  <2>1. PICK t \in Threads : me[t] = s /\ Places(t)
    BY DEF PendingInv
  <2>2. CountOK(t)
    BY <2>1 DEF PendingInv
  <2>3. job[t] \in {"cycle", "requote"} /\ legs[t] \in Nat /\ (pc[t] = "wire" => legs[t] > 0)
    BY <2>1 DEF LockInv, TypeOK, ThreadOK, JobOK, Places
  <2>4. pending[s] \in Nat
    BY DEF LockInv, TypeOK, Registered
  <2>. QED
    BY <2>1, <2>2, <2>3, <2>4 DEF CountOK
<1>. QED
  BY <1>1, <1>2, <1>3, LockInvariant, PTL DEF Spec

-----------------------------------------------------------------------------
(* CapConverge.                                                              *)

HIDE ProductLeaseAssumption
HIDE DEF gate, stacks, locking, thread

(* The order that rests from before is a bid or an offer.                    *)
ConvConstants == Stray.side \in LegSides

QuotePrices == {QuotePrice[s] : s \in DeskStacks}
Orders      == {Stray} \cup [stack : DeskStacks, side : LegSides, price : QuotePrices]

(* The types the proof needs.                                                *)
ConvTypes ==
  /\ placed \in Seq(Orders) /\ rows \subseteq Ids /\ flying \subseteq Ids
  /\ top \in [DeskStacks -> [LegSides -> Nat]]
  /\ desired \in [DeskStacks -> [LegSides -> QuotePrices \cup {0}]]

(* A stack's quote is an order of that side, and at the price the stack      *)
(* wants there.                                                              *)
QuoteOf(s, side) ==
  LET i == top[s][side]
  IN i # 0 => i \in Ids /\ placed[i].side = side /\ placed[i].price = desired[s][side]
TopsOwn == \A s \in DeskStacks, side \in LegSides : QuoteOf(s, side)

(* A clean-up has all its fields, and its rows are orders.                   *)
CleanUpWhole ==
  conv.pc \in {"lease", "choose", "cancel"} =>
    /\ conv = [pc |-> conv.pc, why |-> conv.why, for |-> conv.for, at |-> conv.at,
               list |-> conv.list, left |-> conv.left, excused |-> conv.excused]
    /\ conv.list \subseteq Ids /\ conv.left \subseteq Ids

(* A side whose quotes a clean-up judged by position n may keep.             *)
Keeps(n, side) == CapReached(n) => side = ReduceSide(n)

(* What is left to cancel holds no quote to keep, or the code excuses it.    *)
QuotesSpared ==
  conv.pc = "cancel" =>
    \A i \in conv.left, s \in DeskStacks :
      Keeps(conv.at, placed[i].side) /\ top[s][placed[i].side] = i => i \in conv.excused

ConvInv == ConvTypes /\ TopsOwn /\ CleanUpWhole /\ QuotesSpared

(* A stack in its turn claims the row of its quote, when it can be told from *)
(* the other rows and is still there to be claimed.                          *)
LEMMA QuoteIsClaimed ==
  ASSUME ConvTypes, NEW s \in DeskStacks, NEW side \in LegSides, QuoteOf(s, side),
         NEW list, NEW taken, NEW i \in list \ taken, i # 0, i = top[s][side],
         i \in known \/ ~Doubled(i, list),
         NEW c \in Claims(s, side, list, taken)
  PROVE  i \in c
<1>. DEFINE free == OnSide(list, side) \ taken
            near == {j \in free : placed[j].price = DesiredPrice(s, side)}
<1>1. /\ placed[i].side = side /\ placed[i].price = desired[s][side]
      /\ OidOf(s, side) = {i} \cap known
  BY DEF QuoteOf, OidOf
<1>2. i \in free
  BY <1>1 DEF OnSide
<1>3. CASE i \in known
  <2>1. OidOf(s, side) = {i} /\ OidOf(s, side) \cap free # {}
    BY <1>1, <1>2, <1>3
  <2>. QED BY <2>1 DEF Claims
<1>4. CASE i \notin known
  <2>1. OidOf(s, side) \cap free = {}
    BY <1>1, <1>4
  <2>2. i \in near
    BY <1>1, <1>2 DEF DesiredPrice
  <2>3. \A j \in near : j = i
    BY <1>1, <1>4 DEF Doubled, OnSide, DesiredPrice
  <2>4. Claims(s, side, list, taken) = {{j} : j \in near}
    BY <2>1, <2>2 DEF Claims
  <2>. QED BY <2>3, <2>4
<1>. QED BY <1>3, <1>4

(* So every quote that can be told from the other rows is protected, by its  *)
(* own stack or by one that claims before it.                                *)
LEMMA QuoteIsProtected ==
  ASSUME ConvTypes, NEW s \in DeskStacks, NEW side \in LegSides, QuoteOf(s, side),
         NEW list, NEW i \in list, i # 0, i = top[s][side], i \in known \/ ~Doubled(i, list),
         NEW rowsKept \in Protected(side, list)
  PROVE  i \in rowsKept
<1>. DEFINE turns == 1 .. Len(DeskOrder)
            before(c, n) == UNION {c[m] : m \in 1 .. n - 1}
<1>1. PICK c \in [turns -> {{}} \cup {{j} : j \in list}] :
         /\ \A n \in turns : c[n] \in Claims(DeskOrder[n], side, list, before(c, n))
         /\ rowsKept = UNION {c[n] : n \in turns}
  BY DEF Protected
<1>2. PICK n \in turns : DeskOrder[n] = s
  BY DEF DeskStacks, ToSet
<1>3. CASE i \in before(c, n)
  <2>1. PICK m \in 1 .. n - 1 : i \in c[m]
    BY <1>3
  <2>2. m \in turns
    BY <1>2, <2>1
  <2>. QED BY <1>1, <2>1, <2>2
<1>4. CASE i \notin before(c, n)
  <2>1. c[n] \in Claims(s, side, list, before(c, n))
    BY <1>1, <1>2
  <2>. HIDE DEF before
  <2>2. i \in c[n]
    BY <1>4, <2>1, QuoteIsClaimed
  <2>. QED BY <1>1, <1>2, <2>2
<1>. QED BY <1>3, <1>4

(* At the start no stack has a quote.                                        *)
LEMMA ConvStart ==
  ASSUME ConvConstants, ConvInit
  PROVE  ConvInv
BY DEF ConvInit, ConvInv, ConvTypes, TopsOwn, QuoteOf, CleanUpWhole, QuotesSpared, NoPass, Orders, Ids

(* The quotes of a step that only drops some, in no clean-up's last phase    *)
(* or in one that goes on with fewer rows.                                   *)
LEMMA QuotesDropped ==
  ASSUME ConvConstants, ConvInv, UNCHANGED placed, ConvTypes', CleanUpWhole',
         \A s \in DeskStacks, side \in LegSides :
            top'[s][side] = 0 \/ (top'[s][side] = top[s][side] /\ desired'[s][side] = desired[s][side]),
         conv'.pc = "cancel" => /\ conv.pc = "cancel" /\ conv'.left \subseteq conv.left
                                /\ conv'.at = conv.at /\ conv'.excused = conv.excused
  PROVE  ConvInv'
<1>1. TopsOwn'
  BY DEF ConvInv, TopsOwn, QuoteOf, Ids
<1>2. QuotesSpared'
  <2>. SUFFICES ASSUME conv'.pc = "cancel", NEW i \in conv'.left, NEW s \in DeskStacks,
                       Keeps(conv.at, placed[i].side), top'[s][placed[i].side] = i
                PROVE  i \in conv.excused
    BY DEF QuotesSpared, Keeps, CapReached, Abs, ReduceSide, GrowSide, Away
  <2>1. i \in Ids /\ i # 0 /\ placed[i].side \in LegSides
    <3>1. i \in 1 .. Len(placed)
      BY DEF ConvInv, CleanUpWhole, Ids
    <3>2. placed[i].side \in LegSides
      BY <3>1 DEF ConvInv, ConvTypes, Orders, ConvConstants
    <3>. QED BY <3>1, <3>2 DEF Ids
  <2>2. top[s][placed[i].side] = i
    BY <2>1
  <2>. QED BY <2>2 DEF ConvInv, QuotesSpared
<1>. QED BY <1>1, <1>2 DEF ConvInv

(* The orders sent: a new one gets the next number and is the stack's quote. *)
LEMMA SentStep ==
  ASSUME ConvConstants, ConvInv, NEW s \in DeskStacks, NEW side \in LegSides, Sent(s, side),
         conv'.pc = "idle", UNCHANGED conv \/ conv' = NoPass
  PROVE  ConvInv'
<1>. DEFINE new == [stack |-> s, side |-> side, price |-> QuotePrice[s]]
            n   == Len(placed) + 1
<1>1. new \in Orders /\ new.side = side /\ new.price = QuotePrice[s]
  BY DEF Orders, QuotePrices
<1>2. /\ placed' = Append(placed, new) /\ flying' = flying \cup {n} /\ UNCHANGED rows
      /\ top' = [top EXCEPT ![s] = [top[s] EXCEPT ![side] = n]]
      /\ desired' = [desired EXCEPT ![s] = [desired[s] EXCEPT ![side] = QuotePrice[s]]]
  BY DEF Sent
<1>3. placed \in Seq(Orders) /\ Len(placed) \in Nat
  BY DEF ConvInv, ConvTypes
<1>. HIDE DEF new
<1>4. /\ placed' \in Seq(Orders) /\ Len(placed') = n /\ placed'[n] = new
      /\ \A i \in Ids : placed'[i] = placed[i] /\ i \in Ids' /\ i # n
      /\ n \in Ids' /\ n # 0
  BY <1>1, <1>2, <1>3 DEF Ids
<1>. HIDE DEF n
<1>5. /\ n \in Nat /\ QuotePrice[s] \in QuotePrices
      /\ top \in [DeskStacks -> [LegSides -> Nat]]
      /\ desired \in [DeskStacks -> [LegSides -> QuotePrices \cup {0}]]
  BY <1>3 DEF n, QuotePrices, ConvInv, ConvTypes
<1>6. /\ [top[s] EXCEPT ![side] = n] \in [LegSides -> Nat]
      /\ [desired[s] EXCEPT ![side] = QuotePrice[s]] \in [LegSides -> QuotePrices \cup {0}]
  BY <1>5
<1>7. /\ top' \in [DeskStacks -> [LegSides -> Nat]]
      /\ desired' \in [DeskStacks -> [LegSides -> QuotePrices \cup {0}]]
      /\ top'[s][side] = n /\ desired'[s][side] = QuotePrice[s]
      /\ \A r \in DeskStacks, d \in LegSides : r # s \/ d # side =>
            top'[r][d] = top[r][d] /\ desired'[r][d] = desired[r][d]
  BY <1>2, <1>5, <1>6
<1>8. ConvTypes'
  BY <1>2, <1>4, <1>7 DEF ConvInv, ConvTypes
<1>9. TopsOwn'
  <2>. SUFFICES ASSUME NEW r \in DeskStacks, NEW d \in LegSides
                PROVE  QuoteOf(r, d)'
    BY DEF TopsOwn
  <2>1. CASE r = s /\ d = side
    BY <1>1, <1>4, <1>7, <2>1 DEF QuoteOf
  <2>2. CASE r # s \/ d # side
    <3>1. QuoteOf(r, d)
      BY DEF ConvInv, TopsOwn
    <3>. QED BY <1>4, <1>7, <2>2, <3>1 DEF QuoteOf
  <2>. QED BY <2>1, <2>2
<1>10. CleanUpWhole' /\ QuotesSpared'
  BY DEF CleanUpWhole, QuotesSpared
<1>. QED BY <1>8, <1>9, <1>10 DEF ConvInv

(* The legs a clean-up cancels as quotes.                                    *)
LEMMA TopsCancelled ==
  ASSUME ConvInv, NEW side \in LegSides, CancelTops(side), UNCHANGED <<placed, flying>>
  PROVE  /\ ConvTypes'
         /\ \A s \in DeskStacks, d \in LegSides :
               top'[s][d] = 0 \/ (top'[s][d] = top[s][d] /\ desired'[s][d] = desired[s][d])
<1>1. /\ top' = [s \in DeskStacks |-> [top[s] EXCEPT ![side] = 0]]
      /\ desired' = [s \in DeskStacks |-> [desired[s] EXCEPT ![side] = 0]]
      /\ rows' \subseteq rows
  BY DEF CancelTops
<1>2. \A s \in DeskStacks : /\ top'[s] = [top[s] EXCEPT ![side] = 0]
                            /\ desired'[s] = [desired[s] EXCEPT ![side] = 0]
                            /\ top[s] \in [LegSides -> Nat]
                            /\ desired[s] \in [LegSides -> QuotePrices \cup {0}]
  BY <1>1 DEF ConvInv, ConvTypes
<1>3. \A s \in DeskStacks : /\ top'[s] \in [LegSides -> Nat]
                            /\ desired'[s] \in [LegSides -> QuotePrices \cup {0}]
  <2>. TAKE s \in DeskStacks
  <2>1. [top[s] EXCEPT ![side] = 0] \in [LegSides -> Nat]
    BY <1>2
  <2>2. [desired[s] EXCEPT ![side] = 0] \in [LegSides -> QuotePrices \cup {0}]
    BY <1>2
  <2>. QED BY <1>2, <2>1, <2>2
<1>4. /\ top' \in [DeskStacks -> [LegSides -> Nat]]
      /\ desired' \in [DeskStacks -> [LegSides -> QuotePrices \cup {0}]]
  BY <1>1, <1>3
<1>5. ConvTypes'
  BY <1>1, <1>4 DEF ConvInv, ConvTypes, Ids
<1>. QED BY <1>2, <1>5, ZenonT(30)

(* The sides a position grows and shrinks on.                                *)
LEMMA SidesOfPosition ==
  ASSUME NEW n
  PROVE  GrowSide(n) \in LegSides /\ ReduceSide(n) \in LegSides
BY DEF GrowSide, ReduceSide, Away, LegSides

(* The venue's steps, the accepts and the looks at the position.             *)
LEMMA OutsideConv ==
  ASSUME ConvConstants, ConvInv,
         \/ \E i \in Ids : Arrive(i) \/ Accepted(i) \/ Filled(i)
         \/ SyncAll \/ Periodic \/ LookAgain \/ NotPlaced
         \/ \E s \in DeskStacks : RefreshNet(s) \/ AfterReplace(s) \/ Excess(s)
  PROVE  ConvInv'
<1>1. UNCHANGED <<placed, top, desired>>
  BY DEF Arrive, Accepted, Filled, SyncAll, Periodic, LookAgain, NotPlaced, RefreshNet, AfterReplace, Excess
<1>2. rows' \subseteq Ids /\ flying' \subseteq Ids
  BY DEF Arrive, Accepted, Filled, SyncAll, Periodic, LookAgain, NotPlaced, RefreshNet, AfterReplace, Excess,
     ConvInv, ConvTypes
<1>3. ConvTypes'
  BY <1>1, <1>2 DEF ConvInv, ConvTypes, Ids
<1>4. \/ UNCHANGED conv \/ conv'.pc \in {"idle", "clean"}
      \/ \E why, s, n : conv' = CleanUp(why, s, n)
  BY DEF Arrive, Accepted, Filled, SyncAll, Periodic, LookAgain, NotPlaced, RefreshNet, AfterReplace, Excess,
     EnforceAfterSync, NoPass
<1>5. CleanUpWhole'
  <2>1. CASE UNCHANGED conv
    BY <1>1, <2>1 DEF ConvInv, CleanUpWhole, Ids
  <2>2. CASE conv'.pc \in {"idle", "clean"}
    BY <2>2 DEF CleanUpWhole
  <2>3. CASE \E why, s, n : conv' = CleanUp(why, s, n)
    BY <2>3 DEF CleanUpWhole, CleanUp
  <2>. QED BY <1>4, <2>1, <2>2, <2>3
<1>6. conv'.pc = "cancel" => UNCHANGED conv
  BY <1>4 DEF CleanUp
<1>. QED BY <1>1, <1>3, <1>5, <1>6, QuotesDropped

(* A stack's own steps.                                                      *)
LEMMA StackConv ==
  ASSUME ConvConstants, ConvInv, NEW s \in DeskStacks,
         \/ \E side \in LegSides : PlaceBelowCap(s, side)
         \/ PlaceAtCap(s) \/ Reconcile(s) \/ EnsureClean(s)
  PROVE  ConvInv'
<1>1. CASE \E side \in LegSides : PlaceBelowCap(s, side)
  BY <1>1, SentStep DEF PlaceBelowCap, NoPass
<1>2. CASE PlaceAtCap(s)
  BY <1>2, SentStep, SidesOfPosition DEF PlaceAtCap, NoPass
<1>3. CASE Reconcile(s)
  <2>. DEFINE larger == IF Abs(cached') > Abs(local[s]) THEN cached' ELSE local[s]
              side   == GrowSide(larger)
  <2>1. side \in LegSides
    BY SidesOfPosition
  <2>2. /\ UNCHANGED <<placed, flying, conv>> /\ conv = NoPass /\ rows' \subseteq rows
        /\ \/ UNCHANGED <<top, desired>>
           \/ /\ top' = [top EXCEPT ![s] = [top[s] EXCEPT ![side] = 0]]
              /\ desired' = [desired EXCEPT ![s] = [desired[s] EXCEPT ![side] = 0]]
    BY <1>3 DEF Reconcile
  <2>. HIDE DEF side
  <2>3. CASE UNCHANGED <<top, desired>>
    <3>1. ConvTypes' /\ CleanUpWhole'
      BY <2>2, <2>3 DEF ConvInv, ConvTypes, CleanUpWhole, Ids
    <3>. QED BY <2>2, <2>3, <3>1, QuotesDropped
  <2>4. CASE /\ top' = [top EXCEPT ![s] = [top[s] EXCEPT ![side] = 0]]
             /\ desired' = [desired EXCEPT ![s] = [desired[s] EXCEPT ![side] = 0]]
    <3>1. /\ top \in [DeskStacks -> [LegSides -> Nat]]
          /\ desired \in [DeskStacks -> [LegSides -> QuotePrices \cup {0}]]
      BY DEF ConvInv, ConvTypes
    <3>2. /\ [top[s] EXCEPT ![side] = 0] \in [LegSides -> Nat]
          /\ [desired[s] EXCEPT ![side] = 0] \in [LegSides -> QuotePrices \cup {0}]
      BY <3>1
    <3>3. /\ top' \in [DeskStacks -> [LegSides -> Nat]]
          /\ desired' \in [DeskStacks -> [LegSides -> QuotePrices \cup {0}]]
      BY <2>4, <3>1, <3>2
    <3>4. \A r \in DeskStacks, d \in LegSides :
            top'[r][d] = 0 \/ (top'[r][d] = top[r][d] /\ desired'[r][d] = desired[r][d])
      BY <2>1, <2>4, <3>1
    <3>5. ConvTypes' /\ CleanUpWhole'
      BY <2>2, <3>3 DEF ConvInv, ConvTypes, CleanUpWhole, Ids
    <3>. QED BY <2>2, <3>4, <3>5, QuotesDropped
  <2>. QED BY <2>2, <2>3, <2>4
<1>4. CASE EnsureClean(s)
  <2>1. conv'.pc = "scrub" /\ UNCHANGED placed
    BY <1>4 DEF EnsureClean
  <2>2. /\ ConvTypes'
        /\ \A r \in DeskStacks, d \in LegSides :
              top'[r][d] = 0 \/ (top'[r][d] = top[r][d] /\ desired'[r][d] = desired[r][d])
    BY <1>4, SidesOfPosition, TopsCancelled DEF EnsureClean
  <2>3. CleanUpWhole'
    BY <2>1 DEF CleanUpWhole
  <2>. QED BY <2>1, <2>2, <2>3, QuotesDropped
<1>. QED BY <1>1, <1>2, <1>3, <1>4

(* A fill is processed.                                                      *)
LEMMA FillConv ==
  ASSUME ConvConstants, ConvInv, NEW i \in Ids, FillSeen(i)
  PROVE  ConvInv'
<1>. DEFINE s == placed[i].stack
            side == placed[i].side
            booked == s \in DeskStacks /\ i \in tracked[s]
<1>1. UNCHANGED <<placed, rows, flying>> /\ conv = NoPass
  BY DEF FillSeen
<1>2. side \in LegSides
  <2>1. placed[i] \in Orders
    BY DEF ConvInv, ConvTypes, Ids
  <2>. QED BY <2>1 DEF Orders, ConvConstants
<1>3. CASE UNCHANGED <<top, desired, conv>>
  <2>1. ConvTypes' /\ CleanUpWhole'
    BY <1>1, <1>3 DEF ConvInv, ConvTypes, CleanUpWhole, Ids
  <2>. QED BY <1>1, <1>3, <2>1, QuotesDropped
<1>4. CASE s \in DeskStacks /\ \E n : conv' = CleanUp("fill", "none", n)
           /\ \/ UNCHANGED <<top, desired>>
              \/ /\ top' = [top EXCEPT ![s] = [top[s] EXCEPT ![side] = 0]]
                 /\ desired' = [desired EXCEPT ![s] = [desired[s] EXCEPT ![side] = 0]]
  <2>. HIDE DEF s, side
  <2>1. /\ top \in [DeskStacks -> [LegSides -> Nat]]
        /\ desired \in [DeskStacks -> [LegSides -> QuotePrices \cup {0}]]
    BY DEF ConvInv, ConvTypes
  <2>2. /\ [top[s] EXCEPT ![side] = 0] \in [LegSides -> Nat]
        /\ [desired[s] EXCEPT ![side] = 0] \in [LegSides -> QuotePrices \cup {0}]
    BY <1>4, <2>1
  <2>3. /\ top' \in [DeskStacks -> [LegSides -> Nat]]
        /\ desired' \in [DeskStacks -> [LegSides -> QuotePrices \cup {0}]]
    BY <1>4, <2>1, <2>2
  <2>4. \A r \in DeskStacks, d \in LegSides :
          top'[r][d] = 0 \/ (top'[r][d] = top[r][d] /\ desired'[r][d] = desired[r][d])
    BY <1>2, <1>4, <2>1
  <2>5. ConvTypes'
    BY <1>1, <2>3 DEF ConvInv, ConvTypes, Ids
  <2>6. CleanUpWhole' /\ conv'.pc # "cancel"
    BY <1>4 DEF CleanUpWhole, CleanUp
  <2>. QED BY <1>1, <2>4, <2>5, <2>6, QuotesDropped
<1>. QED BY <1>3, <1>4 DEF FillSeen

(* The listing, and the choice of the rows to cancel.                        *)
LEMMA ChoiceConv ==
  ASSUME ConvConstants, ConvInv, Listed \/ Chosen
  PROVE  ConvInv'
<1>1. UNCHANGED <<placed, rows, flying, top, desired, known>>
  BY DEF Listed, Chosen
<1>2. ConvTypes' /\ TopsOwn'
  BY <1>1 DEF ConvInv, ConvTypes, TopsOwn, QuoteOf, Ids
<1>3. CASE Listed
  <2>1. PICK list \in Listings : conv' = [conv EXCEPT !.pc = "choose", !.list = list]
    BY <1>3 DEF Listed
  <2>2. list \subseteq Ids
    BY <2>1 DEF Listings, ConvInv, ConvTypes
  <2>3. conv.pc = "lease" /\ CleanUpWhole
    BY <1>3 DEF Listed, ConvInv
  <2>4. conv' = [pc |-> "choose", why |-> conv.why, for |-> conv.for, at |-> conv.at,
                 list |-> list, left |-> conv.left, excused |-> conv.excused]
    BY <2>1, <2>3 DEF CleanUpWhole
  <2>5. CleanUpWhole' /\ QuotesSpared'
    BY <1>1, <2>2, <2>3, <2>4 DEF CleanUpWhole, QuotesSpared, Ids
  <2>. QED BY <1>2, <2>5 DEF ConvInv
<1>4. CASE Chosen
  <2>. DEFINE keep(b, a) == IF CapReached(conv.at) THEN OnSide(b \cup a, ReduceSide(conv.at)) ELSE b \cup a
              excused == {i \in conv.list \ known : Doubled(i, conv.list)}
  <2>1. PICK b \in Protected("BUY", conv.list), a \in Protected("SELL", conv.list) :
          conv' = [conv EXCEPT !.pc = "cancel", !.list = {}, !.left = conv.list \ keep(b, a),
                               !.excused = excused]
    BY <1>4 DEF Chosen
  <2>2. conv.pc = "choose" /\ CleanUpWhole
    BY <1>4 DEF Chosen, ConvInv
  <2>3. conv' = [pc |-> "cancel", why |-> conv.why, for |-> conv.for, at |-> conv.at,
                 list |-> {}, left |-> conv.list \ keep(b, a), excused |-> excused]
    BY <2>1, <2>2 DEF CleanUpWhole
  <2>4. CleanUpWhole'
    BY <1>1, <2>2, <2>3 DEF CleanUpWhole, Ids
  <2>5. QuotesSpared'
    <3>. SUFFICES ASSUME NEW i \in conv.list \ keep(b, a), NEW s \in DeskStacks,
                         Keeps(conv.at, placed[i].side), top[s][placed[i].side] = i,
                         i \notin excused
                  PROVE  FALSE
      BY <1>1, <2>3 DEF QuotesSpared, Keeps, CapReached, Abs, ReduceSide, GrowSide, Away
    <3>. DEFINE side == placed[i].side
    <3>1. i \in 1 .. Len(placed) /\ i \in Ids
      BY <2>2 DEF CleanUpWhole, Ids
    <3>2. side \in LegSides
      <4>1. placed[i] \in Orders
        BY <3>1 DEF ConvInv, ConvTypes
      <4>. QED BY <4>1 DEF Orders, ConvConstants
    <3>3. i # 0 /\ QuoteOf(s, side) /\ ConvTypes
      BY <3>1, <3>2 DEF ConvInv, TopsOwn
    <3>4. i \in known \/ ~Doubled(i, conv.list)
      OBVIOUS
    <3>5. CASE side = "BUY"
      <4>1. i \in b
        BY <3>2, <3>3, <3>4, <3>5, QuoteIsProtected
      <4>. QED BY <4>1 DEF Keeps, OnSide
    <3>6. CASE side = "SELL"
      <4>1. i \in a
        BY <3>2, <3>3, <3>4, <3>6, QuoteIsProtected
      <4>. QED BY <4>1 DEF Keeps, OnSide
    <3>. QED BY <3>2, <3>5, <3>6 DEF LegSides
  <2>. QED BY <1>2, <2>4, <2>5 DEF ConvInv
<1>. QED BY <1>3, <1>4

(* The cancels of a clean-up, and its end.                                   *)
LEMMA CancelConv ==
  ASSUME ConvConstants, ConvInv, LeaseRefused \/ CancelRow \/ CancelGrowLegs
  PROVE  ConvInv'
<1>1. CASE LeaseRefused \/ CancelGrowLegs
  <2>1. UNCHANGED <<placed, flying>> /\ conv' = Ended(conv)
    BY <1>1 DEF LeaseRefused, CancelGrowLegs
  <2>2. conv'.pc \in {"sync", "scrub", "idle"}
    BY <2>1 DEF Ended, NoPass
  <2>3. CleanUpWhole' /\ conv'.pc # "cancel"
    BY <2>2 DEF CleanUpWhole
  <2>4. CASE CapReached(conv.at)
    <3>1. CancelTops(GrowSide(conv.at))
      BY <1>1, <2>4 DEF LeaseRefused, CancelGrowLegs
    <3>2. GrowSide(conv.at) \in LegSides
      BY SidesOfPosition
    <3>3. /\ ConvTypes'
          /\ \A s \in DeskStacks, d \in LegSides :
                top'[s][d] = 0 \/ (top'[s][d] = top[s][d] /\ desired'[s][d] = desired[s][d])
      BY <2>1, <3>1, <3>2, TopsCancelled
    <3>. QED BY <2>1, <2>3, <3>3, QuotesDropped
  <2>5. CASE ~CapReached(conv.at)
    <3>1. UNCHANGED <<rows, top, desired>>
      BY <1>1, <2>5 DEF LeaseRefused, CancelGrowLegs
    <3>2. ConvTypes'
      BY <2>1, <3>1 DEF ConvInv, ConvTypes, Ids
    <3>. QED BY <2>1, <2>3, <3>1, <3>2, QuotesDropped
  <2>. QED BY <2>4, <2>5
<1>2. CASE CancelRow
  <2>1. PICK i \in conv.left :
          /\ conv' = [conv EXCEPT !.left = @ \ {i}]
          /\ \/ rows' = rows \ {i} /\ Evict(i)
             \/ UNCHANGED <<rows, tracked, top, desired>>
    BY <1>2 DEF CancelRow
  <2>2. conv.pc = "cancel" /\ CleanUpWhole /\ UNCHANGED <<placed, flying>>
    BY <1>2 DEF CancelRow, ConvInv
  <2>3. conv' = [pc |-> "cancel", why |-> conv.why, for |-> conv.for, at |-> conv.at,
                 list |-> conv.list, left |-> conv.left \ {i}, excused |-> conv.excused]
    BY <2>1, <2>2 DEF CleanUpWhole
  <2>4. CleanUpWhole'
    BY <2>2, <2>3 DEF CleanUpWhole, Ids
  <2>5. /\ rows' \subseteq rows /\ top' \in [DeskStacks -> [LegSides -> Nat]]
        /\ desired' \in [DeskStacks -> [LegSides -> QuotePrices \cup {0}]]
        /\ \A s \in DeskStacks, d \in LegSides :
              top'[s][d] = 0 \/ (top'[s][d] = top[s][d] /\ desired'[s][d] = desired[s][d])
    <3>1. CASE UNCHANGED <<rows, tracked, top, desired>>
      BY <3>1 DEF ConvInv, ConvTypes
    <3>2. CASE rows' = rows \ {i} /\ Evict(i)
      <4>1. \A s \in DeskStacks, d \in LegSides :
              top[s][d] \in Nat /\ desired[s][d] \in QuotePrices \cup {0}
        BY DEF ConvInv, ConvTypes
      <4>2. /\ top' = [s \in DeskStacks |-> [d \in LegSides |->
                         IF top[s][d] \in tracked'[s] THEN top[s][d] ELSE 0]]
            /\ desired' = [s \in DeskStacks |-> [d \in LegSides |->
                         IF top[s][d] # 0 /\ top'[s][d] = 0 THEN 0 ELSE desired[s][d]]]
        BY <3>2 DEF Evict
      <4>3. \A s \in DeskStacks, d \in LegSides :
              /\ top'[s][d] = top[s][d] \/ top'[s][d] = 0
              /\ desired'[s][d] = desired[s][d] \/ (desired'[s][d] = 0 /\ top'[s][d] = 0)
        BY <4>2
      <4>4. top' \in [DeskStacks -> [LegSides -> Nat]]
        BY <4>1, <4>2
      <4>5. desired' \in [DeskStacks -> [LegSides -> QuotePrices \cup {0}]]
        BY <4>1, <4>2
      <4>. QED BY <3>2, <4>3, <4>4, <4>5
    <3>. QED BY <2>1, <3>1, <3>2
  <2>6. ConvTypes'
    BY <2>2, <2>5 DEF ConvInv, ConvTypes, Ids
  <2>7. conv'.left \subseteq conv.left /\ conv'.at = conv.at /\ conv'.excused = conv.excused
    BY <2>3
  <2>. QED BY <2>2, <2>4, <2>5, <2>6, <2>7, QuotesDropped
<1>. QED BY <1>1, <1>2

(* Every step keeps the invariant.                                           *)
LEMMA ConvStep ==
  ASSUME ConvConstants, ConvInv, [ConvNext]_convState
  PROVE  ConvInv'
<1>1. CASE UNCHANGED convState
  BY <1>1 DEF convState, ConvInv, ConvTypes, TopsOwn, QuoteOf, CleanUpWhole, QuotesSpared, Keeps, CapReached,
     Abs, ReduceSide, GrowSide, Away, Ids
<1>2. CASE ConvNext
  BY <1>2, OutsideConv, StackConv, FillConv, ChoiceConv, CancelConv DEF ConvNext
<1>. QED BY <1>1, <1>2

(* The clean-up at the cap spares the stacks' quotes: what it cancels row by *)
(* row is no stack's present quote on a side that stack may keep, unless the *)
(* order was not accepted when the rows were claimed and another row was at  *)
(* its price - for any stacks, cap and prices.                               *)
THEOREM CleanUpSpares ==
  ASSUME ConvConstants
  PROVE  ConvSpec => SparesQuotes
<1>1. ASSUME ConvInv, [ConvNext]_convState
      PROVE  CancelSpares
  <2>. SUFFICES ASSUME NEW i \in rows \ rows', CancelRow, Keeps(conv.at, placed[i].side)
                PROVE  \/ \A s \in DeskStacks : top[s][placed[i].side] # i
                       \/ i \in conv.excused
    BY DEF CancelSpares, Keeps
  <2>1. i \in conv.left /\ conv.pc = "cancel"
    BY DEF CancelRow
  <2>. QED BY <1>1, <2>1 DEF ConvInv, QuotesSpared
<1>. QED BY <1>1, ConvStart, ConvStep, PTL DEF ConvSpec, SparesQuotes
=============================================================================
